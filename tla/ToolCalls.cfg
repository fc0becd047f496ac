SPECIFICATION Spec
CONSTANTS
  w1 = w1
  w2 = w2
  trash = trash
  build = build
  Worker = {w1, w2}
  Action = {trash, build}
  ToolOf <- Tools
  Job <- Jobs
  RuleBooks <- Books
  Cancellable = {w2}
  Watched = {"terminal_run"}
  MaxAttempts = 2
  Validity = 1
  MaxCreated = 2
  MaxTime = 2
INVARIANT RetriesEnd
PROPERTIES RunsConsented
