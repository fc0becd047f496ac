SPECIFICATION MCSpec
CONSTANTS
  Client = {client1, client2}
  Legacy = 1
  MaxSessions = 3
  MaxTurns = 2
  MaxDeaths = 1
  File = {"top", "inner", "deleted-from"}
  Dir = {"dir"}
  Top = Top
  Home <- MCHome
  DeletedFrom <- MCDeletedFrom
  MaxWrites = 2
  MaxEntries = 2
  MaxBreaks = 1
  Topic = {"k", "l"}
  Text = {"x", "y"}
  Evidences = {0, 1, 2}
  Confidences = {2, 4}
  MaxClaims = 3
  Tool = {"t", "u"}
  MaxAttempts = 4
  GoalId = {"g"}
  TaskId = {1, 2, 3}
  Stranger = 9
  Segment <- MCSegment
  Budget = {1, 2, 3, 4, 5, 6}
  MaxSegments = 4
INVARIANT DeleteKeepsContent
CHECK_DEADLOCK FALSE
