SPECIFICATION MCSpec
CONSTANTS
  Source = {hook, stranger}
  hook = hook
  stranger = stranger
  Known = {hook}
  Nonce = {n1, n2}
  Letter <- MCLetter
  MaxRequests = 3
  Skew = 1
  Ttl = 2
  Window = 1
  RateLimit = 2
  Horizon = 3
  MaxBoots = 2
  Subscribers <- MCSubscribers
  LimitWindow = 1
  Day = 3
  QuietFrom = 2
  QuietUntil = 1
  Capacity = 2
  MaxEvents = 3
  MaxRaises = 1
  LastMoment = 1
  MaxEnds = 1
  Provider = {openai, local}
  Delay = {2}
  RateCooldown = 1
  DownCooldown = 2
  Threshold = 2
  MaxCalls = 3
  LastTime = 3
SYMMETRY Alike
INVARIANTS
  ReplayRejected
  ReplayMeansTask
  CriticalThrough
  JournalHolds
  RetryAfterHonored
CHECK_DEADLOCK FALSE
