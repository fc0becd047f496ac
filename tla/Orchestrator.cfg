SPECIFICATION FairSpec
CONSTANTS
  Node = {a, b, c, d}
  MaxConcurrent = 2
  MaxTotal = 4
  MaxRatio = 2
  Recording = TRUE
  MaxRounds = 2
INVARIANTS SlotsConserved EvidenceFirst FailsForCause ReportComplete
PROPERTIES ExecuteEnds
CHECK_DEADLOCK FALSE
