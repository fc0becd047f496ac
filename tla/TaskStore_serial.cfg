SPECIFICATION FairSpec
CONSTANTS
  s1 = s1
  s2 = s2
  Surface = {s1}
  Task = {t1, t2}
  MaxAttempts = 2
  ListLimit = 2
  Requests <- AllRequests
  Offers <- OffersAll
  Mortal = {s1}
  NoTask = NoTask
INVARIANTS AuditMatchesTable BatchesComplete ReportStands
PROPERTIES Lifecycle KillSwitchStops
