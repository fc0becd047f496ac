SPECIFICATION FairSpec
CONSTANTS
  s1 = s1
  s2 = s2
  Surface = {s1, s2}
  Task = {t1, t2}
  MaxAttempts = 1
  ListLimit = 2
  Requests <- FewRequests
  Offers <- OffersSplit
  Mortal = {}
  NoTask = NoTask
PROPERTIES UpdatesSafe CallsReturn
