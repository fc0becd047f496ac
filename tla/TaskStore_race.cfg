SPECIFICATION Spec
CONSTANTS
  s1 = s1
  s2 = s2
  Surface = {s1, s2}
  Task = {t1}
  MaxAttempts = 2
  ListLimit = 2
  Requests <- FewRequests
  Offers <- OffersAll
  Mortal = {}
  NoTask = NoTask
PROPERTIES Lifecycle
