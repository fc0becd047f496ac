SPECIFICATION MCSpec
CONSTANTS
  resident = resident
  reflect = reflect
  user = user
  Caller = {resident, reflect, user}
  Runner = {resident, reflect}
  Curator = {user}
  Resident = resident
  Subject = {1, 2}
  Skill = {3}
  Ttl = 1
  MaxTime = 1
  TrustMin = 2
  DegradeMin = 1
  MaxEvaluations = 4
  MaxTrusts = 2
  Drafts <- MCDrafts
  Reports <- MCReports
  MinFailures = 1
  MaxProposals = 1
  MaxSkillEvaluations = 1
  MaxOutcomes = 1
  MaxActs = 2
  MaxAborts = 1
INVARIANTS TrustEarned OneInsight
PROPERTIES MemoryLife SkillsKept InsightNoted
