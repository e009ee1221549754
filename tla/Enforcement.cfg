CONSTANTS
  s1 = s1
  s2 = s2
  Sessions = {s1, s2}
  Paths = {1}
  Enforcers = {tui, cli}
  Dashboards = {tui}
  Mortal = {tui}
  MaxDeaths = 1
  Resumable = {s1}
  Quiet = {s2}
  Strategies = {"escalate"}
  TokenBudget = 1
  ProfileBudget <- Profiles
  Unkillable = {s2}
  MaxTokens <- Uses
  MaxStarts = 2
  NoSession = NoSession
  NoConflict = NoConflict
SPECIFICATION FairSpec
INVARIANTS
  TypeOK
  IncidentsCarriedOut
  
  
PROPERTIES
  
  BudgetsStop
  
CHECK_DEADLOCK FALSE
