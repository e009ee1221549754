CONSTANTS
  Sessions = {l1, l2, l3, d1}
  Leads = {l1, l2, l3}
  Routers = {daemon}
  Passes = {}
  Events = {"seen"}
  MaxParallel = 2
  LeadLimit = 2
  PerLead = 2
  InitialMail <- Saturated
  UserMail = 4
  MaxMail = 7
  MayFail = TRUE
  MayCrash = FALSE
  NoSession = NoSession
  Daemon = daemon
  StreakCap = 3
  l1 = l1
  l2 = l2
  l3 = l3
SPECIFICATION FairSpec
INVARIANTS
  CoordinationTypeOK
  RoutedOnce
  RebalanceStaysInTeam
  ModeMatchesStreak
PROPERTY CyclesEnd
CHECK_DEADLOCK FALSE
