CONSTANTS
  Sessions = {l1, l2, d1}
  Leads = {l1, l2}
  Routers = {daemon}
  Passes = {}
  Events = {"send", "end"}
  MaxParallel = 1
  LeadLimit = 2
  PerLead = 2
  InitialMail <- Nothing
  UserMail = 2
  MaxMail = 3
  MayFail = FALSE
  MayCrash = FALSE
  NoSession = NoSession
  Daemon = daemon
  StreakCap = 3
  l1 = l1
  l2 = l2
  l3 = l3
SPECIFICATION FairSpec
PROPERTY CooloffEndsWhenRoom
CHECK_DEADLOCK FALSE
