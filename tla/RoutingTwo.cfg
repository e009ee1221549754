CONSTANTS
  Sessions = {l1, l2, d1}
  Leads = {l1, l2}
  Routers = {daemon, cli}
  Passes = {"dispatch", "rebalance"}
  Events = {"send", "seen", "end", "resume"}
  MaxParallel = 2
  LeadLimit = 1
  PerLead = 2
  InitialMail <- Nothing
  UserMail = 2
  MaxMail = 3
  MayFail = FALSE
  MayCrash = TRUE
  NoSession = NoSession
SPECIFICATION RoutingSpec
SYMMETRY Symmetry
INVARIANTS
  DispatchLosesNothing
CHECK_DEADLOCK FALSE
