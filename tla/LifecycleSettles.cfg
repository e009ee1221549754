CONSTANTS
  Sessions = {s1}
  Runners = {r1, r2}
  Operators = {o1}
  Operations = {"queue", "stop", "resume", "sweep", "delete"}
  AutoTerminate = TRUE
  Unsupported = {}
  SpawnMayFail = FALSE
  MayCrash = FALSE
  NoPid = NoPid
  NoSession = NoSession
SPECIFICATION FairSpec
INVARIANT PendingIsTended
PROPERTIES
  
  RunnersEnd
  SessionsServed
CHECK_DEADLOCK FALSE
