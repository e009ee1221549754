CONSTANTS
  Sessions = {s1}
  Runners = {r1}
  Operators = {o1}
  Operations = {"queue", "stop"}
  AutoTerminate = FALSE
  Unsupported = {}
  SpawnMayFail = FALSE
  MayCrash = FALSE
  NoPid = NoPid
  NoSession = NoSession
SPECIFICATION Spec
SYMMETRY Symmetry
INVARIANT StoppedAgentIsDead
CHECK_DEADLOCK FALSE
