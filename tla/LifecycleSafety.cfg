CONSTANTS
  Sessions = {s1}
  Runners = {r1, r2}
  Operators = {o1, o2}
  Operations = {"queue", "stop", "resume", "sweep", "recover"}
  AutoTerminate = FALSE
  Unsupported = {}
  SpawnMayFail = TRUE
  MayCrash = TRUE
  NoPid = NoPid
  NoSession = NoSession
SPECIFICATION Spec
SYMMETRY Symmetry
INVARIANTS
  TypeOK
  RecordedPidIsTended
  RunningIsTended
CHECK_DEADLOCK FALSE
