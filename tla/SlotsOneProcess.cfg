CONSTANTS
  Sessions = {s1, s2}
  Runs = {r1, r2}
  Processes = {dashboard}
  Daemons = {}
  Operations = {"queue", "activate", "prune", "cleanup", "resume", "delete", "stop", "sweep"}
  MaxWorktrees = 1
  MayFail = TRUE
  MayCrash = TRUE
  NoRun = NoRun
  NoSession = NoSession
SPECIFICATION Spec
SYMMETRY Symmetry
INVARIANTS
  TypeOK
  SlotsRespected
CHECK_DEADLOCK FALSE
