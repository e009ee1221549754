CONSTANTS
  Sessions = {s1, s2, s3}
  Runs = {r1, r2, r3}
  Processes = {dashboard, daemon}
  Daemons = {daemon}
  Operations = {"queue", "activate", "stop"}
  MaxWorktrees = 1
  MayFail = FALSE
  MayCrash = FALSE
  NoRun = NoRun
  NoSession = NoSession
SPECIFICATION Spec
SYMMETRY Symmetry
INVARIANTS
  
  OneRunWorks
CHECK_DEADLOCK FALSE
