CONSTANTS
  Sessions = {s1, s2, s3}
  Runs = {r1, r2, r3}
  Processes = {cli, daemon}
  Daemons = {daemon}
  Operations = {"queue", "delete"}
  MaxWorktrees = 1
  MayFail = FALSE
  MayCrash = FALSE
  NoRun = NoRun
  NoSession = NoSession
SPECIFICATION FairSpec
INVARIANTS
  
  NoOrphanWorktree
  
PROPERTY QueueDrains
CHECK_DEADLOCK FALSE
