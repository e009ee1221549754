CONSTANTS
  Sessions = {1, 2}
  Processors = {daemon, cli}
  Daemons = {daemon}
  Queues = {daemon}
  Mortal = {cli}
  Clash <- Clashes
  User = 0
  MaxWork = 1
  NoSession = NoSession
  NoHead = NoHead
SPECIFICATION FairSpec
INVARIANTS
  TypeOK
  
PROPERTIES
  NothingLost
  RootLeftInOrder
  QueueReturns
  FirstEntriesMerge
CHECK_DEADLOCK FALSE
