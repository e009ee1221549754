CONSTANTS
  Schedules = {1, 2}
  Requests = {1, 2}
  Leads = {l1}
  Dispatchers = {daemon, cli}
  Daemons = {daemon}
  Mortal = {cli}
  Cron <- Crontab
  Fragile = {2}
  Limit = 1
  MaxTime = 2
  MaxRows = 2
  NoLead = NoLead
  NoSchedule = 0
  NoRequest = 0
SPECIFICATION FairSpec
INVARIANTS
  TypeOK
  RunsOnce
PROPERTIES
  NextRunAdvances
  DueSchedulesRun
  PendingRequestsServed
  DispatchServes
CHECK_DEADLOCK FALSE
