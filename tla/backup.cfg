\* One restore, one creation or deletion and one change of the configuration, every
\* failure but that of the restart, and a crash of NRCC.
CONSTANTS
  r1 = r1
  r2 = r2
  Requests = {r1, r2}
  Ops <- MCOps
  Configs <- MCConfigs
  Default <- MCDefault
  NFiles = 2
  MaxId = 4
  Initial <- MCInitial
  Oversized = {3}
  Stamp <- MCStamp
  Faults = {"create", "prune", "unlink", "quiesce", "stage", "swap", "config", "rot"}
  MaxWrites = 1
  MaxCrashes = 1
SPECIFICATION Spec
 
 
INVARIANT ScheduleFollowsConfig
 
 
CHECK_DEADLOCK FALSE
PROPERTY RestoreBringsNodeRedBack
