\* Two callers, every call, one crash.
CONSTANTS
  Callers = {c1, c2}
  Ops = {"start", "stop", "restart", "env", "restore"}
  MaxRestarts = 1
  HistoryCap = 1
  Faults = {"save"}
  Outsiders = FALSE
  MaxLives = 4
  MaxCrashes = 1
  FirstCount = 0
  MaxBoots = 1
SPECIFICATION FairSpec
PROPERTY CallsReturn
PROPERTY CrashIsRecovered
\* every call is made once: the system may stop
CHECK_DEADLOCK FALSE
