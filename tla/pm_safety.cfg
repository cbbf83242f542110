\* Two callers, every call, failed starts and saves, an outsider, two crashes of
\* Node-RED and one of NRCC.
CONSTANTS
  Callers = {c1, c2}
  Ops = {"start", "stop", "restart", "env", "restore"}
  MaxRestarts = 1
  HistoryCap = 1
  Faults = {"exec", "save"}
  Outsiders = TRUE
  MaxLives = 6
  MaxCrashes = 2
  FirstCount = 2
  MaxBoots = 2
SPECIFICATION Spec
SYMMETRY Symmetry
INVARIANT TypeOK
INVARIANT OneChild
INVARIANT StopWaitsForExit
INVARIANT SignalledIsNotACrash
PROPERTY DurableCountIsMonotone
\* every call is made once: the system may stop
CHECK_DEADLOCK FALSE
