\* Real tunables, in ticks of 200 ms.
CONSTANTS
  Attempts = 6
  Timeout = 25
  BackoffMin = 1
  BackoffMax = 10
  RecoveryTimeout = 150
  DockerRestartTimeout = 150
  RestartTimes <- MCRestartTimes
  Opens <- MCOpens
  Serves <- MCServes
  Leaves <- MCLeaves
  Window = 25
SPECIFICATION Spec
INVARIANT OnlyTheRestartOverruns
INVARIANT SlowBootIsAwaited
\* an apply is answered once
CHECK_DEADLOCK FALSE
