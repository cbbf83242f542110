\* Two requests, every kind of payload, every failure but the directory
\* fsync after a rename, cancellation, a crash of NRCC and one EnvService write.
CONSTANTS
  Requests = {r1, r2}
  NoReq = NoReq
  port = port
  auth = auth
  v0 = v0
  v1 = v1
  key = key
  plain = plain
  secret = secret
  Zero = Zero
  Absent = Absent
  NoFile = NoFile
  EnvKeys = {key}
  PlainVals = {plain}
  SecretVals = {secret}
  Fields <- MCFields
  KeptFields <- MCKept
  Vals <- MCVals
  Default <- MCDefault
  Inputs <- MCInputs
  FirstSources <- MCAnySources
  FirstStores <- MCLiveStores
  Faults = {"input", "adapter", "store", "backup", "write", "mirror", "restart", "ready", "cancel", "crash"}
  MaxEnvOps = 1
  MaxEdits = 0
SPECIFICATION Spec
SYMMETRY Symmetry
INVARIANTS TypeOK RejectedSaveHasNoEffect RecoveredRunsPrevious SuccessIsRunning
  MirrorAgreesWithSource EnvWritesSurvive CrashPointsAreRecoverable
PROPERTIES SourceChangesAreGuarded ImplementsRegister
\* every request is served once: the system may stop
CHECK_DEADLOCK FALSE
