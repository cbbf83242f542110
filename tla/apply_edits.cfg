\* One request, every payload and failure, and an editor that saves settings.js
\* at any moment.
CONSTANTS
  Requests = {r1}
  NoReq = NoReq
  port = port
  auth = auth
  v0 = v0
  v1 = v1
  key = key
  plain = plain
  secret = secret
  Zero = Zero
  Absent = Absent
  NoFile = NoFile
  EnvKeys = {key}
  PlainVals = {plain}
  SecretVals = {secret}
  Fields <- MCFields
  KeptFields <- MCKept
  Vals <- MCVals
  Default <- MCDefault
  Inputs <- MCAllInputs
  FirstSources <- MCAnySources
  FirstStores <- MCLiveStores
  Faults = {"input", "adapter", "store", "backup", "write", "sync", "mirror", "restart", "ready", "cancel"}
  MaxEnvOps = 0
  MaxEdits = 1
SPECIFICATION FairSpec
PROPERTY StaleSaveIsRefused
\* every request is served once: the system may stop
CHECK_DEADLOCK FALSE
