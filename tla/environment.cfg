\* A change of the environment beside a list, an import, a revert or a snapshot, with every
\* failure, a restore and a deployment.
CONSTANTS
  r1 = r1
  r2 = r2
  k1 = k1
  k2 = k2
  s1 = s1
  p1 = p1
  p2 = p2
  Requests = {r1, r2}
  Ops <- MCOps
  Keys = {k1, k2}
  Secrets = {s1}
  Plains = {p1, p2}
  Foreign = Foreign
  Initials <- MCInitials
  Restorable <- MCRestorable
  MaxVersions = 2
  MaxEdits = 1
  Faults = {"quiesce", "start", "config", "sync", "version"}
  Nobody = Nobody
SPECIFICATION Spec
 
 
PROPERTY RevertIsUndoable
CHECK_DEADLOCK FALSE
