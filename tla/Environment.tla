----------------------------- MODULE Environment -----------------------------
(***************************************************************************)
(* Environment variables and flow versions: the two writers of flows.json  *)
(* beside Node-RED.  service/env_linux.go, env_nodered_linux.go and        *)
(* env_bulk_linux.go keep the variables in config.json and mirror the      *)
(* plain ones into the global-config node of flows.json; flow_version.go   *)
(* captures flows.json and reverts it.  The environment handler serialises *)
(* its changes with a mutex (hMu) and stops Node-RED around them; GET      *)
(* /api/env migrates old entries without that mutex, an import plans       *)
(* before it takes it, and a revert stops Node-RED by itself.              *)
(*                                                                         *)
(* flows.json is a body, numbered by the deployment that made it, and the  *)
(* values of the global environment.  EnvService.mu and the flock of       *)
(* flows.json are only taken under hMu and are left out.                   *)
(***************************************************************************)
EXTENDS Integers, Sequences, FiniteSets

CONSTANTS
  Requests,     \* handler goroutines, one operation each
  Ops,          \* the operations each of them may perform, see Operations
  Keys,         \* names of variables
  Secrets,      \* values clients send for secrets
  Plains,       \* values clients send for other types
  Foreign,      \* a value set in Node-RED's editor
  Initials,     \* what config.json may hold at first
  Restorable,   \* what config.json may hold in a backup that is restored
  MaxVersions,  \* the versions pruneOld keeps (100 in the code)
  MaxEdits,     \* bound: deployments of Node-RED
  Faults,       \* what may fail: see AllFaults
  Nobody        \* no holder of hMu

(* "quiesce", "start": Node-RED does not stop or start; "config": the      *)
(* update of config.json fails; "sync": flows.json cannot be written;      *)
(* "version": a version cannot be written.                                 *)
AllFaults == {"quiesce", "start", "config", "sync", "version"}
Empty == "empty"
None == "none"
NoVar == [type |-> None]
Values == Secrets \cup Plains \cup {Foreign, Empty}
(* A line of a request; the handlers refuse one that is not valid for      *)
(* ValidateEnvKey and ValidateValue.                                       *)
Line == [key: Keys, type: {"string", "secret"}, val: Values, valid: BOOLEAN]
Operations == [kind: {"set", "delete", "bulk"}, lines: Seq(Line)]
                \cup [kind: {"list", "import", "revert", "snapshot"}, lines: {<<>>}]

ASSUME ConstantsOK ==
  /\ \A r \in Requests : \A o \in Ops[r] : o \in Operations
  /\ Foreign \notin Plains \cup Secrets /\ Plains \cap Secrets = {}
  /\ MaxVersions \in Nat \ {0, 1} /\ MaxEdits \in Nat
  /\ Faults \subseteq AllFaults /\ Nobody \notin Requests

VARIABLES
  keySet,   \* NRCC_ENCRYPTION_KEY is configured
  restored, \* a backup was restored
  conf,     \* config.json: the variables
  flows,    \* flows.json
  node,     \* Node-RED: running, stopped
  mem,      \* the flows Node-RED has loaded
  versions, \* flow-versions/, oldest first
  nextV,    \* the id of the next version
  lastHash, \* the content last captured or reverted to
  hMu,      \* EnvHandler.mu
  pc, job,  \* each request: its phase and its local variables
  poll,     \* the poller of flow versions: {} or the content it has read
  edits     \* deployments so far

diskVars == <<conf, flows>>
versionVars == <<versions, nextV, lastHash, poll>>
nodeVars == <<keySet, restored, node, mem, edits>>
vars == <<diskVars, versionVars, nodeVars, hMu, pc, job>>

May(fault) == fault \in Faults
NoJob == [kind |-> None, lines |-> <<>>, i |-> 1, was |-> FALSE, keys |-> {}, seen |-> {},
          target |-> 0, disturbed |-> FALSE, result |-> None]
InLines(r) == {job[r].lines[i].key : i \in 1..Len(job[r].lines)}
Exists(v) == v.type # None
Plain(v) == Exists(v) /\ ~v.enc /\ v.type # "secret"
(* The value of a variable: Encrypt hides it and loses nothing. *)
ValueOf(v) == IF Exists(v) THEN v.val ELSE None

(* The value of a key in the global-config node: syncNodeRedGlobalEnvs     *)
(* mirrors plain variables and removes the others.                         *)
Wanted(c, k) == IF Plain(c[k]) THEN c[k].val ELSE None
Synced(f, c, keys) == [f EXCEPT !.env = [k \in Keys |-> IF k \in keys THEN Wanted(c, k) ELSE @[k]]]

(* set and applyBulkEnvDirect: the new variable of a line.  An empty value *)
(* keeps the stored value of an encrypted variable.                        *)
Updated(old, line, source) ==
  IF line.val = Empty /\ Exists(old) /\ old.enc
    THEN [old EXCEPT !.type = line.type, !.enc = (line.type = "secret"), !.src = source]
    ELSE [type |-> line.type, enc |-> line.type = "secret", val |-> line.val, src |-> source,
          cipher |-> line.type = "secret" /\ line.val # Empty /\ keySet]
(* ErrEncryptionKeyRequired *)
NeedsKey(line) == line.type = "secret" /\ line.val # Empty /\ ~keySet

(* MigrateEnvTypes and envMigrationNeeded. *)
Migrated(v) == [v EXCEPT !.type = IF v.enc THEN "secret"
                                  ELSE IF v.type = "plain" THEN "string" ELSE @]
Unciphered(v) == Exists(v) /\ v.enc /\ keySet /\ ~v.cipher
MigrationNeeded(c) ==
  \E k \in Keys : Exists(c[k]) /\ (Migrated(c[k]) # c[k] \/ Unciphered(c[k]))

Init ==
  /\ keySet \in BOOLEAN /\ conf \in Initials
  /\ \E env \in [Keys -> {None, Foreign}] :
       flows = Synced([body |-> 0, env |-> env], conf, {k \in Keys : Plain(conf[k])})
  /\ node = "running" /\ mem = flows
  /\ versions = <<>> /\ nextV = 1 /\ lastHash = {} /\ poll = {}
  /\ hMu = Nobody /\ edits = 0 /\ restored = FALSE
  /\ pc = [r \in Requests |-> "idle"] /\ job = [r \in Requests |-> NoJob]

Goto(r, phase) == pc' = [pc EXCEPT ![r] = phase]
Answer(r, result) ==
  /\ Goto(r, "done") /\ job' = [job EXCEPT ![r] = [NoJob EXCEPT !.result = result]]

-----------------------------------------------------------------------------
(* The handlers: what is decided before anything is touched.               *)

(* ValidateEnvKey, ValidateValue and NormalizeValue accept every line.     *)
Valid(o) == \A i \in 1..Len(o.lines) : o.lines[i].valid

Begin(r, o, phase) ==
  /\ pc[r] = "idle" /\ o \in Ops[r] /\ Goto(r, phase)
  /\ job' = [job EXCEPT ![r].kind = o.kind, ![r].lines = o.lines]
  /\ UNCHANGED <<diskVars, versionVars, nodeVars, hMu>>

(* A variable that is not valid, a bulk with an issue in any line.         *)
Rejected(r) ==
  /\ pc[r] = "idle"
  /\ \E o \in Ops[r] : /\ ~Valid(o) /\ Goto(r, "done")
                       /\ job' = [job EXCEPT ![r].result = "rejected"]
  /\ UNCHANGED <<diskVars, versionVars, nodeVars, hMu>>

PostEnv(r) == \E o \in Ops[r] : o.kind = "set" /\ Valid(o) /\ Begin(r, o, "locking")
DeleteEnv(r) == \E o \in Ops[r] : o.kind = "delete" /\ Begin(r, o, "locking")
BulkEnv(r) == \E o \in Ops[r] : o.kind = "bulk" /\ Valid(o) /\ Begin(r, o, "locking")
GetEnv(r) == \E o \in Ops[r] : o.kind = "list" /\ Begin(r, o, "listing")
ImportFromNodeRedEnv(r) == \E o \in Ops[r] : o.kind = "import" /\ Begin(r, o, "importing")
PostRevert(r) == \E o \in Ops[r] : o.kind = "revert" /\ Begin(r, o, "reverting")
PostSnapshot(r) == \E o \in Ops[r] : o.kind = "snapshot" /\ Begin(r, o, "capturing")

-----------------------------------------------------------------------------
(* withManagedNodeRedStopped. *)

(* A revert takes no part in hMu: the two handlers may be at work at once. *)
Active(kinds) == {q \in Requests : job[q].kind \in kinds /\ pc[q] \notin {"idle", "done", "reverting"}}

(* The mutex, the status and the stop. *)
Quiesce(r) ==
  /\ pc[r] = "locking" /\ hMu = Nobody /\ hMu' = r
  /\ job' = [job EXCEPT ![r].was = node = "running", ![r].disturbed = Active({"revert"}) # {}]
  /\ node' = "stopped" /\ UNCHANGED <<keySet, restored, mem, edits>>
  /\ Goto(r, CASE job[r].kind = "import" -> "lines"
               [] job[r].kind = "bulk" /\ \E i \in 1..Len(job[r].lines) : NeedsKey(job[r].lines[i])
                    -> "lines"
               [] OTHER -> "committing")
  /\ UNCHANGED <<diskVars, versionVars>>

QuiesceFails(r) ==
  /\ pc[r] = "locking" /\ hMu = Nobody /\ node = "running" /\ May("quiesce")
  /\ Answer(r, "error") /\ UNCHANGED <<diskVars, versionVars, nodeVars, hMu>>

(* The change ends: Node-RED is started again, as it is after a failure.   *)
EndsWith(r, result) ==
  /\ Goto(r, "restarting") /\ job' = [job EXCEPT ![r].result = result, ![r].seen = {}]

Load(to) == node' = to /\ mem' = IF to = "running" THEN flows ELSE mem
Restart(r) ==
  /\ pc[r] = "restarting" /\ hMu = r /\ hMu' = Nobody
  /\ \/ /\ job[r].was /\ Load("running") /\ Answer(r, job[r].result)
     \/ /\ job[r].was /\ May("start") /\ Answer(r, "error") /\ UNCHANGED <<node, mem>>
     \/ /\ ~job[r].was /\ Answer(r, job[r].result) /\ UNCHANGED <<node, mem>>
  /\ UNCHANGED <<diskVars, versionVars, edits, keySet, restored>>

-----------------------------------------------------------------------------
(* Changes of config.json: one ConfigService.Update each, which the store  *)
(* makes one read, change and rename under its lock.                       *)
Update(c) == conf' = c

(* Set, Delete and a bulk that is committed as a whole.  Set and Delete    *)
(* mirror a key that is or was plain, a bulk mirrors all its keys.         *)
NewConf(r) ==
  [k \in Keys |->
     IF k \notin InLines(r) THEN conf[k]
     ELSE IF job[r].kind = "delete" THEN NoVar
     ELSE LET i == CHOOSE j \in 1..Len(job[r].lines) : job[r].lines[j].key = k
          IN  Updated(conf[k], job[r].lines[i], "nrcc")]
(* Mutant: only the new variable decides whether the mirror is updated. *)
KeysToSyncOfNew(r) == {k \in InLines(r) : job[r].kind = "bulk" \/ Plain(NewConf(r)[k])}
KeysToSync(r) ==
  {k \in InLines(r) : job[r].kind = "bulk" \/ Plain(conf[k]) \/ Plain(NewConf(r)[k])}

Commit(r) ==
  /\ pc[r] = "committing" /\ ~\E i \in 1..Len(job[r].lines) : NeedsKey(job[r].lines[i])
  /\ Update(NewConf(r))
  /\ IF KeysToSync(r) = {}
       THEN EndsWith(r, "ok")
       ELSE Goto(r, "syncing") /\ job' = [job EXCEPT ![r].keys = KeysToSync(r)]
  /\ UNCHANGED <<flows, versionVars, nodeVars, hMu>>

CommitFails(r) ==
  /\ pc[r] = "committing"
  /\ May("config") \/ \E i \in 1..Len(job[r].lines) : NeedsKey(job[r].lines[i])
  /\ EndsWith(r, "error") /\ UNCHANGED <<diskVars, versionVars, nodeVars, hMu>>

(* Entry by entry: an import, and a bulk the direct path declined.  An     *)
(* entry that cannot be stored ends it; the entries before it stay.        *)
CommitLine(r) ==
  /\ pc[r] = "lines" /\ job[r].i <= Len(job[r].lines) /\ ~NeedsKey(job[r].lines[job[r].i])
  /\ LET line == job[r].lines[job[r].i]
         source == IF job[r].kind = "import" THEN "node-red" ELSE "nrcc"
     IN  Update([conf EXCEPT ![line.key] = Updated(@, line, source)])
  /\ job' = [job EXCEPT ![r].i = @ + 1]
  /\ UNCHANGED <<flows, versionVars, nodeVars, hMu, pc>>

LineFails(r) ==
  /\ pc[r] = "lines" /\ job[r].i <= Len(job[r].lines)
  /\ May("config") \/ NeedsKey(job[r].lines[job[r].i])
  /\ EndsWith(r, "error") /\ UNCHANGED <<diskVars, versionVars, nodeVars, hMu>>

LinesEnd(r) ==
  /\ pc[r] = "lines" /\ job[r].i > Len(job[r].lines) /\ job[r].kind = "import"
  /\ EndsWith(r, "ok") /\ UNCHANGED <<diskVars, versionVars, nodeVars, hMu>>

(* syncNodeRedGlobalEnvValues: flows.json is read, changed and replaced by *)
(* a rename; the variables are read again, as they are now.                *)
SyncRead(r) ==
  /\ pc[r] = "syncing" /\ Goto(r, "writing")
  /\ job' = [job EXCEPT ![r].seen = {Synced(flows, conf, job[r].keys)}]
  /\ UNCHANGED <<diskVars, versionVars, nodeVars, hMu>>

SyncWrite(r) ==
  /\ pc[r] = "writing" /\ flows' \in job[r].seen /\ EndsWith(r, "ok")
  /\ UNCHANGED <<conf, versionVars, nodeVars, hMu>>

SyncFails(r) ==
  /\ pc[r] = "writing" /\ May("sync") /\ EndsWith(r, "error")
  /\ UNCHANGED <<diskVars, versionVars, nodeVars, hMu>>

-----------------------------------------------------------------------------
(* List and its migration, which holds no lock between the read, the       *)
(* encryption and the update.                                              *)

ListRead(r) ==
  /\ pc[r] = "listing"
  /\ IF MigrationNeeded(conf)
       THEN Goto(r, "migrating") /\ job' = [job EXCEPT ![r].seen = {conf}]
       ELSE IF job[r].kind = "import" THEN Goto(r, "planning") /\ UNCHANGED job
       ELSE Answer(r, "ok")
  /\ UNCHANGED <<diskVars, versionVars, nodeVars, hMu>>

(* The staged ciphertexts, by key and value. *)
Staged(c) == {[key |-> k, val |-> c[k].val] : k \in {q \in Keys : Unciphered(c[q])}}
Encrypted(c) == [k \in Keys |-> IF ~Exists(c[k]) THEN c[k]
                                ELSE [Migrated(c[k]) EXCEPT !.cipher = @ \/ Unciphered(c[k])]]
IsStale(r) ==
  \E k \in Keys, c \in job[r].seen : Unciphered(conf[k]) /\ [key |-> k, val |-> conf[k].val] \notin Staged(c)

AfterList(r) ==
  IF job[r].kind = "import"
    THEN Goto(r, "planning") /\ job' = [job EXCEPT ![r].seen = {}]
    ELSE Answer(r, "ok")

(* Mutant: what was staged is written without a look at the present value. *)
MigrateBlindly(r) ==
  /\ pc[r] = "migrating" /\ MigrationNeeded(conf)
  /\ \E c \in job[r].seen : conf' = [k \in Keys |-> IF Unciphered(c[k]) THEN Encrypted(c)[k]
                                                    ELSE Encrypted(conf)[k]]
  /\ AfterList(r) /\ UNCHANGED <<flows, versionVars, nodeVars, hMu>>
Migrate(r) ==
  /\ pc[r] = "migrating" /\ MigrationNeeded(conf) /\ ~IsStale(r)
  /\ Update(Encrypted(conf)) /\ AfterList(r)
  /\ UNCHANGED <<flows, versionVars, nodeVars, hMu>>

(* errEnvMigrationStale starts over, errEnvMigrationAlreadyDone is success.*)
MigrateAgain(r) ==
  /\ pc[r] = "migrating" /\ MigrationNeeded(conf) /\ IsStale(r) /\ Goto(r, "listing")
  /\ job' = [job EXCEPT ![r].seen = {}]
  /\ UNCHANGED <<diskVars, versionVars, nodeVars, hMu>>

MigrationDone(r) ==
  /\ pc[r] = "migrating" /\ ~MigrationNeeded(conf) /\ AfterList(r)
  /\ UNCHANGED <<diskVars, versionVars, nodeVars, hMu>>

-----------------------------------------------------------------------------
(* ImportFromNodeRed: the entries of flows.json, the migration, the plan,  *)
(* and then the stop of Node-RED and the changes.                          *)
EntryLines(f) == {[key |-> k, type |-> "string", val |-> f.env[k], valid |-> TRUE] :
                    k \in {q \in Keys : f.env[q] # None}}
ImportRead(r) ==
  /\ pc[r] = "importing"
  /\ IF EntryLines(flows) = {}
       THEN Answer(r, "ok")
       ELSE /\ \E s \in [1..Cardinality(EntryLines(flows)) -> EntryLines(flows)] :
                 /\ \A i, j \in DOMAIN s : s[i] = s[j] => i = j
                 /\ job' = [job EXCEPT ![r].lines = s]
            /\ Goto(r, "listing")
  /\ UNCHANGED <<diskVars, versionVars, nodeVars, hMu>>

(* A variable NRCC manages takes precedence, an equal one is skipped. *)
Importable(line) ==
  \/ ~Exists(conf[line.key])
  \/ /\ conf[line.key].src = "node-red" /\ Plain(conf[line.key])
     /\ conf[line.key].val # line.val
Plan(r) ==
  /\ pc[r] = "planning"
  /\ LET lines == SelectSeq(job[r].lines, Importable)
     IN  IF lines = <<>> THEN Answer(r, "ok")
         ELSE Goto(r, "locking") /\ job' = [job EXCEPT ![r].lines = lines]
  /\ UNCHANGED <<diskVars, versionVars, nodeVars, hMu>>

-----------------------------------------------------------------------------
(* Flow versions. *)

(* saveVersion and pruneOld, under the service's mutex. *)
Saved(content) ==
  LET all == Append(versions, [id |-> nextV, flows |-> content])
  IN  IF Len(all) > MaxVersions THEN SubSeq(all, Len(all) - MaxVersions + 1, Len(all)) ELSE all
SaveVersion(content) == versions' = Saved(content) /\ nextV' = nextV + 1
NotSaved == May("version") /\ UNCHANGED <<versions, nextV>>

(* captureIfChanged: the file is read before the mutex is taken, and the   *)
(* content counts as captured although it could not be written.            *)
PollRead ==
  /\ poll = {} /\ {flows} # lastHash /\ poll' = {flows}
  /\ UNCHANGED <<versions, nextV, lastHash, diskVars, nodeVars, hMu, pc, job>>

PollSave ==
  /\ poll # {} /\ poll' = {} /\ lastHash' = poll
  /\ IF poll = lastHash THEN UNCHANGED <<versions, nextV>>
     ELSE \E content \in poll : SaveVersion(content) \/ NotSaved
  /\ UNCHANGED <<diskVars, nodeVars, hMu, pc, job>>

(* PostRevert: stop, snapshot, write, start; the version asked for may not *)
(* exist, which only Revert finds out.                                     *)
GetVersion(id) == {v.flows : v \in {versions[i] : i \in {j \in DOMAIN versions : versions[j].id = id}}}
RevertQuiesce(r) ==
  /\ pc[r] = "reverting"
  /\ \E id \in {0} \cup {versions[i].id : i \in DOMAIN versions} : job' = [q \in Requests |->
       IF q = r THEN [job[r] EXCEPT !.was = node = "running", !.target = id]
       ELSE [job[q] EXCEPT !.disturbed = @ \/ q \in Active({"set", "delete", "bulk"})]]
  /\ node' = "stopped" /\ Goto(r, "capturing")
  /\ UNCHANGED <<diskVars, versionVars, keySet, restored, mem, edits, hMu>>

RevertQuiesceFails(r) ==
  /\ pc[r] = "reverting" /\ node = "running" /\ May("quiesce")
  /\ Answer(r, "error") /\ UNCHANGED <<diskVars, versionVars, nodeVars, hMu>>

(* CaptureNow, of a revert or of a manual snapshot. *)
CaptureRead(r) ==
  /\ pc[r] = "capturing" /\ Goto(r, "saving") /\ job' = [job EXCEPT ![r].seen = {flows}]
  /\ UNCHANGED <<diskVars, versionVars, nodeVars, hMu>>

Captured(r) ==
  IF job[r].kind = "revert" THEN Goto(r, "overwriting") /\ UNCHANGED job ELSE Answer(r, "ok")
(* Mutant: what was captured last needs no capture. *)
CaptureIfChanged(r) ==
  /\ pc[r] = "saving" /\ lastHash' = job[r].seen /\ Captured(r)
  /\ IF job[r].seen = lastHash THEN UNCHANGED <<versions, nextV>>
     ELSE \E content \in job[r].seen : SaveVersion(content)
  /\ UNCHANGED <<poll, diskVars, nodeVars, hMu>>
CaptureSave(r) ==
  /\ pc[r] = "saving" /\ lastHash' = job[r].seen /\ Captured(r)
  /\ \E content \in job[r].seen : SaveVersion(content)
  /\ UNCHANGED <<poll, diskVars, nodeVars, hMu>>

CaptureFails(r) ==
  /\ pc[r] = "saving" /\ lastHash' = job[r].seen /\ NotSaved
  /\ IF job[r].kind = "revert"
       THEN Goto(r, "resuming") /\ job' = [job EXCEPT ![r].result = "error", ![r].seen = {}]
       ELSE Answer(r, "error")
  /\ UNCHANGED <<poll, diskVars, nodeVars, hMu>>

(* A version that pruneOld has removed meanwhile is not found. *)
Revert(r) ==
  /\ pc[r] = "overwriting" /\ Goto(r, "resuming")
  /\ \E content \in GetVersion(job[r].target) : flows' = content /\ lastHash' = {content}
  /\ job' = [job EXCEPT ![r].result = "ok", ![r].seen = {}]
  /\ UNCHANGED <<conf, versions, nextV, poll, nodeVars, hMu>>

RevertFails(r) ==
  /\ pc[r] = "overwriting" /\ GetVersion(job[r].target) = {}
  /\ Goto(r, "resuming") /\ job' = [job EXCEPT ![r].result = "error", ![r].seen = {}]
  /\ UNCHANGED <<diskVars, versionVars, nodeVars, hMu>>

Resume(r) ==
  /\ pc[r] = "resuming"
  /\ \/ job[r].was /\ Load("running") /\ Answer(r, job[r].result)
     \/ job[r].was /\ May("start") /\ Answer(r, "error") /\ UNCHANGED <<node, mem>>
     \/ ~job[r].was /\ Answer(r, job[r].result) /\ UNCHANGED <<node, mem>>
  /\ UNCHANGED <<diskVars, versionVars, keySet, restored, edits, hMu>>

-----------------------------------------------------------------------------
(* A deployment in the editor writes the flows Node-RED has in memory.     *)
Deploy ==
  /\ node = "running" /\ edits < MaxEdits /\ edits' = edits + 1
  /\ flows' = [mem EXCEPT !.body = edits + 1] /\ mem' = flows'
  /\ UNCHANGED <<conf, keySet, restored, node, versionVars, hMu, pc, job>>

(* The backup service replaces config.json by the one of an archive. *)
Restore ==
  /\ ~restored /\ restored' = TRUE /\ conf' \in Restorable
  /\ job' = [q \in Requests |->
       [job[q] EXCEPT !.disturbed = @ \/ q \in Active({"set", "delete", "bulk"})]]
  /\ UNCHANGED <<keySet, flows, node, mem, edits, versionVars, hMu, pc>>

Step(r) ==
  \/ Rejected(r) \/ PostEnv(r) \/ DeleteEnv(r) \/ BulkEnv(r) \/ GetEnv(r)
  \/ ImportFromNodeRedEnv(r) \/ PostRevert(r) \/ PostSnapshot(r)
  \/ Quiesce(r) \/ QuiesceFails(r) \/ Restart(r)
  \/ Commit(r) \/ CommitFails(r) \/ CommitLine(r) \/ LineFails(r) \/ LinesEnd(r)
  \/ SyncRead(r) \/ SyncWrite(r) \/ SyncFails(r)
  \/ ListRead(r) \/ Migrate(r) \/ MigrateAgain(r) \/ MigrationDone(r)
  \/ ImportRead(r) \/ Plan(r)
  \/ RevertQuiesce(r) \/ RevertQuiesceFails(r) \/ CaptureRead(r) \/ CaptureSave(r)
  \/ CaptureFails(r) \/ Revert(r) \/ RevertFails(r) \/ Resume(r)

Next == (\E r \in Requests : Step(r)) \/ PollRead \/ PollSave \/ Deploy \/ Restore

Spec == Init /\ [][Next]_vars

-----------------------------------------------------------------------------
Ends(r, kinds) == pc[r] # "done" /\ pc'[r] = "done" /\ job[r].kind \in kinds
                    /\ job'[r].result = "ok"

(* An answered change of the environment is in flows.json too: a plain     *)
(* variable has its value there, and no value that was mirrored before, of *)
(* a variable that is now a secret or deleted, is left behind              *)
(* (withManagedNodeRedStopped: "success means both the persisted NRCC      *)
(* store and the Node-RED 5 global-config are ready").  A revert or a      *)
(* restore at the same time is excepted: a revert writes flows.json and    *)
(* starts Node-RED under the change, a restore replaces config.json.       *)
SuccessMeansMirrored ==
  [][\A r \in Requests : Ends(r, {"set", "delete", "bulk"}) /\ ~job[r].disturbed =>
       \A k \in InLines(r) :
         IF Plain(conf'[k]) THEN flows'.env[k] = conf'[k].val
                            ELSE flows'.env[k] \in {None, Foreign}]_vars

(* Migrating what a GET finds in an old format changes no variable's       *)
(* value, whatever was written between its read and its update.            *)
MigrationKeepsValues ==
  [][\A r \in Requests : pc[r] = "migrating" /\ pc'[r] # "migrating" =>
       \A k \in Keys : ValueOf(conf'[k]) = ValueOf(conf[k])]_vars

(* What a revert overwrites is among the versions, if nobody has written   *)
(* flows.json since the revert took its snapshot: also when an earlier     *)
(* capture of the same content has failed.                                 *)
RevertIsUndoable ==
  [][\A r \in Requests : pc[r] = "overwriting" /\ pc'[r] = "resuming" /\ job[r].seen = {flows}
       /\ flows' # flows => \E i \in DOMAIN versions' : versions'[i].flows = flows]_vars

(* ImportFromNodeRed: "NRCC entries (including legacy entries without a    *)
(* source) always take precedence, so an import can never overwrite an     *)
(* NRCC-managed value or encrypted secret".                                *)
ImportKeepsManaged ==
  [][\A r \in Requests : job[r].kind = "import" /\ job'[r].i # job[r].i =>
       \A k \in Keys : Exists(conf[k]) /\ conf[k].src = "nrcc" => conf'[k] = conf[k]]_vars
=============================================================================
