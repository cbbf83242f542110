-------------------------- MODULE ApplyTransaction --------------------------
(***************************************************************************)
(* The settings.js apply transaction of NRCC: concurrent HTTP requests     *)
(* enter ApplyCoordinator.Apply, which guards one settings.js path with a  *)
(* single-flight slot, stages the structured mirror (config.json), writes  *)
(* settings.js atomically, restarts Node-RED, probes it and, when the      *)
(* runtime does not come back, rolls source and mirror back.  EnvService   *)
(* writes the same config.json at the same time, outside the slot.         *)
(*                                                                         *)
(* Each action is one step between two points where another goroutine, the *)
(* runtime or a crash can interfere.  A request is in one phase, pc[r];    *)
(* phases are named after the code they are about to run.                  *)
(***************************************************************************)
EXTENDS Integers

CONSTANTS
  Requests,    \* identities of the HTTP requests that apply settings
  NoReq,       \* no request holds the slot
  Fields,      \* the fields of NodeRedConfig that settings.js declares
  KeptFields,  \* security surfaces and write-only secrets: omitted = keep
  Vals,        \* values of a field, the Go zero value included
  Zero,        \* the Go zero value of a field
  Default,     \* DefaultNodeRedConfig()
  EnvKeys,     \* keys of environment variables
  PlainVals,   \* values of variables that are rendered into settings.js
  SecretVals,  \* values of encrypted variables, never rendered
  Absent,      \* a key that is not declared, a variable that is not set
  NoFile,      \* settings.js (or a snapshot) does not exist
  Inputs,      \* the payloads a request may carry
  FirstSources,\* what settings.js may hold before the first request
  FirstStores, \* what config.json may hold before the first request
  Faults,      \* the failures the environment may inject
  MaxEnvOps,   \* bound: EnvService writes
  MaxEdits     \* bound: edits of settings.js from outside NRCC

Kinds == {"raw", "full", "patch"}

EnvVals == PlainVals \cup SecretVals

(* Content of settings.js: the fields and the env block it declares.       *)
Sources == [cfg : [Fields -> Vals \cup {Absent}],
            env : [EnvKeys -> PlainVals \cup {Absent}]]

(* Content of config.json.  A store that does not exist reads as zero.     *)
Stores == [exists : BOOLEAN,
           cfg    : [Fields -> Vals],
           env    : [EnvKeys -> EnvVals \cup {Absent}]]

(* The records a request and Node-RED keep.                                *)
Runtimes == [up : BOOLEAN, loaded : Sources \cup {NoFile}]
ApplyRequests == [kind : Kinds, payload : Sources,
                  expected : Sources \cup {NoFile}]
Bases == [has : BOOLEAN, cfg : [Fields -> Vals], fallback : [Fields -> Vals]]
Snapshots == [prev : Stores, comm : Stores]
Befores == [settings : Sources \cup {NoFile}, store : Stores, envOps : Nat]

FaultKinds == {"input", "adapter", "store", "backup", "write", "sync",
               "mirror", "restart", "ready", "cancel", "crash"}

ASSUME ConstantsOK ==
  /\ NoReq \notin Requests
  /\ KeptFields \subseteq Fields
  /\ Zero \in Vals /\ Absent \notin Vals /\ Absent \notin EnvVals
  /\ PlainVals \cap SecretVals = {}
  /\ NoFile \notin Sources
  /\ Default \in [Fields -> Vals]
  /\ Inputs \subseteq [kind : Kinds, payload : Sources]
  /\ FirstSources \subseteq Sources \cup {NoFile}
  /\ FirstStores \subseteq Stores
  /\ Faults \subseteq FaultKinds
  /\ MaxEnvOps \in Nat /\ MaxEdits \in Nat

VARIABLES
  settings,   \* settings.js on disk, or NoFile
  store,      \* config.json on disk
  runtime,    \* Node-RED: up, and the source it loaded when it started
  flight,     \* ApplyCoordinator.flights[path]: the request that holds it
  pc,         \* the phase of each request
  req,        \* ApplyRequest: kind, payload and expected revision
  cancelled,  \* the request's context is done
  base,       \* patchBase() and securityFallbacks() as read by the request
  saved,      \* Previous and Committed (StructuredApplyInput, MirrorSnapshot)
  cand,       \* ApplyRequest.Content
  backup,     \* the snapshot behind ApplyResult.BackupPath, NoFile = ""
  outcome,    \* what the caller of Apply is told
  audit,      \* the closing audit event of the request
  before,     \* history: source and mirror when the slot was acquired
  acked,      \* history: the value EnvService last acknowledged, per key
  envOps,     \* number of EnvService writes so far
  edits       \* number of outside edits so far

disk  == <<settings, store>>
local == <<req, base, saved, cand, backup>>
ghost == <<acked, envOps, edits>>
vars  == <<settings, store, runtime, flight, pc, req, cancelled, base, saved,
           cand, backup, outcome, audit, before, acked, envOps, edits>>

-----------------------------------------------------------------------------
(* Data: rendering, parsing, merging and restoring configurations.         *)

NoEnv == [k \in EnvKeys |-> Absent]
ZeroStore == [exists |-> FALSE, cfg |-> [f \in Fields |-> Zero], env |-> NoEnv]

(* patchSettingsJS, one key: a field the configuration leaves at zero      *)
(* keeps the line the source has.                                          *)
ReplaceKey(c, live, f) ==
  IF c[f] # Zero \/ live = NoFile THEN c[f] ELSE live.cfg[f]

(* renderEnvBlock leaves encrypted variables out.                          *)
RenderEnvBlock(e) ==
  [k \in EnvKeys |-> IF e[k] \in PlainVals THEN e[k] ELSE Absent]

(* renderSettings: patch the live source, or generate one from scratch.    *)
RenderSettings(c, e, live) ==
  [cfg |-> [f \in Fields |-> ReplaceKey(c, live, f)],
   env |-> RenderEnvBlock(e)]

(* GetRawSettings: a missing file reads as the rendered default.           *)
LiveSource == IF settings = NoFile THEN RenderSettings(Default, NoEnv, NoFile)
                                   ELSE settings

(* FingerprintSource: SHA-256 identifies the bytes.                        *)
Revision == LiveSource

(* parseConfigFromContent: an undeclared key takes the parser's default.   *)
ParseConfig(src) ==
  [f \in Fields |-> IF src.cfg[f] = Absent THEN Default[f] ELSE src.cfg[f]]

(* Mutant: the patch replaces the configuration instead of merging.        *)
MergePatchReplaces(c, patch) == patch

(* MergePatch: the fields the patch carries replace the live ones.         *)
MergePatch(c, patch) ==
  [f \in Fields |-> IF patch[f] = Absent THEN c[f] ELSE patch[f]]

(* A full replacement: an omitted security surface or secret keeps the     *)
(* stored value or, when there is none, the one in the live source; any    *)
(* other omitted field is cleared.                                         *)
PreserveSecuritySurfaces(c, fallback, full) ==
  [f \in Fields |-> IF full[f] # Absent THEN full[f]
                    ELSE IF f \notin KeptFields THEN Zero
                    ELSE IF c[f] # Zero THEN c[f] ELSE fallback[f]]

(* securityFallbacks: the source's value where the mirror has none.        *)
SecurityFallbacks(c, parsed) ==
  [f \in Fields |-> IF c[f] = Zero THEN parsed[f] ELSE Zero]

(* mergeEnvVars: the source wins except over an encrypted value.           *)
MergeEnvVars(cur, src) ==
  [k \in EnvKeys |-> IF src[k] = Absent \/ cur[k] \in SecretVals
                     THEN cur[k] ELSE src[k]]

(* Mutant: only the environment of the written source reaches the mirror.  *)
ReconcileEnvOnly(existed, cur, src, exported) ==
  [exists |-> TRUE,
   cfg    |-> IF existed THEN cur.cfg ELSE ParseConfig(src),
   env    |-> IF exported THEN MergeEnvVars(cur.env, src.env) ELSE cur.env]

(* reconcileConfigWithSource, on the mirror or on the parsed source when   *)
(* the mirror did not exist.  exported: the sandbox evaluated the source.  *)
ReconcileConfigWithSource(existed, cur, src, exported) ==
  LET c == IF existed THEN cur.cfg ELSE ParseConfig(src)
      e == IF existed THEN cur.env ELSE NoEnv
  IN  [exists |-> TRUE,
       cfg    |-> MergePatch(c, src.cfg),
       env    |-> IF exported THEN MergeEnvVars(e, src.env) ELSE e]

(* restoreUnchangedFields over the configuration fields.                   *)
RestoreFields(cur, prev, comm) ==
  [f \in Fields |-> IF cur[f] = comm[f] THEN prev[f] ELSE cur[f]]

-----------------------------------------------------------------------------
(* Phases.                                                                 *)

Staging    == {"check", "resolve", "stage", "commit", "render", "validate",
               "revalidate", "backup", "write"}
Mirroring  == {"reconcile", "mirror", "undo"}
Running    == {"restart", "ready"}
Recovering == {"rollback", "restoreState", "rerestart", "reready"}
InFlight   == Staging \cup Mirroring \cup Running \cup Recovering
                \cup {"unwind", "release"}
Phases     == {"idle", "open", "done"} \cup InFlight

Outcomes == {"none", "refused", "rejected", "recovered", "unrecovered",
             "ok", "crashed"}

Structured(r) == req[r].kind # "raw"
May(fault) == fault \in Faults

(* validateAdminAuthPasswords and Validate refuse the configuration, or    *)
(* the source does not parse: a matter of what the payload holds.          *)
ValidateFails == May("input")

Goto(r, phase) == pc' = [pc EXCEPT ![r] = phase]
Emit(r, event) == audit' = [audit EXCEPT ![r] = event]
Return(r, result) == /\ Goto(r, "release")
                     /\ outcome' = [outcome EXCEPT ![r] = result]
Reject(r) == Return(r, "rejected") /\ Emit(r, "failure")

(* The locals of a request: nothing read, staged or saved yet.             *)
NoBase   == [has |-> FALSE, cfg |-> ZeroStore.cfg, fallback |-> ZeroStore.cfg]
NoSaved  == [prev |-> ZeroStore, comm |-> ZeroStore]
NoBefore == [settings |-> NoFile, store |-> ZeroStore, envOps |-> 0]

(* The calls of the requests in R return: their locals are gone.           *)
Drop(R) ==
  /\ cancelled' = [r \in Requests |-> r \notin R /\ cancelled[r]]
  /\ base' = [r \in Requests |-> IF r \in R THEN NoBase ELSE base[r]]
  /\ saved' = [r \in Requests |-> IF r \in R THEN NoSaved ELSE saved[r]]
  /\ cand' = [r \in Requests |-> IF r \in R THEN req[r].payload ELSE cand[r]]
  /\ backup' = [r \in Requests |-> IF r \in R THEN NoFile ELSE backup[r]]
  /\ before' = [r \in Requests |-> IF r \in R THEN NoBefore ELSE before[r]]

Init ==
  /\ settings \in FirstSources
  /\ store \in FirstStores
  /\ runtime = [up |-> settings # NoFile, loaded |-> settings]
  /\ flight = NoReq
  /\ pc = [r \in Requests |-> "idle"]
  /\ req \in [Requests -> {[kind |-> i.kind, payload |-> i.payload,
                            expected |-> NoFile] : i \in Inputs}]
  /\ cancelled = [r \in Requests |-> FALSE]
  /\ base = [r \in Requests |-> NoBase]
  /\ saved = [r \in Requests |-> NoSaved]
  /\ cand = [r \in Requests |-> req[r].payload]
  /\ backup = [r \in Requests |-> NoFile]
  /\ outcome = [r \in Requests |-> "none"]
  /\ audit = [r \in Requests |-> "none"]
  /\ before = [r \in Requests |-> NoBefore]
  /\ acked = store.env
  /\ envOps = 0
  /\ edits = 0

-----------------------------------------------------------------------------
(* Entering: the handler reads the live revision, or the client did when   *)
(* it loaded the form; then the coordinator tries the slot.  A caller that *)
(* may not change the configuration, or whose body does not decode, is     *)
(* refused before that.                                                    *)

ReadRevision(r) ==
  /\ pc[r] = "idle"
  /\ req' = [req EXCEPT ![r].expected = Revision]
  /\ Goto(r, "open")
  /\ UNCHANGED <<disk, runtime, flight, cancelled, base, saved, cand, backup,
                 outcome, audit, before, ghost>>

(* The endpoints: POST /api/config/apply, /api/config, /api/config/apply/  *)
(* raw, /api/settings/raw and the dashboard access policy, whose content   *)
(* is the source just read with one block replaced.                        *)
ApplyStructured(r) == req[r].kind = "patch" /\ ReadRevision(r)
SaveConfig(r)      == req[r].kind = "full" /\ ReadRevision(r)
ApplyRaw(r)        == req[r].kind = "raw" /\ ReadRevision(r)
SaveRaw(r)         == req[r].kind = "raw" /\ ReadRevision(r)

RenderDashboardPolicy(f, v) == [LiveSource EXCEPT !.cfg[f] = v]
ApplyAccess(r) ==
  /\ req[r].kind = "raw"
  /\ \E f \in KeptFields, v \in Vals \ {Zero} :
       req[r].payload = RenderDashboardPolicy(f, v)
  /\ ReadRevision(r)

(* Mutant: the slot is taken over from the request that holds it.          *)
AcquireTakesOver(r) ==
  /\ pc[r] = "open"
  /\ flight' = r
  /\ Goto(r, "check")
  /\ before' = [before EXCEPT ![r] =
       [settings |-> settings, store |-> store, envOps |-> envOps]]
  /\ UNCHANGED <<disk, runtime, local, cancelled, outcome, audit, ghost>>

Acquire(r) ==
  /\ pc[r] = "open"
  /\ IF flight = NoReq
       THEN /\ flight' = r
            /\ Goto(r, "check")
            /\ before' = [before EXCEPT ![r] =
                 [settings |-> settings, store |-> store, envOps |-> envOps]]
            /\ UNCHANGED <<outcome, audit>>
       ELSE /\ Goto(r, "done")
            /\ outcome' = [outcome EXCEPT ![r] = "refused"]
            /\ Emit(r, "failure")
            /\ UNCHANGED <<flight, before>>
  /\ UNCHANGED <<disk, runtime, local, cancelled, ghost>>

(* Mutant: the deferred release is missing.                                *)
ReleaseForgotten(r) ==
  /\ pc[r] = "release"
  /\ Goto(r, "done")
  /\ Drop({r})
  /\ UNCHANGED <<disk, runtime, flight, req, outcome, audit, ghost>>

Release(r) ==
  /\ pc[r] = "release"
  /\ flight' = NoReq
  /\ Goto(r, "done")
  /\ Drop({r})
  /\ UNCHANGED <<disk, runtime, req, outcome, audit, ghost>>

CheckRevisionPrecondition(r) ==
  /\ pc[r] = "check"
  /\ IF cancelled[r] \/ req[r].expected # Revision
       THEN Reject(r)
       ELSE Goto(r, "resolve") /\ UNCHANGED <<outcome, audit>>
  /\ UNCHANGED <<disk, runtime, flight, local, cancelled, before, ghost>>

(* PreviewStructuredPatch and the adapter resolver.  Neither writes.       *)
ResolveAdapter(r) ==
  /\ pc[r] = "resolve"
  /\ \/ /\ Goto(r, IF Structured(r) THEN "stage" ELSE "validate")
        /\ UNCHANGED <<outcome, audit>>
     \/ May("adapter") /\ Reject(r)
  /\ UNCHANGED <<disk, runtime, flight, local, cancelled, before, ghost>>

-----------------------------------------------------------------------------
(* Staging the structured mirror: commitStructured.                        *)

(* patchBase and securityFallbacks, both read outside the store lock.      *)
PatchBase(r) ==
  /\ pc[r] = "stage"
  /\ \/ /\ base' = [base EXCEPT ![r] =
             [has |-> store.exists,
              cfg |-> IF store.exists THEN store.cfg
                                      ELSE ParseConfig(LiveSource),
              fallback |-> SecurityFallbacks(store.cfg,
                                             ParseConfig(LiveSource))]]
        /\ Goto(r, "commit")
        /\ UNCHANGED <<outcome, audit>>
     \/ ValidateFails /\ Reject(r) /\ UNCHANGED base
  /\ UNCHANGED <<disk, runtime, flight, req, saved, cand, backup, cancelled,
                 before, ghost>>

StructuredCandidate(r) ==
  IF req[r].kind = "patch"
    THEN MergePatch(IF base[r].has THEN store.cfg ELSE base[r].cfg,
                    req[r].payload.cfg)
    ELSE PreserveSecuritySurfaces(store.cfg, base[r].fallback,
                                  req[r].payload.cfg)

(* The update under the store lock: EnvVars stay those of the store.       *)
CommitStructured(r) ==
  /\ pc[r] = "commit"
  /\ \/ /\ store' = [store EXCEPT !.exists = TRUE,
                                 !.cfg = StructuredCandidate(r)]
        /\ saved' = [saved EXCEPT ![r] = [prev |-> store, comm |-> store']]
        /\ Goto(r, "render")
        /\ UNCHANGED <<outcome, audit>>
     \/ /\ ValidateFails \/ May("store")
        /\ Reject(r)
        /\ UNCHANGED <<store, saved>>
  /\ UNCHANGED <<settings, runtime, flight, req, base, cand, backup,
                 cancelled, before, ghost>>

RenderCandidate(r) ==
  /\ pc[r] = "render"
  /\ cand' = [cand EXCEPT ![r] =
       RenderSettings(saved[r].comm.cfg, saved[r].comm.env, settings)]
  /\ Goto(r, "validate")
  /\ UNCHANGED <<disk, runtime, flight, req, base, saved, backup, cancelled,
                 outcome, audit, before, ghost>>

(* RestoreStructured after a stage that failed before the runtime stages.  *)
RestoreStructured(r) ==
  [store EXCEPT !.exists = TRUE,
                !.cfg = RestoreFields(@, saved[r].prev.cfg, saved[r].comm.cfg)]

(* Mutant: a rejected structured save leaves the mirror as committed.      *)
UnwindKeepsMirror(r) ==
  /\ pc[r] = "unwind"
  /\ Return(r, "rejected")
  /\ UNCHANGED <<disk, runtime, flight, local, cancelled, audit, before,
                 ghost>>

Unwind(r) ==
  /\ pc[r] = "unwind"
  /\ \/ store' = (IF Structured(r) THEN RestoreStructured(r) ELSE store)
        /\ Return(r, "rejected")
     \/ /\ Structured(r) /\ May("store")
        /\ Return(r, "unrecovered")
        /\ UNCHANGED store
  /\ UNCHANGED <<settings, runtime, flight, local, cancelled, audit, before,
                 ghost>>

-----------------------------------------------------------------------------
(* ApplyService.apply.                                                     *)

(* Mutant: the second validation trusts the revision the first one saw.    *)
ApplyValidateOnce(r) ==
  /\ pc[r] \in {"validate", "revalidate"}
  /\ IF ~cancelled[r] /\ (pc[r] = "revalidate" \/ req[r].expected = Revision)
       THEN /\ Goto(r, IF pc[r] = "validate" THEN "revalidate" ELSE "backup")
            /\ UNCHANGED audit
       ELSE Goto(r, "unwind") /\ Emit(r, "failure")
  /\ UNCHANGED <<disk, runtime, flight, local, cancelled, outcome, before,
                 ghost>>

(* applyValidate runs twice: the coordinator calls it first, then apply.   *)
(* The coordinator's own call fails without an audit event.                *)
ApplyValidate(r) ==
  /\ pc[r] \in {"validate", "revalidate"}
  /\ \/ /\ ~cancelled[r] /\ req[r].expected = Revision
        /\ Goto(r, IF pc[r] = "validate" THEN "revalidate" ELSE "backup")
        /\ UNCHANGED audit
     \/ /\ cancelled[r] \/ req[r].expected # Revision \/ ValidateFails
        /\ Goto(r, "unwind")
        /\ IF pc[r] = "validate" THEN UNCHANGED audit ELSE Emit(r, "failure")
  /\ UNCHANGED <<disk, runtime, flight, local, cancelled, outcome, before,
                 ghost>>

(* writeSettingsSnapshot: a copy under a name of its own, flushed before   *)
(* settings.js is touched.  A source that does not exist has none.         *)
WriteSettingsSnapshot(r) == backup' = [backup EXCEPT ![r] = settings]

(* Mutant: the candidate is written without a snapshot of the source.      *)
ApplyBackupSkipped(r) ==
  /\ pc[r] = "backup"
  /\ Goto(r, "write")
  /\ UNCHANGED <<disk, runtime, flight, local, cancelled, outcome, audit,
                 before, ghost>>

ApplyBackup(r) ==
  /\ pc[r] = "backup"
  /\ \/ /\ WriteSettingsSnapshot(r)
        /\ Goto(r, "write")
        /\ UNCHANGED audit
     \/ /\ May("backup") /\ settings # NoFile
        /\ Goto(r, "unwind")
        /\ Emit(r, "failure")
        /\ UNCHANGED backup
  /\ UNCHANGED <<disk, runtime, flight, req, base, saved, cand, cancelled,
                 outcome, before, ghost>>

(* AtomicWriteSettings: nothing happens before the rename, everything      *)
(* with it.  "sync": the rename took place, but the directory fsync or the *)
(* chmod after it fails and the caller is told that the write failed.      *)
AtomicWriteSettings(r) ==
  /\ pc[r] = "write"
  /\ \/ /\ ~cancelled[r]
        /\ settings' = cand[r]
        /\ Goto(r, IF Structured(r) THEN "restart" ELSE "reconcile")
        /\ UNCHANGED audit
     \/ /\ cancelled[r] \/ May("write")
        /\ Goto(r, "unwind")
        /\ Emit(r, "failure")
        /\ UNCHANGED settings
     \/ /\ ~cancelled[r] /\ May("sync")
        /\ settings' = cand[r]
        /\ Goto(r, "unwind")
        /\ Emit(r, "failure")
  /\ UNCHANGED <<store, runtime, flight, local, cancelled, outcome, before,
                 ghost>>

(* ReconcileRawSettings, first half: does the mirror exist?                *)
ReconcileStat(r) ==
  /\ pc[r] = "reconcile"
  /\ base' = [base EXCEPT ![r].has = store.exists]
  /\ Goto(r, "mirror")
  /\ UNCHANGED <<disk, runtime, flight, req, saved, cand, backup, cancelled,
                 outcome, audit, before, ghost>>

(* Second half: the update under the store lock.                           *)
ReconcileUpdate(r) ==
  /\ pc[r] = "mirror"
  /\ \/ /\ \E exported \in BOOLEAN :
             store' = ReconcileConfigWithSource(base[r].has, store, cand[r],
                                                exported)
        /\ saved' = [saved EXCEPT ![r] = [prev |-> store, comm |-> store']]
        /\ Goto(r, "restart")
     \/ May("mirror") /\ Goto(r, "undo") /\ UNCHANGED <<store, saved>>
  /\ UNCHANGED <<settings, runtime, flight, req, base, cand, backup,
                 cancelled, outcome, audit, before, ghost>>

(* Mutant: a source that could not be restored is reported as rejected.    *)
RestoreFailureIgnored(r) ==
  /\ pc[r] = "undo"
  /\ Emit(r, "failure")
  /\ Return(r, "rejected")
  /\ \/ settings' = backup[r]
     \/ May("write") /\ UNCHANGED settings
  /\ UNCHANGED <<store, runtime, flight, local, cancelled, before, ghost>>

(* restoreSourceBytes with the caller's own context.                       *)
RestoreSourceBytes(r) ==
  /\ pc[r] = "undo"
  /\ Emit(r, "failure")
  /\ \/ /\ backup[r] = NoFile \/ ~cancelled[r]
        /\ settings' = backup[r]
        /\ Return(r, "rejected")
     \/ /\ May("write") \/ (cancelled[r] /\ backup[r] # NoFile)
        /\ Return(r, "unrecovered")
        /\ UNCHANGED settings
     \/ /\ May("sync") /\ ~cancelled[r] /\ backup[r] # NoFile
        /\ settings' = backup[r]
        /\ Return(r, "unrecovered")
  /\ UNCHANGED <<store, runtime, flight, local, cancelled, before, ghost>>

-----------------------------------------------------------------------------
(* The runtime stages and the rollback.                                    *)

(* What a restart leaves behind.  A restart that fails may have stopped    *)
(* Node-RED already.                                                       *)
Started == [up |-> TRUE, loaded |-> settings]
Stopped == [runtime EXCEPT !.up = FALSE]

Restart(r) ==
  /\ pc[r] = "restart"
  /\ \/ /\ ~cancelled[r]
        /\ runtime' = Started
        /\ Goto(r, "ready")
     \/ cancelled[r] /\ Goto(r, "rollback") /\ UNCHANGED runtime
     \/ /\ ~cancelled[r] /\ May("restart")
        /\ runtime' \in {runtime, Stopped}
        /\ Goto(r, "rollback")
  /\ UNCHANGED <<disk, flight, local, cancelled, outcome, audit, before,
                 ghost>>

(* Mutant: the probe waits for Node-RED without a deadline.                *)
ReadyWithoutTimeout(r) ==
  /\ pc[r] = "ready"
  /\ runtime.up
  /\ Return(r, "ok")
  /\ Emit(r, "success")
  /\ UNCHANGED <<disk, runtime, flight, local, cancelled, before, ghost>>

(* probeAdminReady; the context is checked before and after it.            *)
Ready(r) ==
  /\ pc[r] = "ready"
  /\ \/ /\ ~cancelled[r] /\ runtime.up
        /\ Return(r, "ok")
        /\ Emit(r, "success")
     \/ /\ cancelled[r] \/ ~runtime.up \/ May("ready")
        /\ Goto(r, "rollback")
        /\ UNCHANGED <<outcome, audit>>
  /\ UNCHANGED <<disk, runtime, flight, local, cancelled, before, ghost>>

(* A failed recovery: the original error is returned with the cause.       *)
RecoveryFailed(r) == Return(r, "unrecovered") /\ Emit(r, "failure")

(* ExecuteRollback up to restoreSnapshotContext, under a context of its    *)
(* own.  Without a snapshot it returns before it restores anything.        *)
ExecuteRollback(r) ==
  /\ pc[r] = "rollback"
  /\ \/ /\ backup[r] # NoFile
        /\ settings' = backup[r]
        /\ Goto(r, "restoreState")
        /\ UNCHANGED <<outcome, audit>>
     \/ /\ backup[r] = NoFile \/ May("write")
        /\ RecoveryFailed(r)
        /\ UNCHANGED settings
     \/ /\ backup[r] # NoFile /\ May("sync")
        /\ settings' = backup[r]
        /\ RecoveryFailed(r)
  /\ UNCHANGED <<store, runtime, flight, local, cancelled, before, ghost>>

(* Mutant: the environment is restored whatever it holds by now.           *)
RestoreMirrorBlindly(r) ==
  [store EXCEPT !.cfg = saved[r].prev.cfg, !.env = saved[r].prev.env]

(* RestoreMirror: a mirror the reconciliation created is removed again.    *)
RestoreMirror(r) ==
  IF ~base[r].has THEN ZeroStore
  ELSE [store EXCEPT !.exists = TRUE,
          !.cfg = RestoreFields(@, saved[r].prev.cfg, saved[r].comm.cfg),
          !.env = IF @ = saved[r].comm.env THEN saved[r].prev.env ELSE @]

RestoreState(r) ==
  /\ pc[r] = "restoreState"
  /\ \/ /\ store' = (IF Structured(r) THEN RestoreStructured(r)
                                      ELSE RestoreMirror(r))
        /\ Goto(r, "rerestart")
        /\ UNCHANGED <<outcome, audit>>
     \/ May("store") /\ RecoveryFailed(r) /\ UNCHANGED store
  /\ UNCHANGED <<settings, runtime, flight, local, cancelled, before, ghost>>

(* Mutant: the rollback restores the files and does not restart Node-RED.  *)
RecoverySkipsRestart(r) ==
  /\ pc[r] = "rerestart"
  /\ Goto(r, "reready")
  /\ UNCHANGED <<disk, runtime, flight, local, cancelled, outcome, audit,
                 before, ghost>>

RecoveryRestart(r) ==
  /\ pc[r] = "rerestart"
  /\ \/ /\ runtime' = Started
        /\ Goto(r, "reready")
        /\ UNCHANGED <<outcome, audit>>
     \/ /\ May("restart")
        /\ runtime' \in {runtime, Stopped}
        /\ RecoveryFailed(r)
  /\ UNCHANGED <<disk, flight, local, cancelled, before, ghost>>

RecoveryReady(r) ==
  /\ pc[r] = "reready"
  /\ \/ runtime.up /\ Return(r, "recovered") /\ Emit(r, "failure")
     \/ (~runtime.up \/ May("ready")) /\ RecoveryFailed(r)
  /\ UNCHANGED <<disk, runtime, flight, local, cancelled, before, ghost>>

-----------------------------------------------------------------------------
(* The environment of the transactions.                                    *)

Cancel(r) ==
  /\ May("cancel")
  /\ pc[r] \notin {"idle", "done"} /\ ~cancelled[r]
  /\ cancelled' = [cancelled EXCEPT ![r] = TRUE]
  /\ UNCHANGED <<disk, runtime, flight, local, pc, outcome, audit, before,
                 ghost>>

(* EnvService.Set and Delete: one update under the store lock, which       *)
(* creates config.json when there is none.                                 *)
EnvUpdate(k, v) ==
  /\ envOps < MaxEnvOps
  /\ envOps' = envOps + 1
  /\ store' = [store EXCEPT !.exists = TRUE, !.env[k] = v]
  /\ acked' = [acked EXCEPT ![k] = v]
  /\ UNCHANGED <<settings, runtime, flight, local, cancelled, pc, outcome,
                 audit, before, edits>>

(* Node-RED dies, or its supervisor starts it again, on its own.           *)
RuntimeCrash ==
  /\ runtime.up
  /\ runtime' = Stopped
  /\ UNCHANGED <<disk, flight, local, cancelled, pc, outcome, audit, before,
                 ghost>>

RuntimeRespawn ==
  /\ ~runtime.up /\ settings # NoFile
  /\ runtime' = Started
  /\ UNCHANGED <<disk, flight, local, cancelled, pc, outcome, audit, before,
                 ghost>>

(* An editor outside NRCC replaces settings.js.                            *)
OutsideEdit(src) ==
  /\ edits < MaxEdits
  /\ edits' = edits + 1
  /\ settings' = src
  /\ UNCHANGED <<store, runtime, flight, local, cancelled, pc, outcome, audit,
                 before, acked, envOps>>

(* NRCC dies: requests and the slot are gone, the files stay.              *)
Crash ==
  LET lost == {r \in Requests : pc[r] \in InFlight \cup {"open"}}
  IN  /\ May("crash")
      /\ flight # NoReq
      /\ flight' = NoReq
      /\ pc' = [r \in Requests |-> IF r \in lost THEN "done" ELSE pc[r]]
      /\ outcome' = [r \in Requests |-> IF r \in lost THEN "crashed"
                                                     ELSE outcome[r]]
      /\ Drop(lost)
      /\ UNCHANGED <<disk, runtime, req, audit, ghost>>

-----------------------------------------------------------------------------
Step(r) ==
  \/ Acquire(r) \/ Release(r)
  \/ CheckRevisionPrecondition(r) \/ ResolveAdapter(r)
  \/ PatchBase(r) \/ CommitStructured(r) \/ RenderCandidate(r) \/ Unwind(r)
  \/ ApplyValidate(r) \/ ApplyBackup(r) \/ AtomicWriteSettings(r)
  \/ ReconcileStat(r) \/ ReconcileUpdate(r) \/ RestoreSourceBytes(r)
  \/ Restart(r) \/ Ready(r)
  \/ ExecuteRollback(r) \/ RestoreState(r)
  \/ RecoveryRestart(r) \/ RecoveryReady(r)

Environment ==
  \/ \E r \in Requests : \/ ApplyStructured(r) \/ SaveConfig(r)
                          \/ ApplyRaw(r) \/ SaveRaw(r) \/ ApplyAccess(r)
                          \/ Cancel(r)
  \/ \E k \in EnvKeys, v \in EnvVals \cup {Absent} : EnvUpdate(k, v)
  \/ \E i \in Inputs : OutsideEdit(i.payload)
  \/ RuntimeCrash \/ RuntimeRespawn \/ Crash

Next == Environment \/ \E r \in Requests : Step(r)

Spec == Init /\ [][Next]_vars

FairSpec == Spec /\ \A r \in Requests : WF_vars(Step(r))
-----------------------------------------------------------------------------
(* Properties.                                                             *)

(* Every variable stays within its Go type.                                *)
TypeOK ==
  /\ settings \in Sources \cup {NoFile}
  /\ store \in Stores
  /\ runtime \in Runtimes
  /\ flight \in Requests \cup {NoReq}
  /\ pc \in [Requests -> Phases]
  /\ req \in [Requests -> ApplyRequests]
  /\ cancelled \in [Requests -> BOOLEAN]
  /\ base \in [Requests -> Bases]
  /\ saved \in [Requests -> Snapshots]
  /\ cand \in [Requests -> Sources]
  /\ backup \in [Requests -> Sources \cup {NoFile}]
  /\ outcome \in [Requests -> Outcomes]
  /\ audit \in [Requests -> {"none", "failure", "success"}]
  /\ before \in [Requests -> Befores]
  /\ acked \in [EnvKeys -> EnvVals \cup {Absent}]
  /\ envOps \in Nat /\ edits \in Nat

Returning(r, result) == pc[r] = "release" /\ outcome[r] = result

(* Source and mirror are what they were when the request took the slot;    *)
(* only EnvService may have changed the environment variables meanwhile.   *)
Undone(r) ==
  /\ settings = before[r].settings
  /\ store.cfg = before[r].store.cfg
  /\ envOps = before[r].envOps => store = before[r].store

(* A rejected save has no durable effect (apply-pipeline.md, "Revision     *)
(* precondition"): when Apply returns a conflict, validation, backup,      *)
(* write or reconciliation error without reporting a failed restoration,   *)
(* settings.js and config.json are as they were.                           *)
RejectedSaveHasNoEffect ==
  \A r \in Requests : Returning(r, "rejected") => Undone(r)

(* A runtime failure that ExecuteRollback recovered leaves the previous    *)
(* source and mirror in place, and Node-RED runs the previous source.      *)
RecoveredRunsPrevious ==
  \A r \in Requests : Returning(r, "recovered") =>
    Undone(r) /\ runtime.loaded = settings

(* When Apply reports success, the file holds the candidate, Node-RED has  *)
(* loaded it, the mirror holds what was committed, and only then is        *)
(* apply.success in the audit log.                                         *)
SuccessIsRunning ==
  \A r \in Requests :
    /\ Returning(r, "ok") => /\ settings = cand[r]
                             /\ runtime.loaded = cand[r]
                             /\ store.cfg = saved[r].comm.cfg
    /\ outcome[r] = "ok" => audit[r] = "success"
    /\ audit[r] = "success" => outcome[r] \in {"ok", "crashed"}

(* Between transactions the mirror agrees with the source on every field   *)
(* both of them set, so that a structured read reports what Node-RED uses  *)
(* and the next visual save reverts nothing (config_reconcile.go), unless  *)
(* a transaction reported that it could not restore, or NRCC crashed.      *)
MirrorAgreesWithSource ==
  (flight = NoReq /\ \A r \in Requests :
                        outcome[r] \notin {"unrecovered", "crashed"})
    => \/ settings = NoFile
       \/ \A f \in Fields : \/ settings.cfg[f] = Absent
                            \/ store.cfg[f] = Zero
                            \/ settings.cfg[f] = store.cfg[f]

(* An environment variable that no raw source declares always has the      *)
(* value EnvService last acknowledged, whatever transactions commit, fail  *)
(* or roll back around the write (restoreUnchangedFields).                 *)
EnvWritesSurvive ==
  \A k \in EnvKeys :
    (\A r \in Requests : req[r].kind = "raw" =>
                           req[r].payload.env[k] = Absent)
      => store.env[k] = acked[k]

(* settings.js changes only by the request that holds the slot: either its *)
(* candidate replaces exactly the revision it expected, with the replaced  *)
(* bytes in its snapshot, or that snapshot is put back.                    *)
SourceChangesAreGuarded ==
  [][settings' # settings =>
       /\ flight # NoReq
       /\ \/ /\ settings' = cand[flight]
             /\ req[flight].expected = Revision
             /\ backup[flight] = settings
          \/ settings' = backup[flight]]_vars

(* Wherever NRCC dies, settings.js is whole: it is the source the          *)
(* transaction found or its candidate, and in the second case the snapshot *)
(* holds the first (applyBackup before the rename, apply_snapshot.go).     *)
CrashPointsAreRecoverable ==
  flight # NoReq =>
    \/ settings = before[flight].settings
    \/ settings = cand[flight] /\ backup[flight] = before[flight].settings

(* Every request that reaches the coordinator is answered.                 *)
RequestsAreAnswered ==
  \A r \in Requests : pc[r] = "open" ~> pc[r] = "done"

(* An edit of settings.js that lands after the request took the slot and   *)
(* before its last revision check is not overwritten: the request ends in  *)
(* an error (apply.go: the check before and after the validation).         *)
StaleSaveIsRefused ==
  \A r \in Requests :
    (pc[r] \in Staging \ {"backup", "write"} /\ req[r].expected # Revision)
      ~> (pc[r] = "done" /\ outcome[r] \in {"rejected", "unrecovered"})

(* The slot does not stay with one request: whatever fails and whoever     *)
(* cancels, the deferred release gives it back.                            *)
SlotIsReleased == \A r \in Requests : flight = r ~> flight # r

-----------------------------------------------------------------------------
(* What comments of the code say and the code does not always do: README.  *)

(* A failed apply, whichever stage failed, leaves the source as it was.    *)
FailedApplyRestoresSource ==
  \A r \in Requests :
    pc[r] = "release" /\ outcome[r] # "ok" => settings = before[r].settings

(* The coordinator emits apply.failure for every error that Apply returns. *)
FailuresAreAudited ==
  \A r \in Requests :
    pc[r] = "done" /\ outcome[r] \in {"refused", "rejected", "recovered",
                                      "unrecovered"}
      => audit[r] = "failure"

(* The rename replaces the revision that the operator read, and no other.  *)
OverwritesOnlyExpected ==
  [][\A r \in Requests : AtomicWriteSettings(r) /\ settings' # settings
       => req[r].expected = Revision]_vars
=============================================================================
