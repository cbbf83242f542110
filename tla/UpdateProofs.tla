---------------------------- MODULE UpdateProofs ----------------------------
(***************************************************************************)
(* Proofs about the update service, for any number of requests, checks,    *)
(* versions and crashes.  The argument has two layers: the lock applyMu    *)
(* makes one update the owner of the flow (FlowInv), so that what npm did  *)
(* for it is what the executable says when it completes (InstallInv).      *)
(***************************************************************************)
EXTENDS Update, TLAPS

JobType == [target: 0..MaxVersion, hung: BOOLEAN, result: {"none", "conflict", "ok"}]
EntryType == [latest: 0..MaxVersion, made: BOOLEAN]
FlowType == [state: {"Idle", "BackingUp", "Applying", "Completed", "Failed"},
             error: {"none", "backup_failed", "update_failed", "image_unsupported",
                     "external_unsupported"}]

(* The types the argument uses. *)
Types ==
  /\ installed \in 0..MaxVersion /\ registry \in Versions
  /\ cache \in EntryType /\ disk \in EntryType /\ entry \in [Actors -> EntryType]
  /\ flow \in FlowType
  /\ applyMu \in Requests \cup {Nobody} /\ archives \subseteq Requests
  /\ pc \in [Requests -> Phases] /\ job \in [Requests -> JobType]
  /\ crashes \in Nat

(* The owner of applyMu has an archive, and the version it installs is     *)
(* known; an ended update is the only one with a result.                   *)
Installing == {"installing", "verifying", "auditing"}
InstallInv ==
  /\ crashes = 0 => orphans = {}
  /\ \A r \in Requests : pc[r] \in Installing => job[r].target # None
  /\ \A r \in Requests : pc[r] = "auditing" /\ crashes = 0 => installed = job[r].target
  /\ \A r \in Requests : job[r].result # "none" => pc[r] = "done"
  /\ CompletedIsInstalled

UpdateInv == Types /\ InstallsAreBackedUp /\ InstallInv

-----------------------------------------------------------------------------
(* What npm view answers makes an entry of the cache. *)
LEMMA AnswerType ==
  ASSUME registry \in 0..MaxVersion, MaxVersion \in Nat,
         NEW fault, NEW v \in RegistryAnswers(fault)
  PROVE  Entry(v) \in EntryType
<1>1. v \in 0..MaxVersion
  BY DEF RegistryAnswers, None
<1> QED
  BY <1>1 DEF Entry, EntryType

(* Init establishes the invariant: nobody holds the lock. *)
LEMMA InitInv == Init => UpdateInv
<1> SUFFICES ASSUME Init PROVE UpdateInv
  OBVIOUS
<1> USE ConstantsOK
<1>1. Types
  <2>1. installed \in 0..MaxVersion /\ registry \in 0..MaxVersion /\ registry \in Versions
    BY DEF Init, Versions
  <2>2. PICK v \in RegistryAnswers("first") : cache = Entry(v)
    BY DEF Init
  <2>3. cache \in EntryType
    BY <2>1, <2>2, AnswerType
  <2>4. NoEntry \in EntryType /\ NoJob \in JobType
    BY DEF NoEntry, EntryType, NoJob, JobType, None
  <2> QED
    BY <2>1, <2>3, <2>4 DEF Init, Types, Idle, FlowType, Phases
<1>2. InstallsAreBackedUp
  BY DEF Init, InstallsAreBackedUp, PastBackup, Idle, Working
<1>3. InstallInv
  BY DEF Init, InstallInv, CompletedIsInstalled, Installing, NoJob, Idle
<1> QED
  BY <1>1, <1>2, <1>3 DEF UpdateInv

(* A step that touches neither the flow nor the installation keeps what is *)
(* said about them.                                                        *)
LEMMA Framed ==
  ASSUME UpdateInv, Types', UNCHANGED flowVars, UNCHANGED <<installed, orphans, crashes>>
  PROVE  UpdateInv'
<1>1. InstallsAreBackedUp'
  BY DEF UpdateInv, InstallsAreBackedUp, flowVars
<1>2. InstallInv'
  BY DEF UpdateInv, InstallInv, CompletedIsInstalled, flowVars
<1> QED
  BY <1>1, <1>2 DEF UpdateInv

(* Checks change only the cache, its file and the entries. *)
LEMMA CheckStepInv ==
  ASSUME UpdateInv, NEW c \in Actors, CheckStep(c)
  PROVE  UpdateInv'
<1> USE ConstantsOK DEF UpdateInv, Types
<1>1. CASE Query(c)
  <2>1. entry' \in [Actors -> EntryType]
    BY <1>1 DEF Query, RegistryAnswers, May, Entry, EntryType, None, Versions
  <2> QED
    BY <1>1, <2>1, Framed DEF Query, flowVars, worldVars
<1>2. CASE StoreCache(c)
  BY <1>2, Framed DEF StoreCache, flowVars, worldVars
<1>3. CASE WriteDisk(c)
  <2>1. disk' \in EntryType /\ entry' \in [Actors -> EntryType]
    BY <1>3 DEF WriteDisk, May, EntryType, NoEntry, None
  <2> QED
    BY <1>3, <2>1, Framed DEF WriteDisk, flowVars, worldVars
<1> QED
  BY <1>1, <1>2, <1>3 DEF CheckStep

(* The end of an update gives up the lock and leaves Working. *)
LEMMA FinishInv ==
  ASSUME UpdateInv, NEW r \in Requests, pc[r] \in PastBackup \cup {"backing"},
         NEW state \in {"Completed", "Failed"}, NEW error, Finish(r, state, error),
         error \in {"none", "backup_failed", "update_failed", "image_unsupported",
                    "external_unsupported"},
         state = "Completed" => pc[r] = "auditing" /\ UNCHANGED installed,
         installed' \in 0..MaxVersion, UNCHANGED <<archives, checkVars, registry, orphans, crashes>>
  PROVE  UpdateInv'
<1> USE ConstantsOK
<1>1. /\ flow' = [state |-> state, error |-> error] /\ applyMu' = Nobody
      /\ pc' = [pc EXCEPT ![r] = "done"]
      /\ job' \in [Requests -> JobType]
      /\ \A q \in Requests \ {r} : job'[q] = job[q]
      /\ job'[r].result = IF state = "Completed" THEN "ok" ELSE "none"
      /\ state = "Completed" => job'[r].target = job[r].target
  BY DEF Finish, UpdateInv, Types, JobType, NoJob, None
<1>2. Types'
  BY <1>1 DEF UpdateInv, Types, FlowType, Phases, checkVars
<1>3. \A q \in Requests \ {r} : pc'[q] = pc[q] /\ pc[q] \notin PastBackup \cup {"backing"}
  BY <1>1 DEF UpdateInv, Types, InstallsAreBackedUp
<1>4. pc'[r] = "done"
  BY <1>1 DEF UpdateInv, Types
<1>5. InstallsAreBackedUp'
  BY <1>1, <1>3, <1>4 DEF InstallsAreBackedUp, PastBackup, Working
<1>6. InstallInv'
  BY <1>1, <1>3, <1>4 DEF UpdateInv, InstallInv, CompletedIsInstalled, Installing, PastBackup
<1> QED
  BY <1>2, <1>5, <1>6 DEF UpdateInv

(* A phase of the owner of the lock that keeps it. *)
LEMMA OwnerInv ==
  ASSUME UpdateInv, Types', NEW r \in Requests, pc[r] \in PastBackup \cup {"backing"},
         NEW phase \in PastBackup, pc' = [pc EXCEPT ![r] = phase],
         archives \subseteq archives', r \in archives', UNCHANGED <<applyMu, orphans, crashes>>,
         flow'.state = IF phase = "cataloguing" THEN "BackingUp" ELSE "Applying",
         \A q \in Requests \ {r} : job'[q] = job[q],
         job'[r].result = job[r].result,
         phase \in Installing => job'[r].target # None,
         phase = "auditing" /\ crashes = 0 => installed' = job'[r].target
  PROVE  UpdateInv'
<1>1. \A q \in Requests \ {r} : pc'[q] = pc[q] /\ pc[q] \notin PastBackup \cup {"backing"}
  BY DEF UpdateInv, Types, InstallsAreBackedUp
<1>2. pc'[r] = phase /\ applyMu = r /\ r # Nobody
  BY ConstantsOK DEF UpdateInv, Types, InstallsAreBackedUp
<1>3. InstallsAreBackedUp'
  BY <1>1, <1>2 DEF UpdateInv, InstallsAreBackedUp, PastBackup, Working
<1>4. job[r].result = "none"
  BY DEF UpdateInv, InstallInv, PastBackup
<1>5. InstallInv'
  BY <1>1, <1>2, <1>4 DEF UpdateInv, InstallInv, CompletedIsInstalled, Installing, PastBackup
<1> QED
  BY <1>3, <1>5 DEF UpdateInv

(* The handler starts a goroutine or answers that an update is running. *)
LEMMA PostApplyInv ==
  ASSUME UpdateInv, NEW r \in Requests, PostApply(r)
  PROVE  UpdateInv'
<1>1. /\ pc' \in [Requests -> Phases] /\ job' \in [Requests -> JobType]
      /\ pc'[r] \in {"launched", "done"}
      /\ \A q \in Requests \ {r} : pc'[q] = pc[q] /\ job'[q] = job[q]
      /\ job'[r].result # "none" => pc'[r] = "done"
  BY DEF PostApply, UpdateInv, Types, Phases, JobType, InstallInv
<1>2. Types'
  BY <1>1 DEF PostApply, UpdateInv, Types, checkVars, worldVars
<1>3. InstallsAreBackedUp'
  BY <1>1 DEF PostApply, UpdateInv, InstallsAreBackedUp, PastBackup
<1>4. InstallInv'
  BY <1>1 DEF PostApply, UpdateInv, InstallInv, CompletedIsInstalled, Installing, worldVars
<1> QED
  BY <1>2, <1>3, <1>4 DEF UpdateInv

(* A refused goroutine ends; the other takes the lock. *)
LEMMA LaunchInv ==
  ASSUME UpdateInv, NEW r \in Requests, Refused(r) \/ BeginBackup(r)
  PROVE  UpdateInv'
<1>1. CASE Refused(r)
  <2>1. Types'
    BY <1>1 DEF Refused, UpdateInv, Types, Phases, checkVars, worldVars
  <2>2. InstallsAreBackedUp'
    BY <1>1 DEF Refused, UpdateInv, Types, InstallsAreBackedUp, PastBackup
  <2>3. InstallInv'
    BY <1>1 DEF Refused, UpdateInv, Types, InstallInv, CompletedIsInstalled, Installing, worldVars
  <2> QED
    BY <2>1, <2>2, <2>3 DEF UpdateInv
<1>2. CASE BeginBackup(r)
  <2>1. Types'
    BY <1>2 DEF BeginBackup, UpdateInv, Types, Phases, FlowType, checkVars, worldVars
  <2>2. pc'[r] = "backing" /\ \A q \in Requests \ {r} : pc'[q] = pc[q]
    BY <1>2 DEF BeginBackup, UpdateInv, Types
  <2>3. \A q \in Requests : pc[q] \notin PastBackup \cup {"backing"}
    BY <1>2, ConstantsOK DEF BeginBackup, UpdateInv, InstallsAreBackedUp
  <2>4. InstallsAreBackedUp'
    BY <1>2, <2>2, <2>3, ConstantsOK DEF BeginBackup, InstallsAreBackedUp, PastBackup, Working
  <2>5. InstallInv'
    BY <1>2, <2>2 DEF BeginBackup, UpdateInv, InstallInv, CompletedIsInstalled, Installing,
                      worldVars
  <2> QED
    BY <2>1, <2>4, <2>5 DEF UpdateInv
<1> QED
  BY <1>1, <1>2

(* The steps of the owner of the lock. *)
LEMMA OwnerStepInv ==
  ASSUME UpdateInv, NEW r \in Requests,
         \/ BackupFails(r) \/ CreateBackup(r) \/ AppendBackup(r) \/ Unsupported(r)
         \/ ResolveTarget(r) \/ NpmInstalls(r) \/ NpmHangs(r) \/ NpmFails(r)
         \/ NpmDeadline(r) \/ Verify(r) \/ PostInstallAudit(r)
  PROVE  UpdateInv'
<1> USE ConstantsOK
<1>0. /\ installed \in 0..MaxVersion /\ cache.latest \in 0..MaxVersion
      /\ job[r].target \in 0..MaxVersion /\ None \in 0..MaxVersion
  BY DEF UpdateInv, Types, JobType, EntryType, None
<1>1. CASE BackupFails(r)
  BY <1>1, <1>0, FinishInv DEF BackupFails, Fail, worldVars, PastBackup
<1>2. CASE CreateBackup(r)
  <2>1. Types'
    BY <1>2 DEF CreateBackup, UpdateInv, Types, Phases, checkVars, worldVars
  <2>2. flow'.state = "BackingUp"
    BY <1>2 DEF CreateBackup, UpdateInv, InstallsAreBackedUp
  <2> QED
    BY <1>2, <2>1, <2>2, OwnerInv DEF CreateBackup, worldVars, PastBackup, Installing
<1>3. CASE AppendBackup(r)
  <2>1. Types'
    BY <1>3 DEF AppendBackup, UpdateInv, Types, Phases, FlowType, checkVars, worldVars
  <2>2. r \in archives
    BY <1>3 DEF AppendBackup, UpdateInv, InstallsAreBackedUp, PastBackup
  <2> QED
    BY <1>3, <2>1, <2>2, OwnerInv DEF AppendBackup, worldVars, PastBackup, Installing
<1>4. CASE Unsupported(r)
  BY <1>4, <1>0, FinishInv DEF Unsupported, Fail, worldVars, PastBackup
<1>a. ASSUME pc[r] \in {"resolving", "installing", "verifying", "auditing"}
      PROVE  r \in archives /\ flow.state = "Applying"
  BY <1>a DEF UpdateInv, Types, InstallsAreBackedUp, PastBackup, Working
<1>5. CASE ResolveTarget(r)
  <2>1. /\ job' \in [Requests -> JobType] /\ job'[r].target # None
        /\ job'[r].result = job[r].result
        /\ \A q \in Requests \ {r} : job'[q] = job[q]
    BY <1>5, <1>0 DEF ResolveTarget, UpdateInv, Types, JobType
  <2>2. Types'
    BY <1>5, <2>1 DEF ResolveTarget, UpdateInv, Types, Phases, checkVars, worldVars
  <2> QED
    BY <1>5, <1>a, <2>1, <2>2, OwnerInv DEF ResolveTarget, worldVars, PastBackup, Installing
<1>6. CASE NpmInstalls(r)
  <2>1. Types'
    BY <1>6, <1>0 DEF NpmInstalls, UpdateInv, Types, Phases, checkVars
  <2>2. job[r].target # None
    BY <1>6 DEF NpmInstalls, UpdateInv, InstallInv, Installing
  <2> QED
    BY <1>6, <1>a, <2>1, <2>2, OwnerInv DEF NpmInstalls, PastBackup
<1>7. CASE NpmHangs(r)
  <2>1. /\ job' \in [Requests -> JobType]
        /\ job'[r].target = job[r].target /\ job'[r].result = job[r].result
        /\ \A q \in Requests \ {r} : job'[q] = job[q]
    BY <1>7 DEF NpmHangs, UpdateInv, Types, JobType
  <2>2. Types'
    BY <1>7, <2>1 DEF NpmHangs, UpdateInv, Types, checkVars, worldVars
  <2>3. job[r].target # None /\ pc' = [pc EXCEPT ![r] = "installing"]
    BY <1>7 DEF NpmHangs, UpdateInv, Types, InstallInv, Installing
  <2> QED
    BY <1>7, <1>a, <2>1, <2>2, <2>3, OwnerInv DEF NpmHangs, worldVars, PastBackup
<1>8. CASE NpmFails(r)
  <2>1. installed' \in 0..MaxVersion
    BY <1>8, <1>0 DEF NpmFails
  <2> QED
    BY <1>8, <2>1, FinishInv DEF NpmFails, Fail, PastBackup
<1>9. CASE NpmDeadline(r)
  <2>1. installed' \in 0..MaxVersion
    BY <1>9, <1>0 DEF NpmDeadline
  <2> QED
    BY <1>9, <2>1, FinishInv DEF NpmDeadline, Fail, PastBackup
<1>10. CASE Verify(r)
  <2>1. PICK v \in InstalledAnswers :
          IF v = job[r].target
            THEN pc' = [pc EXCEPT ![r] = "auditing"] /\ UNCHANGED <<flow, applyMu, job>>
            ELSE Fail(r, "update_failed")
    BY <1>10 DEF Verify
  <2>2. CASE v = job[r].target
    <3>1. job[r].target # None
      BY <1>10 DEF Verify, UpdateInv, InstallInv, Installing
    <3>2. installed = job[r].target
      BY <2>2, <3>1 DEF InstalledAnswers
    <3>3. Types'
      BY <1>10, <2>1, <2>2 DEF Verify, UpdateInv, Types, Phases, checkVars, worldVars
    <3> QED
      BY <1>10, <1>a, <2>1, <2>2, <3>1, <3>2, <3>3, OwnerInv
         DEF Verify, worldVars, PastBackup
  <2>3. CASE v # job[r].target
    BY <1>10, <1>0, <2>1, <2>3, FinishInv DEF Verify, Fail, worldVars, PastBackup
  <2> QED
    BY <2>2, <2>3
<1>11. CASE PostInstallAudit(r)
  BY <1>11, <1>0, FinishInv DEF PostInstallAudit, Fail, worldVars, PastBackup
<1> QED
  BY <1>1, <1>2, <1>3, <1>4, <1>5, <1>6, <1>7, <1>8, <1>9, <1>10, <1>11

(* npm processes exist without an owner only after a crash. *)
LEMMA OrphanInv ==
  ASSUME UpdateInv, OrphanEnds, orphans \subseteq 0..MaxVersion
  PROVE  UpdateInv'
<1>1. crashes # 0
  BY DEF UpdateInv, InstallInv, OrphanEnds
<1>2. Types'
  BY DEF UpdateInv, Types, OrphanEnds, flowVars, checkVars
<1>3. InstallsAreBackedUp'
  BY DEF UpdateInv, InstallsAreBackedUp, OrphanEnds, flowVars
<1>4. InstallInv'
  BY <1>1 DEF UpdateInv, InstallInv, CompletedIsInstalled, OrphanEnds, flowVars
<1> QED
  BY <1>2, <1>3, <1>4 DEF UpdateInv

(* A new NRCC: no update has survived, and the flow is Idle. *)
LEMMA RestartInv ==
  ASSUME UpdateInv, Restart
  PROVE  UpdateInv'
<1> USE ConstantsOK
<1>1. cache' \in EntryType /\ disk' \in EntryType
  <2>1. CASE disk.made
    BY <2>1 DEF Restart, UpdateInv, Types
  <2>2. CASE ~disk.made
    <3>1. cache' \in EntryType
      <4>1. registry \in 0..MaxVersion
        BY DEF UpdateInv, Types, Versions
      <4>2. PICK v \in RegistryAnswers("first") : cache' = Entry(v)
        BY <2>2 DEF Restart
      <4> QED
        BY <4>1, <4>2, AnswerType
    <3> QED
      BY <2>2, <3>1 DEF Restart, UpdateInv, Types
  <2> QED
    BY <2>1, <2>2
<1>2. crashes' \in Nat /\ crashes' # 0
  BY DEF Restart, UpdateInv, Types
<1>3. pc' \in [Requests -> {"idle", "done"}] /\ job' \in [Requests -> JobType]
  BY DEF Restart, UpdateInv, Types, NoJob, JobType, None
<1>4. entry' \in [Actors -> EntryType]
  BY DEF Restart, NoEntry, EntryType, None
<1>5. Types'
  BY <1>1, <1>2, <1>3, <1>4 DEF Restart, UpdateInv, Types, Idle, FlowType, Phases
<1>6. InstallsAreBackedUp'
  BY <1>3 DEF Restart, InstallsAreBackedUp, PastBackup, Idle, Working
<1>7. \A r \in Requests : job'[r].result # "none" => pc'[r] = "done"
  BY DEF Restart, UpdateInv, InstallInv, NoJob
<1>8. InstallInv'
  BY <1>2, <1>3, <1>7 DEF InstallInv, CompletedIsInstalled, Installing
<1> QED
  BY <1>5, <1>6, <1>8 DEF UpdateInv

-----------------------------------------------------------------------------
(* Orphans are versions: npm is only ever told one from the cache. *)
OrphanTypes == orphans \subseteq 0..MaxVersion

(* Every step keeps the invariant. *)
LEMMA NextInv ==
  ASSUME UpdateInv, OrphanTypes, [Next]_vars
  PROVE  UpdateInv' /\ OrphanTypes'
<1> USE ConstantsOK
<1>1. OrphanTypes'
  <2>1. CASE Restart
    BY <2>1 DEF Restart, OrphanTypes, UpdateInv, Types, JobType
  <2>2. CASE OrphanEnds
    BY <2>2 DEF OrphanEnds, OrphanTypes
  <2>3. CASE ~Restart /\ ~OrphanEnds
    <3>1. UNCHANGED orphans
      BY <2>3 DEF Next, vars, worldVars, ForceCheck, Tick, CheckStep, Query, StoreCache,
         WriteDisk, PostApply, UpdateStep, Refused, BeginBackup, BackupFails, CreateBackup,
         AppendBackup, Unsupported, ResolveTarget, NpmInstalls, NpmHangs, NpmFails,
         NpmDeadline, Verify, PostInstallAudit, Stop, Shutdown, HaltStep, PollerExits,
         StopReturns, ShutdownReturns, Publish
    <3> QED
      BY <3>1 DEF OrphanTypes
  <2> QED
    BY <2>1, <2>2, <2>3
<1>2. UpdateInv'
  <2>1. CASE UNCHANGED vars
    <3>1. Types'
      BY <2>1 DEF UpdateInv, Types, vars, flowVars, checkVars, worldVars
    <3> QED
      BY <2>1, <3>1, Framed DEF vars, worldVars
  <2>2. ASSUME NEW c \in Checkers, ForceCheck(c) PROVE UpdateInv'
    <3>1. Types'
      BY <2>2 DEF UpdateInv, Types, ForceCheck, flowVars, worldVars
    <3> QED
      BY <2>2, <3>1, Framed DEF ForceCheck, worldVars
  <2>3. CASE Tick \/ PollerExits
    <3>1. Types'
      BY <2>3 DEF UpdateInv, Types, Tick, PollerExits, flowVars, worldVars
    <3> QED
      BY <2>3, <3>1, Framed DEF Tick, PollerExits, worldVars
  <2>4. CASE Stop \/ Shutdown \/ StopReturns \/ ShutdownReturns
    <3>1. Types'
      BY <2>4 DEF UpdateInv, Types, Stop, Shutdown, StopReturns, ShutdownReturns, flowVars,
                  checkVars, worldVars
    <3> QED
      BY <2>4, <3>1, Framed DEF Stop, Shutdown, StopReturns, ShutdownReturns, worldVars
  <2>5. CASE Publish
    <3>1. Types'
      BY <2>5 DEF UpdateInv, Types, Publish, Versions, flowVars, checkVars
    <3> QED
      BY <2>5, <3>1, Framed DEF Publish
  <2>6. CASE OrphanEnds
    BY <2>6, OrphanInv DEF OrphanTypes
  <2> QED
    BY <2>1, <2>2, <2>3, <2>4, <2>5, <2>6, CheckStepInv, PostApplyInv, LaunchInv,
       OwnerStepInv, RestartInv DEF Next, HaltStep, UpdateStep
<1> QED
  BY <1>1, <1>2

(* The invariant holds in every reachable state. *)
LEMMA Invariant == Spec => [](UpdateInv /\ OrphanTypes)
<1>1. Init => UpdateInv /\ OrphanTypes
  BY InitInv DEF Init, OrphanTypes
<1>2. UpdateInv /\ OrphanTypes /\ [Next]_vars => (UpdateInv /\ OrphanTypes)'
  BY NextInv
<1> QED
  BY <1>1, <1>2, PTL DEF Spec

(* An update is alone from its first state to its last, the polled state   *)
(* tells its phase, and nothing is installed without an archive of its own *)
(* (ApplyUpdate under applyMu, update.go).                                 *)
THEOREM UpdatesAreBackedUp == Spec => []InstallsAreBackedUp
<1>1. UpdateInv /\ OrphanTypes => InstallsAreBackedUp
  BY DEF UpdateInv
<1> QED
  BY <1>1, Invariant, PTL

(* As long as NRCC has not crashed, a flow that says Completed is one      *)
(* whose target the executable has, whatever the poller, checks, releases  *)
(* and other requests did since (PostInstallAudit, update.go).             *)
THEOREM CompletionIsReal == Spec => []CompletedIsInstalled
<1>1. UpdateInv /\ OrphanTypes => CompletedIsInstalled
  BY DEF UpdateInv, InstallInv
<1> QED
  BY <1>1, Invariant, PTL
=============================================================================
