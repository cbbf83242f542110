------------------------ MODULE ApplyTransactionProofs ------------------------
(* Theorems about ApplyTransaction, for every set of requests, fields,     *)
(* variables, payloads and faults.                                         *)
EXTENDS ApplyTransaction, TLAPS

-----------------------------------------------------------------------------
(* What the data operators return.                                         *)

(* Rendering any configuration over any live source gives a source.        *)
LEMMA RenderType ==
  ASSUME NEW c \in [Fields -> Vals],
         NEW e \in [EnvKeys -> EnvVals \cup {Absent}],
         NEW live \in Sources \cup {NoFile}
  PROVE  RenderSettings(c, e, live) \in Sources
  BY DEF RenderSettings, ReplaceKey, RenderEnvBlock, Sources

(* The fresh store is a store.                                             *)
LEMMA ZeroStoreType == ZeroStore \in Stores
  BY ConstantsOK DEF ZeroStore, NoEnv, Stores

(* GetRawSettings returns a source, whether or not the file exists.        *)
LEMMA LiveSourceType ==
  ASSUME settings \in Sources \cup {NoFile}
  PROVE  LiveSource \in Sources
<1>1. NoEnv \in [EnvKeys -> EnvVals \cup {Absent}]
  BY DEF NoEnv
<1>2. RenderSettings(Default, NoEnv, NoFile) \in Sources
  BY <1>1, RenderType, ConstantsOK
<1> QED
  BY <1>2 DEF LiveSource

(* Parsing a source gives a configuration without undeclared fields.       *)
LEMMA ParseType ==
  ASSUME NEW src \in Sources
  PROVE  ParseConfig(src) \in [Fields -> Vals]
  BY ConstantsOK DEF ParseConfig, Sources

(* Merging a patch into a configuration gives a configuration.             *)
LEMMA MergeType ==
  ASSUME NEW c \in [Fields -> Vals],
         NEW patch \in [Fields -> Vals \cup {Absent}]
  PROVE  MergePatch(c, patch) \in [Fields -> Vals]
  BY DEF MergePatch

(* A full replacement gives a configuration, whatever it omits.            *)
LEMMA PreserveType ==
  ASSUME NEW c \in [Fields -> Vals], NEW fallback \in [Fields -> Vals],
         NEW full \in [Fields -> Vals \cup {Absent}]
  PROVE  PreserveSecuritySurfaces(c, fallback, full) \in [Fields -> Vals]
  BY ConstantsOK DEF PreserveSecuritySurfaces

(* The reconciled mirror is a store.                                       *)
LEMMA ReconcileType ==
  ASSUME NEW existed \in BOOLEAN, NEW cur \in Stores, NEW src \in Sources,
         NEW exported \in BOOLEAN
  PROVE  ReconcileConfigWithSource(existed, cur, src, exported) \in Stores
<1> DEFINE c == IF existed THEN cur.cfg ELSE ParseConfig(src)
           e == IF existed THEN cur.env ELSE NoEnv
<1>1. c \in [Fields -> Vals]
  BY ParseType DEF Stores
<1>2. e \in [EnvKeys -> EnvVals \cup {Absent}]
  BY DEF Stores, NoEnv
<1>3. MergePatch(c, src.cfg) \in [Fields -> Vals]
  <2>1. src.cfg \in [Fields -> Vals \cup {Absent}]
    BY DEF Sources
  <2> QED
    BY <1>1, <2>1, MergeType
<1>4. MergeEnvVars(e, src.env) \in [EnvKeys -> EnvVals \cup {Absent}]
  BY <1>2 DEF MergeEnvVars, Sources, EnvVals
<1> QED
  BY <1>2, <1>3, <1>4 DEF ReconcileConfigWithSource, Stores

(* Restoring fields of a configuration gives a configuration.              *)
LEMMA RestoreFieldsType ==
  ASSUME NEW cur \in [Fields -> Vals], NEW prev \in [Fields -> Vals],
         NEW comm \in [Fields -> Vals]
  PROVE  RestoreFields(cur, prev, comm) \in [Fields -> Vals]
  BY DEF RestoreFields

-----------------------------------------------------------------------------
(* Type correctness.                                                       *)

(* Nothing read, staged or saved is typed.                                 *)
LEMMA NothingType == NoBase \in Bases /\ NoSaved \in Snapshots /\ NoBefore \in Befores
<1>1. NoBase \in Bases
  BY ZeroStoreType DEF NoBase, Bases, Stores
<1>2. NoSaved \in Snapshots
  BY ZeroStoreType DEF NoSaved, Snapshots
<1>3. NoBefore \in Befores
  BY ZeroStoreType DEF NoBefore, Befores
<1> QED
  BY <1>1, <1>2, <1>3

(* Returning a call leaves its locals with their initial, typed values.    *)
LEMMA DropType ==
  ASSUME TypeOK, NEW R, Drop(R)
  PROVE  /\ cancelled' \in [Requests -> BOOLEAN]
         /\ base' \in [Requests -> Bases]
         /\ saved' \in [Requests -> Snapshots]
         /\ cand' \in [Requests -> Sources]
         /\ backup' \in [Requests -> Sources \cup {NoFile}]
         /\ before' \in [Requests -> Befores]
<1>1. \A r \in Requests : req[r].payload \in Sources
  BY DEF TypeOK, ApplyRequests
<1>2. cancelled' \in [Requests -> BOOLEAN]
  BY DEF Drop, TypeOK
<1> QED
  BY <1>1, <1>2, NothingType DEF Drop, TypeOK

(* The initial states are typed.                                           *)
LEMMA InitType == Init => TypeOK
<1> SUFFICES ASSUME Init PROVE TypeOK
  OBVIOUS
<1>1. settings \in Sources \cup {NoFile} /\ store \in Stores
  BY ConstantsOK DEF Init
<1>2. \A i \in Inputs : [kind |-> i.kind, payload |-> i.payload,
                        expected |-> NoFile] \in ApplyRequests
  BY ConstantsOK DEF ApplyRequests
<1>3. req \in [Requests -> ApplyRequests]
  BY <1>2 DEF Init
<1>4. cand \in [Requests -> Sources]
  BY <1>3 DEF Init, ApplyRequests
<1>5. acked \in [EnvKeys -> EnvVals \cup {Absent}]
  BY <1>1 DEF Init, Stores
<1>6. runtime \in Runtimes
  BY <1>1 DEF Init, Runtimes
<1> QED
  BY <1>1, <1>3, <1>4, <1>5, <1>6, NothingType DEF Init, TypeOK, Phases,
    Outcomes

(* The candidate a structured request commits is a configuration.          *)
LEMMA StructuredCandidateType ==
  ASSUME TypeOK, NEW r \in Requests
  PROVE  StructuredCandidate(r) \in [Fields -> Vals]
<1>1. /\ store.cfg \in [Fields -> Vals]
      /\ base[r].cfg \in [Fields -> Vals]
      /\ base[r].fallback \in [Fields -> Vals]
      /\ req[r].payload.cfg \in [Fields -> Vals \cup {Absent}]
  BY DEF TypeOK, Stores, Bases, ApplyRequests, Sources
<1> QED
  BY <1>1, MergeType, PreserveType DEF StructuredCandidate

(* What a restoration leaves in config.json is a store.                    *)
LEMMA RestoreType ==
  ASSUME TypeOK, NEW r \in Requests
  PROVE  /\ RestoreStructured(r) \in Stores
         /\ RestoreMirror(r) \in Stores
<1>1. /\ store \in Stores /\ store.cfg \in [Fields -> Vals]
      /\ saved[r].prev.cfg \in [Fields -> Vals]
      /\ saved[r].comm.cfg \in [Fields -> Vals]
      /\ saved[r].prev.env \in [EnvKeys -> EnvVals \cup {Absent}]
  BY DEF TypeOK, Snapshots, Stores
<1>2. RestoreFields(store.cfg, saved[r].prev.cfg, saved[r].comm.cfg)
        \in [Fields -> Vals]
  BY <1>1, RestoreFieldsType
<1> QED
  BY <1>1, <1>2, ZeroStoreType DEF RestoreStructured, RestoreMirror, Stores

(* A phase, a result and an audit event are set only within their types.   *)
LEMMA ControlType ==
  ASSUME TypeOK, NEW r \in Requests, Step(r) \/ ReadRevision(r)
  PROVE  /\ pc' \in [Requests -> Phases]
         /\ outcome' \in [Requests -> Outcomes]
         /\ audit' \in [Requests -> {"none", "failure", "success"}]
<1> USE DEF TypeOK, Goto, Emit, Return, Reject, RecoveryFailed, Phases,
            InFlight, Staging, Mirroring, Running, Recovering, Outcomes
<1>1. CASE Acquire(r)
  BY <1>1 DEF Acquire
<1>2. CASE Release(r)
  BY <1>2 DEF Release
<1>3. CASE CheckRevisionPrecondition(r)
  BY <1>3 DEF CheckRevisionPrecondition
<1>4. CASE ResolveAdapter(r)
  BY <1>4 DEF ResolveAdapter
<1>5. CASE PatchBase(r)
  BY <1>5 DEF PatchBase
<1>6. CASE CommitStructured(r)
  BY <1>6 DEF CommitStructured
<1>7. CASE RenderCandidate(r)
  BY <1>7 DEF RenderCandidate
<1>8. CASE Unwind(r)
  BY <1>8 DEF Unwind
<1>9. CASE ApplyValidate(r)
  BY <1>9 DEF ApplyValidate
<1>10. CASE ApplyBackup(r)
  BY <1>10 DEF ApplyBackup, WriteSettingsSnapshot
<1>11. CASE AtomicWriteSettings(r)
  BY <1>11 DEF AtomicWriteSettings
<1>12. CASE ReconcileStat(r)
  BY <1>12 DEF ReconcileStat
<1>13. CASE ReconcileUpdate(r)
  BY <1>13 DEF ReconcileUpdate
<1>14. CASE RestoreSourceBytes(r)
  BY <1>14 DEF RestoreSourceBytes
<1>15. CASE Restart(r)
  BY <1>15 DEF Restart
<1>16. CASE Ready(r)
  BY <1>16 DEF Ready
<1>17. CASE ExecuteRollback(r)
  BY <1>17 DEF ExecuteRollback
<1>18. CASE RestoreState(r)
  BY <1>18 DEF RestoreState
<1>19. CASE RecoveryRestart(r)
  BY <1>19 DEF RecoveryRestart
<1>20. CASE RecoveryReady(r)
  BY <1>20 DEF RecoveryReady
<1>21. CASE ReadRevision(r)
  BY <1>21 DEF ReadRevision
<1> QED
  BY <1>1, <1>2, <1>3, <1>4, <1>5, <1>6, <1>7, <1>8, <1>9, <1>10, <1>11,
     <1>12, <1>13, <1>14, <1>15, <1>16, <1>17, <1>18, <1>19, <1>20, <1>21
     DEF Step

(* Every step of a request keeps the types.                                *)
LEMMA StepType ==
  ASSUME TypeOK, NEW r \in Requests, Step(r) \/ ReadRevision(r)
  PROVE  TypeOK'
<1>0. /\ pc' \in [Requests -> Phases]
      /\ outcome' \in [Requests -> Outcomes]
      /\ audit' \in [Requests -> {"none", "failure", "success"}]
  BY ControlType
<1> USE DEF disk, local, ghost
<1>1. CASE Acquire(r)
  <2>1. [settings |-> settings, store |-> store, envOps |-> envOps]
          \in Befores
    BY DEF TypeOK, Befores
  <2> QED
    BY <1>0, <1>1, <2>1 DEF Acquire, TypeOK
<1>2. CASE Release(r)
  BY <1>0, <1>2, DropType DEF Release, TypeOK
<1>3. CASE CheckRevisionPrecondition(r)
  BY <1>0, <1>3 DEF CheckRevisionPrecondition, TypeOK
<1>4. CASE ResolveAdapter(r)
  BY <1>0, <1>4 DEF ResolveAdapter, TypeOK
<1>5. CASE PatchBase(r)
  <2>1. ParseConfig(LiveSource) \in [Fields -> Vals]
    BY LiveSourceType, ParseType DEF TypeOK
  <2>2. SecurityFallbacks(store.cfg, ParseConfig(LiveSource))
          \in [Fields -> Vals]
    BY <2>1, ConstantsOK DEF SecurityFallbacks, TypeOK, Stores
  <2>3. [has |-> store.exists,
         cfg |-> IF store.exists THEN store.cfg ELSE ParseConfig(LiveSource),
         fallback |-> SecurityFallbacks(store.cfg, ParseConfig(LiveSource))]
          \in Bases
    BY <2>1, <2>2 DEF TypeOK, Stores, Bases
  <2> QED
    BY <1>0, <1>5, <2>3 DEF PatchBase, TypeOK
<1>6. CASE CommitStructured(r)
  <2>1. [store EXCEPT !.exists = TRUE, !.cfg = StructuredCandidate(r)]
          \in Stores
    BY StructuredCandidateType DEF TypeOK, Stores
  <2>2. store' \in Stores
    BY <1>6, <2>1 DEF CommitStructured, TypeOK
  <2>3. [prev |-> store, comm |-> store'] \in Snapshots
    BY <2>2 DEF TypeOK, Snapshots
  <2> QED
    BY <1>0, <1>6, <2>2, <2>3 DEF CommitStructured, TypeOK
<1>7. CASE RenderCandidate(r)
  <2>1. RenderSettings(saved[r].comm.cfg, saved[r].comm.env, settings)
          \in Sources
    BY RenderType DEF TypeOK, Snapshots, Stores
  <2> QED
    BY <1>0, <1>7, <2>1 DEF RenderCandidate, TypeOK
<1>8. CASE Unwind(r)
  BY <1>0, <1>8, RestoreType DEF Unwind, TypeOK
<1>9. CASE ApplyValidate(r)
  BY <1>0, <1>9 DEF ApplyValidate, TypeOK
<1>10. CASE ApplyBackup(r)
  BY <1>0, <1>10 DEF ApplyBackup, WriteSettingsSnapshot, TypeOK
<1>11. CASE AtomicWriteSettings(r)
  BY <1>0, <1>11 DEF AtomicWriteSettings, TypeOK
<1>12. CASE ReconcileStat(r)
  <2>1. base[r] \in Bases /\ store.exists \in BOOLEAN
    BY DEF TypeOK, Stores
  <2>2. [base[r] EXCEPT !.has = store.exists] \in Bases
    BY <2>1 DEF Bases
  <2> QED
    BY <1>0, <1>12, <2>2 DEF ReconcileStat, TypeOK
<1>13. CASE ReconcileUpdate(r)
  <2>1. store' \in Stores
    <3>1. \A exported \in BOOLEAN :
            ReconcileConfigWithSource(base[r].has, store, cand[r], exported)
              \in Stores
      BY ReconcileType DEF TypeOK, Bases
    <3>2. \/ UNCHANGED store
          \/ \E exported \in BOOLEAN :
               store' = ReconcileConfigWithSource(base[r].has, store, cand[r],
                                                  exported)
      BY <1>13 DEF ReconcileUpdate
    <3> QED
      BY <3>1, <3>2 DEF TypeOK
  <2>2. [prev |-> store, comm |-> store'] \in Snapshots
    BY <2>1 DEF TypeOK, Snapshots
  <2> QED
    BY <1>0, <1>13, <2>1, <2>2 DEF ReconcileUpdate, TypeOK
<1>14. CASE RestoreSourceBytes(r)
  BY <1>0, <1>14 DEF RestoreSourceBytes, TypeOK
<1>15. CASE Restart(r)
  <2>1. Started \in Runtimes /\ Stopped \in Runtimes
    BY DEF Started, Stopped, TypeOK, Runtimes
  <2> QED
    BY <1>0, <1>15, <2>1 DEF Restart, TypeOK
<1>16. CASE Ready(r)
  BY <1>0, <1>16 DEF Ready, TypeOK
<1>17. CASE ExecuteRollback(r)
  BY <1>0, <1>17 DEF ExecuteRollback, TypeOK
<1>18. CASE RestoreState(r)
  BY <1>0, <1>18, RestoreType DEF RestoreState, TypeOK
<1>19. CASE RecoveryRestart(r)
  <2>1. Started \in Runtimes /\ Stopped \in Runtimes
    BY DEF Started, Stopped, TypeOK, Runtimes
  <2> QED
    BY <1>0, <1>19, <2>1 DEF RecoveryRestart, TypeOK
<1>20. CASE RecoveryReady(r)
  BY <1>0, <1>20 DEF RecoveryReady, TypeOK
<1>21. CASE ReadRevision(r)
  <2>1. Revision \in Sources
    BY LiveSourceType DEF Revision, TypeOK
  <2>2. [req[r] EXCEPT !.expected = Revision] \in ApplyRequests
    BY <2>1 DEF TypeOK, ApplyRequests
  <2> QED
    BY <1>0, <1>21, <2>2 DEF ReadRevision, TypeOK
<1> QED
  BY <1>1, <1>2, <1>3, <1>4, <1>5, <1>6, <1>7, <1>8, <1>9, <1>10, <1>11,
     <1>12, <1>13, <1>14, <1>15, <1>16, <1>17, <1>18, <1>19, <1>20, <1>21
     DEF Step

(* Every step of the environment keeps the types.                          *)
LEMMA EnvironmentType ==
  ASSUME TypeOK, Environment
  PROVE  TypeOK'
<1>1. ASSUME NEW k \in EnvKeys, NEW v \in EnvVals \cup {Absent}, EnvUpdate(k, v)
      PROVE  TypeOK'
  <2>1. [store EXCEPT !.exists = TRUE, !.env[k] = v] \in Stores
    BY <1>1 DEF TypeOK, Stores
  <2> QED
    BY <1>1, <2>1 DEF EnvUpdate, TypeOK, local
<1>2. ASSUME NEW i \in Inputs, OutsideEdit(i.payload)
      PROVE  TypeOK'
  <2>1. i.payload \in Sources
    BY ConstantsOK
  <2> QED
    BY <1>2, <2>1 DEF OutsideEdit, TypeOK, local
<1>3. ASSUME NEW r \in Requests, Cancel(r)
      PROVE  TypeOK'
  BY <1>3 DEF Cancel, TypeOK, disk, local, ghost
<1>4. Started \in Runtimes /\ Stopped \in Runtimes
  BY DEF Started, Stopped, TypeOK, Runtimes
<1>5. CASE RuntimeCrash
  BY <1>4, <1>5 DEF RuntimeCrash, TypeOK, disk, local, ghost
<1>6. CASE RuntimeRespawn
  BY <1>4, <1>6 DEF RuntimeRespawn, TypeOK, disk, local, ghost
<1>7. CASE Crash
  <2>1. "done" \in Phases /\ "crashed" \in Outcomes
    BY DEF Phases, Outcomes
  <2> QED
    BY <1>7, <2>1, DropType DEF Crash, TypeOK, disk, ghost
<1> QED
  BY <1>1, <1>2, <1>3, <1>5, <1>6, <1>7, StepType DEF Environment,
    ApplyStructured, SaveConfig, ApplyRaw, SaveRaw,
    ApplyAccess

(* Every variable always has its type.                                     *)
THEOREM TypeCorrect == Spec => []TypeOK
<1>1. TypeOK /\ [Next]_vars => TypeOK'
  <2>1. TypeOK /\ UNCHANGED vars => TypeOK'
    BY DEF TypeOK, vars
  <2> QED
    BY <2>1, StepType, EnvironmentType DEF Next
<1> QED
  BY <1>1, InitType, PTL DEF Spec

-----------------------------------------------------------------------------
(* The single-flight slot.                                                 *)

(* Exactly the request that holds the slot is in flight.                   *)
SlotInv ==
  /\ \A r \in Requests : pc[r] \in InFlight => flight = r
  /\ flight # NoReq => pc[flight] \in InFlight

(* A request that runs past Acquire and before Release holds the slot, its *)
(* step leaves the slot and every other request alone, and only Release    *)
(* gives the slot back.                                                    *)
LEMMA HolderStep ==
  ASSUME TypeOK, SlotInv, NEW r \in Requests, Step(r), ~Acquire(r), ~Release(r)
  PROVE  /\ flight = r /\ flight' = r
         /\ pc[r] \in InFlight /\ pc'[r] \in InFlight
         /\ \A q \in Requests \ {r} : pc'[q] = pc[q]
         /\ UNCHANGED <<req, cancelled, before, ghost>>
<1> USE DEF TypeOK, SlotInv, Goto, Return, Reject, RecoveryFailed, InFlight,
            Staging, Mirroring, Running, Recovering, disk, local, ghost
<1>1. CASE CheckRevisionPrecondition(r)
  BY <1>1 DEF CheckRevisionPrecondition
<1>2. CASE ResolveAdapter(r)
  BY <1>2 DEF ResolveAdapter
<1>3. CASE PatchBase(r)
  BY <1>3 DEF PatchBase
<1>4. CASE CommitStructured(r)
  BY <1>4 DEF CommitStructured
<1>5. CASE RenderCandidate(r)
  BY <1>5 DEF RenderCandidate
<1>6. CASE Unwind(r)
  BY <1>6 DEF Unwind
<1>7. CASE ApplyValidate(r)
  BY <1>7 DEF ApplyValidate
<1>8. CASE ApplyBackup(r)
  BY <1>8 DEF ApplyBackup, WriteSettingsSnapshot
<1>9. CASE AtomicWriteSettings(r)
  BY <1>9 DEF AtomicWriteSettings
<1>10. CASE ReconcileStat(r)
  BY <1>10 DEF ReconcileStat
<1>11. CASE ReconcileUpdate(r)
  BY <1>11 DEF ReconcileUpdate
<1>12. CASE RestoreSourceBytes(r)
  BY <1>12 DEF RestoreSourceBytes
<1>13. CASE Restart(r)
  BY <1>13 DEF Restart
<1>14. CASE Ready(r)
  BY <1>14 DEF Ready
<1>15. CASE ExecuteRollback(r)
  BY <1>15 DEF ExecuteRollback
<1>16. CASE RestoreState(r)
  BY <1>16 DEF RestoreState
<1>17. CASE RecoveryRestart(r)
  BY <1>17 DEF RecoveryRestart
<1>18. CASE RecoveryReady(r)
  BY <1>18 DEF RecoveryReady
<1> QED
  BY <1>1, <1>2, <1>3, <1>4, <1>5, <1>6, <1>7, <1>8, <1>9, <1>10, <1>11,
     <1>12, <1>13, <1>14, <1>15, <1>16, <1>17, <1>18 DEF Step

(* The slot is free at first, and every step keeps it with one request.    *)
LEMMA SlotInvariant ==
  /\ Init => SlotInv
  /\ TypeOK /\ SlotInv /\ [Next]_vars => SlotInv'
<1>1. Init => SlotInv
  BY DEF Init, SlotInv, InFlight, Staging, Mirroring, Running, Recovering
<1>2. ASSUME TypeOK, SlotInv, NEW r \in Requests, Step(r)
      PROVE  SlotInv'
  <2>1. CASE Acquire(r)
    BY <1>2, <2>1, ConstantsOK
    DEF Acquire, Goto, TypeOK, SlotInv, InFlight, Staging, Mirroring, Running,
        Recovering
  <2>2. CASE Release(r)
    BY <1>2, <2>2, ConstantsOK
    DEF Release, Goto, TypeOK, SlotInv, InFlight, Staging, Mirroring, Running,
        Recovering
  <2>3. CASE ~Acquire(r) /\ ~Release(r)
    BY <1>2, <2>3, HolderStep DEF SlotInv
  <2> QED
    BY <2>1, <2>2, <2>3
<1>3. ASSUME TypeOK, SlotInv, NEW r \in Requests, ReadRevision(r)
      PROVE  SlotInv'
  BY <1>3 DEF ReadRevision, Goto, TypeOK, SlotInv, InFlight, Staging,
              Mirroring, Running, Recovering
<1>4. ASSUME TypeOK, SlotInv, Crash
      PROVE  SlotInv'
  BY <1>4 DEF Crash, TypeOK, SlotInv, InFlight, Staging, Mirroring, Running,
              Recovering
<1>5. ASSUME SlotInv, UNCHANGED <<pc, flight>>
      PROVE  SlotInv'
  BY <1>5 DEF SlotInv
<1>6. ASSUME Environment, ~Crash
      PROVE  (\E r \in Requests : ReadRevision(r)) \/ UNCHANGED <<pc, flight>>
  BY <1>6 DEF Environment, ApplyStructured, SaveConfig, ApplyRaw, SaveRaw,
    ApplyAccess, Cancel, EnvUpdate, OutsideEdit, RuntimeCrash,
              RuntimeRespawn
<1> QED
  BY <1>1, <1>2, <1>3, <1>4, <1>5, <1>6 DEF Next, vars

-----------------------------------------------------------------------------
(* settings.js, when nothing but NRCC writes it.                           *)

(* What settings.js and the snapshot hold in each phase of request r.      *)
SourceOK(r) ==
  /\ pc[r] \in Staging => settings = before[r].settings
  /\ pc[r] \in {"backup", "write"} => req[r].expected = Revision
  /\ pc[r] \in {"write"} \cup Mirroring \cup Running \cup Recovering
       => backup[r] = before[r].settings
  /\ pc[r] \in Mirroring \cup Running \cup {"rollback"} => settings = cand[r]
  /\ pc[r] \in Recovering \ {"rollback"} => settings = before[r].settings
  /\ pc[r] \in {"unwind", "release"} =>
       \/ settings = before[r].settings
       \/ settings = cand[r] /\ backup[r] = before[r].settings

SourceInv == \A r \in Requests : SourceOK(r)

(* A request that is not in flight promises nothing about settings.js.     *)
LEMMA SourceOKElsewhere ==
  /\ \A r \in Requests : pc[r] \notin InFlight => SourceOK(r)
  /\ \A r \in Requests : pc'[r] \notin InFlight => SourceOK(r)'
  BY DEF SourceOK, InFlight, Staging, Mirroring, Running, Recovering

(* A step between Acquire and Release keeps what its request knows.        *)
LEMMA SourceStep ==
  ASSUME TypeOK, SlotInv, NEW r \in Requests, SourceOK(r), Step(r),
         ~Acquire(r), ~Release(r)
  PROVE  SourceOK(r)'
<1>0. UNCHANGED <<req, before>>
  BY HolderStep
<1> USE DEF TypeOK, SourceOK, Goto, Return, Reject, RecoveryFailed, Revision,
            LiveSource, Staging, Mirroring, Running, Recovering, disk, local
<1>1. CASE CheckRevisionPrecondition(r)
  BY <1>0, <1>1 DEF CheckRevisionPrecondition
<1>2. CASE ResolveAdapter(r)
  BY <1>0, <1>2 DEF ResolveAdapter
<1>3. CASE PatchBase(r)
  BY <1>0, <1>3 DEF PatchBase
<1>4. CASE CommitStructured(r)
  BY <1>0, <1>4 DEF CommitStructured
<1>5. CASE RenderCandidate(r)
  BY <1>0, <1>5 DEF RenderCandidate
<1>6. CASE Unwind(r)
  BY <1>0, <1>6 DEF Unwind
<1>7. CASE ApplyValidate(r)
  BY <1>0, <1>7 DEF ApplyValidate
<1>8. CASE ApplyBackup(r)
  BY <1>0, <1>8 DEF ApplyBackup, WriteSettingsSnapshot
<1>9. CASE AtomicWriteSettings(r)
  BY <1>0, <1>9 DEF AtomicWriteSettings
<1>10. CASE ReconcileStat(r)
  BY <1>0, <1>10 DEF ReconcileStat
<1>11. CASE ReconcileUpdate(r)
  BY <1>0, <1>11 DEF ReconcileUpdate
<1>12. CASE RestoreSourceBytes(r)
  BY <1>0, <1>12 DEF RestoreSourceBytes
<1>13. CASE Restart(r)
  BY <1>0, <1>13 DEF Restart
<1>14. CASE Ready(r)
  BY <1>0, <1>14 DEF Ready
<1>15. CASE ExecuteRollback(r)
  BY <1>0, <1>15 DEF ExecuteRollback
<1>16. CASE RestoreState(r)
  BY <1>0, <1>16 DEF RestoreState
<1>17. CASE RecoveryRestart(r)
  BY <1>0, <1>17 DEF RecoveryRestart
<1>18. CASE RecoveryReady(r)
  BY <1>0, <1>18 DEF RecoveryReady
<1> QED
  BY <1>1, <1>2, <1>3, <1>4, <1>5, <1>6, <1>7, <1>8, <1>9, <1>10, <1>11,
     <1>12, <1>13, <1>14, <1>15, <1>16, <1>17, <1>18 DEF Step

(* What each request knows of settings.js is kept by every step, as long   *)
(* as nothing outside NRCC writes the file.                                *)
LEMMA SourceInvariant ==
  ASSUME MaxEdits = 0
  PROVE  /\ Init => SourceInv
         /\ TypeOK /\ SlotInv /\ SourceInv /\ [Next]_vars => SourceInv'
<1>1. Init => SourceInv
  BY SourceOKElsewhere
  DEF Init, SourceInv, InFlight, Staging, Mirroring, Running, Recovering
<1>2. ASSUME TypeOK, SlotInv, SourceInv, NEW r \in Requests, Step(r)
      PROVE  SourceInv'
  <2>1. CASE Acquire(r)
    <3>1. \A q \in Requests \ {r} : SourceOK(q)'
      BY <1>2, <2>1
      DEF Acquire, Goto, TypeOK, SourceInv, SourceOK, Revision, LiveSource,
          disk, local
    <3>2. SourceOK(r)'
      BY <1>2, <2>1
      DEF Acquire, Goto, TypeOK, SourceOK, Staging, Mirroring, Running,
          Recovering, disk
    <3> QED
      BY <3>1, <3>2 DEF SourceInv
  <2>2. CASE Release(r)
    <3>1. \A q \in Requests : pc'[q] \notin InFlight
      BY <1>2, <2>2, ConstantsOK
      DEF Release, Goto, TypeOK, SlotInv, InFlight, Staging, Mirroring,
          Running, Recovering
    <3> QED
      BY <3>1, SourceOKElsewhere DEF SourceInv
  <2>3. CASE ~Acquire(r) /\ ~Release(r)
    <3>1. SourceOK(r)'
      BY <1>2, <2>3, SourceStep DEF SourceInv
    <3>2. \A q \in Requests \ {r} : pc'[q] \notin InFlight
      BY <1>2, <2>3, HolderStep DEF SlotInv
    <3> QED
      BY <3>1, <3>2, SourceOKElsewhere DEF SourceInv
  <2> QED
    BY <2>1, <2>2, <2>3
<1>3. ASSUME TypeOK, SourceInv, NEW r \in Requests, ReadRevision(r)
      PROVE  SourceInv'
  <2>1. \A q \in Requests \ {r} : SourceOK(q)'
    BY <1>3 DEF ReadRevision, Goto, TypeOK, SourceInv, SourceOK, Revision,
                LiveSource, disk
  <2>2. pc'[r] \notin InFlight
    BY <1>3 DEF ReadRevision, Goto, TypeOK, InFlight, Staging, Mirroring,
                Running, Recovering
  <2> QED
    BY <2>1, <2>2, SourceOKElsewhere DEF SourceInv
<1>4. ASSUME TypeOK, Crash
      PROVE  SourceInv'
  <2>1. \A q \in Requests : pc'[q] \notin InFlight
    BY <1>4 DEF Crash, TypeOK, InFlight, Staging, Mirroring, Running,
                Recovering
  <2> QED
    BY <2>1, SourceOKElsewhere DEF SourceInv
<1>5. ASSUME SourceInv, UNCHANGED <<settings, pc, req, cand, backup, before>>
      PROVE  SourceInv'
  BY <1>5 DEF SourceInv, SourceOK, Revision, LiveSource
<1>6. ASSUME TypeOK, Environment, ~Crash
      PROVE  \/ \E r \in Requests : ReadRevision(r)
             \/ UNCHANGED <<settings, pc, req, cand, backup, before>>
  <2>1. ~\E i \in Inputs : OutsideEdit(i.payload)
    BY <1>6 DEF OutsideEdit, TypeOK
  <2> QED
    BY <1>6, <2>1 DEF Environment, ApplyStructured, SaveConfig, ApplyRaw,
      SaveRaw,
    ApplyAccess, Cancel, EnvUpdate, RuntimeCrash,
                      RuntimeRespawn, disk, local
<1> QED
  BY <1>1, <1>2, <1>3, <1>4, <1>5, <1>6 DEF Next, vars

(* Wherever NRCC dies, settings.js is the source the transaction found, or *)
(* its candidate with that source in the snapshot: for any number of       *)
(* requests, any payloads and any faults, when only NRCC writes the file.  *)
THEOREM CrashSafe ==
  ASSUME MaxEdits = 0
  PROVE  Spec => []CrashPointsAreRecoverable
<1>1. TypeOK /\ SlotInv /\ SourceInv => CrashPointsAreRecoverable
  BY DEF TypeOK, SlotInv, SourceInv, SourceOK, CrashPointsAreRecoverable,
         InFlight, Staging, Mirroring, Running, Recovering
<1>2. Init => SlotInv /\ SourceInv
  BY SlotInvariant, SourceInvariant
<1>3. TypeOK /\ SlotInv /\ SourceInv /\ [Next]_vars => SlotInv' /\ SourceInv'
  BY SlotInvariant, SourceInvariant
<1> QED
  BY <1>1, <1>2, <1>3, TypeCorrect, PTL DEF Spec

(* Only the holder of the slot changes settings.js: its candidate replaces *)
(* the revision it expected with a snapshot at hand, or the snapshot is    *)
(* put back.                                                               *)
THEOREM GuardedWrites ==
  ASSUME MaxEdits = 0
  PROVE  Spec => SourceChangesAreGuarded
<1> DEFINE Guarded == settings' # settings =>
                        /\ flight # NoReq
                        /\ \/ /\ settings' = cand[flight]
                              /\ req[flight].expected = Revision
                              /\ backup[flight] = settings
                           \/ settings' = backup[flight]
<1>1. ASSUME TypeOK, SlotInv, SourceInv, [Next]_vars
      PROVE  [Guarded]_vars
  <2> SUFFICES ASSUME settings' # settings
               PROVE  Guarded
    BY <1>1
  <2>1. ASSUME Environment
        PROVE  FALSE
    <3>1. ~\E i \in Inputs : OutsideEdit(i.payload)
      BY <1>1 DEF OutsideEdit, TypeOK
    <3>2. ~Crash
      BY DEF Crash, disk
    <3> QED
      BY <2>1, <3>1, <3>2 DEF Environment, ApplyStructured, SaveConfig,
        ApplyRaw, SaveRaw,
    ApplyAccess, ReadRevision, Cancel, EnvUpdate,
                              RuntimeCrash, RuntimeRespawn, disk
  <2>2. PICK r \in Requests : Step(r)
    BY <1>1, <2>1 DEF Next, vars
  <2>3. AtomicWriteSettings(r) \/ RestoreSourceBytes(r) \/ ExecuteRollback(r)
    BY <2>2 DEF Step, Acquire, Release, CheckRevisionPrecondition,
                ResolveAdapter, PatchBase, CommitStructured, RenderCandidate,
                Unwind, ApplyValidate, ApplyBackup, WriteSettingsSnapshot,
                ReconcileStat,
                ReconcileUpdate, Restart, Ready, RestoreState,
                RecoveryRestart, RecoveryReady, disk
  <2>4. flight = r /\ flight # NoReq
    BY <1>1, <2>3, ConstantsOK
    DEF AtomicWriteSettings, RestoreSourceBytes, ExecuteRollback, SlotInv,
        InFlight, Staging, Mirroring, Recovering
  <2>5. CASE AtomicWriteSettings(r)
    BY <1>1, <2>4, <2>5
    DEF AtomicWriteSettings, SourceInv, SourceOK, Staging
  <2>6. CASE RestoreSourceBytes(r) \/ ExecuteRollback(r)
    BY <2>4, <2>6 DEF RestoreSourceBytes, ExecuteRollback
  <2> QED
    BY <2>3, <2>5, <2>6
<1>2. Init => SlotInv /\ SourceInv
  BY SlotInvariant, SourceInvariant
<1>3. TypeOK /\ SlotInv /\ SourceInv /\ [Next]_vars => SlotInv' /\ SourceInv'
  BY SlotInvariant, SourceInvariant
<1> QED
  BY <1>1, <1>2, <1>3, TypeCorrect, PTL DEF Spec, SourceChangesAreGuarded

-----------------------------------------------------------------------------
(* config.json, when it existed before the first request.                  *)

(* The mirror is as the request found it, up to EnvService's writes.       *)
Untouched(r) ==
  /\ store.cfg = before[r].store.cfg
  /\ envOps = before[r].envOps => store = before[r].store

(* The mirror holds what the request committed, and the request holds what *)
(* it has to put back.                                                     *)
Committed(r) ==
  /\ store.cfg = saved[r].comm.cfg
  /\ saved[r].prev.cfg = before[r].store.cfg
  /\ envOps = before[r].envOps =>
       IF Structured(r)
         THEN store.env = before[r].store.env
         ELSE store.env = saved[r].comm.env /\ saved[r].prev.env = before[r].store.env

(* What the mirror and the saved state hold in each phase of request r.    *)
MirrorOK(r) ==
  /\ pc[r] \in InFlight => before[r].store.exists /\ before[r].envOps <= envOps
  /\ IF Structured(r) THEN pc[r] \notin Mirroring
                      ELSE pc[r] \notin {"stage", "commit", "render"}
  /\ pc[r] \in {"check", "resolve", "stage", "commit", "rerestart", "reready"}
       => Untouched(r)
  /\ ~Structured(r) /\ pc[r] \in Staging \cup Mirroring \cup {"unwind"}
       => Untouched(r)
  /\ Structured(r) /\ pc[r] \in {"render", "validate", "revalidate", "backup",
                                 "write", "unwind"}
       => Committed(r)
  /\ pc[r] \in Running \cup {"rollback", "restoreState"} => Committed(r)
  /\ ~Structured(r) /\ pc[r] \in {"mirror", "rollback", "restoreState"} \cup Running
       => base[r].has
  /\ Returning(r, "rejected") \/ Returning(r, "recovered") => Untouched(r)
  /\ Returning(r, "ok") => store.cfg = saved[r].comm.cfg

MirrorInv == store.exists /\ \A r \in Requests : MirrorOK(r)

(* restoreUnchangedFields undoes a commit that nobody wrote over.          *)
LEMMA RestoreFieldsExact ==
  ASSUME NEW prev \in [Fields -> Vals], NEW comm \in [Fields -> Vals]
  PROVE  RestoreFields(comm, prev, comm) = prev
  BY DEF RestoreFields

(* A store is its three parts.                                             *)
LEMMA StoreParts ==
  ASSUME NEW s \in Stores, NEW t \in Stores, s.exists = t.exists,
         s.cfg = t.cfg, s.env = t.env
  PROVE  s = t
  BY DEF Stores

(* Both restorations give the request's own mirror back.                   *)
LEMMA RestoreUndoes ==
  ASSUME TypeOK, NEW r \in Requests, Committed(r), store.exists,
         before[r].store.exists, NEW s, s \in Stores,
         IF Structured(r) THEN s = RestoreStructured(r)
                          ELSE base[r].has /\ s = RestoreMirror(r)
  PROVE  /\ s.exists
         /\ s.cfg = before[r].store.cfg
         /\ envOps = before[r].envOps => s = before[r].store
<1>1. /\ saved[r].prev.cfg \in [Fields -> Vals]
      /\ saved[r].comm.cfg \in [Fields -> Vals]
      /\ before[r].store \in Stores /\ store \in Stores
  BY DEF TypeOK, Snapshots, Stores, Befores
<1>2. RestoreFields(store.cfg, saved[r].prev.cfg, saved[r].comm.cfg)
        = before[r].store.cfg
  BY <1>1, RestoreFieldsExact DEF Committed
<1>3. s.exists /\ s.cfg = before[r].store.cfg
  BY <1>1, <1>2 DEF RestoreStructured, RestoreMirror, Stores
<1>4. ASSUME envOps = before[r].envOps
      PROVE  s.env = before[r].store.env
  <2>1. CASE Structured(r)
    BY <1>1, <1>4, <2>1 DEF RestoreStructured, Committed, Stores
  <2>2. CASE ~Structured(r)
    <3>1. s.env = IF store.env = saved[r].comm.env THEN saved[r].prev.env
                                                  ELSE store.env
      BY <1>1, <2>2 DEF RestoreMirror, Stores
    <3> QED
      BY <1>4, <2>2, <3>1 DEF Committed
  <2> QED
    BY <2>1, <2>2
<1> QED
  BY <1>1, <1>3, <1>4, StoreParts DEF Stores

(* A request that is not in flight promises nothing about the mirror.      *)
LEMMA MirrorOKElsewhere ==
  /\ \A r \in Requests : pc[r] \notin InFlight => MirrorOK(r)
  /\ \A r \in Requests : pc'[r] \notin InFlight => MirrorOK(r)'
  BY DEF MirrorOK, Returning, InFlight, Staging, Mirroring, Running, Recovering

(* A step between Acquire and Release keeps what its request knows.        *)
LEMMA MirrorStep ==
  ASSUME TypeOK, TypeOK', SlotInv, NEW r \in Requests, store.exists,
         MirrorOK(r), Step(r), ~Acquire(r), ~Release(r)
  PROVE  store'.exists /\ MirrorOK(r)'
<1>0. /\ UNCHANGED <<req, before, envOps>>
      /\ before[r].store.exists /\ before[r].envOps <= envOps
  BY HolderStep DEF ghost, MirrorOK
<1> USE DEF TypeOK, Goto, Return, Reject, RecoveryFailed, Structured,
            Returning, InFlight, Staging, Mirroring, Running, Recovering,
            disk, local
<1>1. CASE CheckRevisionPrecondition(r)
  BY <1>0, <1>1 DEF CheckRevisionPrecondition, MirrorOK, Untouched, Committed
<1>2. CASE ResolveAdapter(r)
  BY <1>0, <1>2 DEF ResolveAdapter, MirrorOK, Untouched, Committed
<1>3. CASE PatchBase(r)
  BY <1>0, <1>3 DEF PatchBase, MirrorOK, Untouched, Committed
<1>4. CASE CommitStructured(r)
  <2>1. pc[r] = "commit" /\ Structured(r) /\ Untouched(r)
    BY <1>4 DEF CommitStructured, MirrorOK
  <2>2. CASE UNCHANGED store /\ Reject(r)
    <3>1. pc'[r] = "release" /\ outcome'[r] = "rejected"
      BY <2>2
    <3>2. Untouched(r)'
      BY <1>0, <2>1, <2>2 DEF Untouched
    <3> QED
      BY <1>0, <2>2, <3>1, <3>2 DEF MirrorOK
  <2>3. CASE /\ store' = [store EXCEPT !.exists = TRUE,
                                      !.cfg = StructuredCandidate(r)]
             /\ saved' = [saved EXCEPT ![r] = [prev |-> store,
                                              comm |-> store']]
             /\ Goto(r, "render")
    <3>1. store'.exists /\ store'.env = store.env
      BY <2>3 DEF Stores
    <3>2. /\ saved'[r].prev.cfg = store.cfg
          /\ saved'[r].comm.cfg = store'.cfg
      BY <2>3
    <3> QED
      BY <1>0, <2>1, <2>3, <3>1, <3>2 DEF MirrorOK, Untouched, Committed
  <2> QED
    BY <1>4, <2>2, <2>3 DEF CommitStructured
<1>5. CASE RenderCandidate(r)
  BY <1>0, <1>5 DEF RenderCandidate, MirrorOK, Untouched, Committed
<1>6. CASE Unwind(r)
  <2>1. CASE ~Structured(r) \/ (UNCHANGED store /\ Return(r, "unrecovered"))
    BY <1>0, <1>6, <2>1 DEF Unwind, MirrorOK, Untouched
  <2>2. CASE Structured(r) /\ store' = RestoreStructured(r)
    <3>1. Committed(r)
      BY <1>6, <2>2 DEF Unwind, MirrorOK
    <3>2. /\ store'.exists /\ store'.cfg = before[r].store.cfg
          /\ envOps = before[r].envOps => store' = before[r].store
      BY <1>0, <2>2, <3>1, RestoreUndoes
    <3> QED
      BY <1>0, <1>6, <3>2 DEF Unwind, MirrorOK, Untouched
  <2> QED
    BY <1>6, <2>1, <2>2 DEF Unwind
<1>7. CASE ApplyValidate(r)
  BY <1>0, <1>7 DEF ApplyValidate, MirrorOK, Untouched, Committed
<1>8. CASE ApplyBackup(r)
  BY <1>0, <1>8 DEF ApplyBackup, WriteSettingsSnapshot, MirrorOK, Untouched,
    Committed
<1>9. CASE AtomicWriteSettings(r)
  BY <1>0, <1>9 DEF AtomicWriteSettings, MirrorOK, Untouched, Committed
<1>10. CASE ReconcileStat(r)
  BY <1>0, <1>10 DEF ReconcileStat, MirrorOK, Untouched, Committed
<1>11. CASE ReconcileUpdate(r)
  <2>1. pc[r] = "mirror" /\ ~Structured(r) /\ Untouched(r) /\ base[r].has
    BY <1>11 DEF ReconcileUpdate, MirrorOK
  <2>2. CASE UNCHANGED <<store, saved>> /\ Goto(r, "undo")
    BY <1>0, <1>11, <2>1, <2>2 DEF ReconcileUpdate, MirrorOK, Untouched
  <2>3. CASE /\ \E exported \in BOOLEAN :
                  store' = ReconcileConfigWithSource(base[r].has, store,
                                                     cand[r], exported)
             /\ saved' = [saved EXCEPT ![r] = [prev |-> store,
                                              comm |-> store']]
             /\ Goto(r, "restart")
    <3>1. store'.exists
      BY <2>3 DEF ReconcileConfigWithSource
    <3>2. /\ saved'[r].prev = store
          /\ saved'[r].comm = store'
      BY <2>3
    <3>3. UNCHANGED base
      BY <1>11 DEF ReconcileUpdate
    <3> QED
      BY <1>0, <2>1, <2>3, <3>1, <3>2, <3>3 DEF MirrorOK, Untouched, Committed
  <2> QED
    BY <1>11, <2>2, <2>3 DEF ReconcileUpdate
<1>12. CASE RestoreSourceBytes(r)
  BY <1>0, <1>12 DEF RestoreSourceBytes, MirrorOK, Untouched, Committed
<1>13. CASE Restart(r)
  BY <1>0, <1>13 DEF Restart, MirrorOK, Untouched, Committed
<1>14. CASE Ready(r)
  BY <1>0, <1>14 DEF Ready, MirrorOK, Untouched, Committed
<1>15. CASE ExecuteRollback(r)
  BY <1>0, <1>15 DEF ExecuteRollback, MirrorOK, Untouched, Committed
<1>16. CASE RestoreState(r)
  <2>1. Committed(r) /\ (~Structured(r) => base[r].has)
    BY <1>16 DEF RestoreState, MirrorOK
  <2>2. CASE UNCHANGED store /\ RecoveryFailed(r)
    BY <1>0, <1>16, <2>2 DEF RestoreState, MirrorOK
  <2>3. CASE /\ store' = IF Structured(r) THEN RestoreStructured(r)
                                          ELSE RestoreMirror(r)
             /\ Goto(r, "rerestart")
    <3>1. /\ store'.exists /\ store'.cfg = before[r].store.cfg
          /\ envOps = before[r].envOps => store' = before[r].store
      BY <1>0, <2>1, <2>3, RestoreUndoes
    <3> QED
      BY <1>0, <1>16, <2>3, <3>1 DEF RestoreState, MirrorOK, Untouched
  <2> QED
    BY <1>16, <2>2, <2>3 DEF RestoreState
<1>17. CASE RecoveryRestart(r)
  BY <1>0, <1>17 DEF RecoveryRestart, MirrorOK, Untouched, Committed
<1>18. CASE RecoveryReady(r)
  BY <1>0, <1>18 DEF RecoveryReady, MirrorOK, Untouched, Committed
<1> QED
  BY <1>1, <1>2, <1>3, <1>4, <1>5, <1>6, <1>7, <1>8, <1>9, <1>10, <1>11,
     <1>12, <1>13, <1>14, <1>15, <1>16, <1>17, <1>18 DEF Step

(* What each request knows of the mirror is kept by every step, as long as *)
(* config.json existed before the first request.                           *)
LEMMA MirrorInvariant ==
  ASSUME \A s \in FirstStores : s.exists
  PROVE  /\ Init => MirrorInv
         /\ TypeOK /\ TypeOK' /\ SlotInv /\ MirrorInv /\ [Next]_vars => MirrorInv'
<1>1. Init => MirrorInv
  BY MirrorOKElsewhere
  DEF Init, MirrorInv, InFlight, Staging, Mirroring, Running, Recovering
<1>2. ASSUME TypeOK, TypeOK', SlotInv, MirrorInv, NEW r \in Requests, Step(r)
      PROVE  MirrorInv'
  <2>1. CASE Acquire(r)
    <3>1. \A q \in Requests \ {r} : MirrorOK(q)'
      BY <1>2, <2>1
      DEF Acquire, Goto, Emit, TypeOK, MirrorInv, MirrorOK, Untouched,
          Committed, Structured, Returning, disk, local, ghost
    <3>2. MirrorOK(r)'
      BY <1>2, <2>1
      DEF Acquire, Goto, Emit, TypeOK, MirrorInv, MirrorOK, Untouched,
          Structured, Returning, InFlight, Staging, Mirroring, Running,
          Recovering, disk, local, ghost
    <3> QED
      BY <1>2, <2>1, <3>1, <3>2 DEF MirrorInv, Acquire, disk
  <2>2. CASE Release(r)
    <3>1. \A q \in Requests : pc'[q] \notin InFlight
      BY <1>2, <2>2, ConstantsOK
      DEF Release, Goto, TypeOK, SlotInv, InFlight, Staging, Mirroring,
          Running, Recovering
    <3> QED
      BY <1>2, <2>2, <3>1, MirrorOKElsewhere DEF MirrorInv, Release, disk
  <2>3. CASE ~Acquire(r) /\ ~Release(r)
    <3>1. store'.exists /\ MirrorOK(r)'
      BY <1>2, <2>3, MirrorStep DEF MirrorInv
    <3>2. \A q \in Requests \ {r} : pc'[q] \notin InFlight
      BY <1>2, <2>3, HolderStep DEF SlotInv
    <3> QED
      BY <3>1, <3>2, MirrorOKElsewhere DEF MirrorInv
  <2> QED
    BY <2>1, <2>2, <2>3
<1>3. ASSUME TypeOK, MirrorInv, NEW r \in Requests, ReadRevision(r)
      PROVE  MirrorInv'
  <2>1. \A q \in Requests : req'[q].kind = req[q].kind
    BY <1>3 DEF ReadRevision, TypeOK, ApplyRequests
  <2>2. \A q \in Requests \ {r} : MirrorOK(q)'
    BY <1>3, <2>1
    DEF ReadRevision, Goto, TypeOK, MirrorInv, MirrorOK, Untouched, Committed,
        Structured, Returning, disk, ghost
  <2>3. pc'[r] \notin InFlight
    BY <1>3 DEF ReadRevision, Goto, TypeOK, InFlight, Staging, Mirroring,
                Running, Recovering
  <2> QED
    BY <1>3, <2>2, <2>3, MirrorOKElsewhere DEF MirrorInv, ReadRevision, disk
<1>4. ASSUME TypeOK, MirrorInv, Crash
      PROVE  MirrorInv'
  <2>1. \A q \in Requests : pc'[q] \notin InFlight
    BY <1>4 DEF Crash, TypeOK, InFlight, Staging, Mirroring, Running,
                Recovering
  <2>2. store' = store
    BY <1>4 DEF Crash, disk
  <2> QED
    BY <1>4, <2>1, <2>2, MirrorOKElsewhere DEF MirrorInv
<1>5. ASSUME TypeOK, MirrorInv, NEW k \in EnvKeys,
             NEW v \in EnvVals \cup {Absent}, EnvUpdate(k, v)
      PROVE  MirrorInv'
  <2>1. store'.exists /\ store'.cfg = store.cfg
    BY <1>5 DEF EnvUpdate, TypeOK, Stores
  <2>2. envOps' = envOps + 1 /\ envOps \in Nat
    BY <1>5 DEF EnvUpdate, TypeOK
  <2>3. \A r \in Requests : before[r].envOps \in Nat
    BY <1>5 DEF TypeOK, Befores
  <2>4. ASSUME NEW r \in Requests
        PROVE  MirrorOK(r)'
    <3>1. CASE pc[r] \notin InFlight
      BY <1>5, <3>1, MirrorOKElsewhere DEF EnvUpdate
    <3>2. CASE pc[r] \in InFlight
      <4>1. envOps' # before[r].envOps
        BY <1>5, <2>2, <2>3, <3>2 DEF MirrorInv, MirrorOK
      <4>2. before[r].envOps <= envOps'
        BY <1>5, <2>2, <2>3, <3>2 DEF MirrorInv, MirrorOK
      <4> QED
        BY <1>5, <2>1, <4>1, <4>2
        DEF EnvUpdate, MirrorInv, MirrorOK, Untouched, Committed, Structured,
            Returning, local
    <3> QED
      BY <3>1, <3>2
  <2> QED
    BY <2>1, <2>4 DEF MirrorInv
<1>6. ASSUME MirrorInv, UNCHANGED <<store, pc, req, base, saved, outcome,
                                    before, envOps>>
      PROVE  MirrorInv'
  BY <1>6 DEF MirrorInv, MirrorOK, Untouched, Committed, Structured, Returning
<1>7. ASSUME Environment, ~Crash
      PROVE  \/ \E r \in Requests : ReadRevision(r)
             \/ \E k \in EnvKeys, v \in EnvVals \cup {Absent} : EnvUpdate(k, v)
             \/ UNCHANGED <<store, pc, req, base, saved, outcome, before, envOps>>
  BY <1>7 DEF Environment, ApplyStructured, SaveConfig, ApplyRaw, SaveRaw,
    ApplyAccess, Cancel, OutsideEdit, RuntimeCrash, RuntimeRespawn,
              disk, local, ghost
<1> QED
  BY <1>1, <1>2, <1>3, <1>4, <1>5, <1>6, <1>7 DEF Next, vars

-----------------------------------------------------------------------------
(* What a result says about settings.js and about Node-RED, when a rename  *)
(* that took place is never reported as failed.                            *)

ResultOK(r) ==
  /\ pc[r] = "unwind" => settings = before[r].settings
  /\ Returning(r, "rejected") \/ Returning(r, "recovered")
       => settings = before[r].settings
  /\ pc[r] = "ready" \/ Returning(r, "ok")
       => settings = cand[r] /\ runtime.loaded = cand[r]
  /\ pc[r] = "reready" \/ Returning(r, "recovered")
       => runtime.loaded = settings

ResultInv == \A r \in Requests : ResultOK(r)

(* A request that is not in flight promises nothing about the runtime.     *)
LEMMA ResultOKElsewhere ==
  /\ \A r \in Requests : pc[r] \notin InFlight => ResultOK(r)
  /\ \A r \in Requests : pc'[r] \notin InFlight => ResultOK(r)'
  BY DEF ResultOK, Returning, InFlight, Running, Recovering

(* A step between Acquire and Release keeps what its result will say.      *)
LEMMA ResultStep ==
  ASSUME TypeOK, SlotInv, NEW r \in Requests, SourceOK(r), ResultOK(r),
         "sync" \notin Faults, Step(r), ~Acquire(r), ~Release(r)
  PROVE  ResultOK(r)'
<1>0. UNCHANGED before
  BY HolderStep
<1> USE DEF TypeOK, SourceOK, ResultOK, Returning, May, Started, Goto, Return,
            Reject, RecoveryFailed, Staging, Mirroring, Running, Recovering,
            disk, local
<1>1. CASE CheckRevisionPrecondition(r)
  BY <1>0, <1>1 DEF CheckRevisionPrecondition
<1>2. CASE ResolveAdapter(r)
  BY <1>0, <1>2 DEF ResolveAdapter
<1>3. CASE PatchBase(r)
  BY <1>0, <1>3 DEF PatchBase
<1>4. CASE CommitStructured(r)
  BY <1>0, <1>4 DEF CommitStructured
<1>5. CASE RenderCandidate(r)
  BY <1>0, <1>5 DEF RenderCandidate
<1>6. CASE Unwind(r)
  BY <1>0, <1>6 DEF Unwind
<1>7. CASE ApplyValidate(r)
  BY <1>0, <1>7 DEF ApplyValidate
<1>8. CASE ApplyBackup(r)
  BY <1>0, <1>8 DEF ApplyBackup, WriteSettingsSnapshot
<1>9. CASE AtomicWriteSettings(r)
  BY <1>0, <1>9 DEF AtomicWriteSettings
<1>10. CASE ReconcileStat(r)
  BY <1>0, <1>10 DEF ReconcileStat
<1>11. CASE ReconcileUpdate(r)
  BY <1>0, <1>11 DEF ReconcileUpdate
<1>12. CASE RestoreSourceBytes(r)
  BY <1>0, <1>12 DEF RestoreSourceBytes
<1>13. CASE Restart(r)
  BY <1>0, <1>13 DEF Restart
<1>14. CASE Ready(r)
  BY <1>0, <1>14 DEF Ready
<1>15. CASE ExecuteRollback(r)
  BY <1>0, <1>15 DEF ExecuteRollback
<1>16. CASE RestoreState(r)
  BY <1>0, <1>16 DEF RestoreState
<1>17. CASE RecoveryRestart(r)
  BY <1>0, <1>17 DEF RecoveryRestart
<1>18. CASE RecoveryReady(r)
  BY <1>0, <1>18 DEF RecoveryReady
<1> QED
  BY <1>1, <1>2, <1>3, <1>4, <1>5, <1>6, <1>7, <1>8, <1>9, <1>10, <1>11,
     <1>12, <1>13, <1>14, <1>15, <1>16, <1>17, <1>18 DEF Step

(* What each request's result says is kept by every step.                  *)
LEMMA ResultInvariant ==
  ASSUME MaxEdits = 0, "sync" \notin Faults
  PROVE  /\ Init => ResultInv
         /\ TypeOK /\ SlotInv /\ SourceInv /\ ResultInv /\ [Next]_vars => ResultInv'
<1>1. Init => ResultInv
  BY ResultOKElsewhere
  DEF Init, ResultInv, InFlight, Staging, Mirroring, Running, Recovering
<1>2. ASSUME TypeOK, SlotInv, SourceInv, ResultInv, NEW r \in Requests, Step(r)
      PROVE  ResultInv'
  <2>1. CASE Acquire(r)
    <3>1. \A q \in Requests \ {r} : ResultOK(q)'
      BY <1>2, <2>1
      DEF Acquire, Goto, TypeOK, ResultInv, ResultOK, Returning, disk, local
    <3>2. ResultOK(r)'
      BY <1>2, <2>1 DEF Acquire, Goto, TypeOK, ResultOK, Returning
    <3> QED
      BY <3>1, <3>2 DEF ResultInv
  <2>2. CASE Release(r)
    <3>1. \A q \in Requests : pc'[q] \notin InFlight
      BY <1>2, <2>2, ConstantsOK
      DEF Release, Goto, TypeOK, SlotInv, InFlight, Staging, Mirroring,
          Running, Recovering
    <3> QED
      BY <3>1, ResultOKElsewhere DEF ResultInv
  <2>3. CASE ~Acquire(r) /\ ~Release(r)
    <3>1. ResultOK(r)'
      BY <1>2, <2>3, ResultStep DEF ResultInv, SourceInv
    <3>2. \A q \in Requests \ {r} : pc'[q] \notin InFlight
      BY <1>2, <2>3, HolderStep DEF SlotInv
    <3> QED
      BY <3>1, <3>2, ResultOKElsewhere DEF ResultInv
  <2> QED
    BY <2>1, <2>2, <2>3
<1>3. ASSUME TypeOK, ResultInv, NEW r \in Requests, ReadRevision(r)
      PROVE  ResultInv'
  BY <1>3 DEF ReadRevision, Goto, TypeOK, ResultInv, ResultOK, Returning, disk
<1>4. ASSUME TypeOK, Crash
      PROVE  ResultInv'
  <2>1. \A q \in Requests : pc'[q] \notin InFlight
    BY <1>4 DEF Crash, TypeOK, InFlight, Staging, Mirroring, Running,
                Recovering
  <2> QED
    BY <2>1, ResultOKElsewhere DEF ResultInv
<1>5. ASSUME TypeOK, ResultInv, SourceInv, RuntimeCrash \/ RuntimeRespawn
      PROVE  ResultInv'
  BY <1>5
  DEF RuntimeCrash, RuntimeRespawn, Stopped, Started, ResultInv, ResultOK,
      Returning, SourceInv, SourceOK, Runtimes, TypeOK, disk, local
<1>6. ASSUME ResultInv, UNCHANGED <<settings, runtime, pc, cand, outcome, before>>
      PROVE  ResultInv'
  BY <1>6 DEF ResultInv, ResultOK, Returning
<1>7. ASSUME TypeOK, Environment, ~Crash
      PROVE  \/ \E r \in Requests : ReadRevision(r)
             \/ RuntimeCrash \/ RuntimeRespawn
             \/ UNCHANGED <<settings, runtime, pc, cand, outcome, before>>
  <2>1. ~\E i \in Inputs : OutsideEdit(i.payload)
    BY <1>7 DEF OutsideEdit, TypeOK
  <2> QED
    BY <1>7, <2>1 DEF Environment, ApplyStructured, SaveConfig, ApplyRaw,
      SaveRaw,
    ApplyAccess, Cancel, EnvUpdate, disk, local
<1> QED
  BY <1>1, <1>2, <1>3, <1>4, <1>5, <1>6, <1>7 DEF Next, vars

(* The parts together: inductive when config.json existed, nothing outside *)
(* NRCC writes settings.js and no completed rename is reported as failed.  *)
TransactionInv == TypeOK /\ SlotInv /\ SourceInv /\ MirrorInv /\ ResultInv

(* The parts hold in every reachable state.                                *)
LEMMA TransactionInvariant ==
  ASSUME MaxEdits = 0, "sync" \notin Faults, \A s \in FirstStores : s.exists
  PROVE  Spec => []TransactionInv
<1>1. Init => SlotInv /\ SourceInv /\ MirrorInv /\ ResultInv
  BY SlotInvariant, SourceInvariant, MirrorInvariant, ResultInvariant
<1>2. TypeOK /\ TypeOK' /\ SlotInv /\ SourceInv /\ MirrorInv /\ ResultInv
        /\ [Next]_vars => SlotInv' /\ SourceInv' /\ MirrorInv' /\ ResultInv'
  BY SlotInvariant, SourceInvariant, MirrorInvariant, ResultInvariant
<1> QED
  BY <1>1, <1>2, TypeCorrect, PTL DEF Spec, TransactionInv

(* A rejected save has no durable effect, whatever stage rejects it and    *)
(* whatever EnvService writes meanwhile.                                   *)
THEOREM RejectionIsClean ==
  ASSUME MaxEdits = 0, "sync" \notin Faults, \A s \in FirstStores : s.exists
  PROVE  Spec => []RejectedSaveHasNoEffect
<1>1. TransactionInv => RejectedSaveHasNoEffect
  BY DEF TransactionInv, MirrorInv, MirrorOK, ResultInv, ResultOK, Untouched,
         RejectedSaveHasNoEffect, Undone
<1> QED
  BY <1>1, TransactionInvariant, PTL

(* A rollback that reports recovery has restored source and mirror, and    *)
(* Node-RED runs the restored source.                                      *)
THEOREM RecoveryRunsPrevious ==
  ASSUME MaxEdits = 0, "sync" \notin Faults, \A s \in FirstStores : s.exists
  PROVE  Spec => []RecoveredRunsPrevious
<1>1. TransactionInv => RecoveredRunsPrevious
  BY DEF TransactionInv, MirrorInv, MirrorOK, ResultInv, ResultOK, Untouched,
         RecoveredRunsPrevious, Undone
<1> QED
  BY <1>1, TransactionInvariant, PTL

-----------------------------------------------------------------------------
(* Results and audit events.                                               *)

(* A request has no result before it returns, and reports success together *)
(* with apply.success; only a crash can separate the two afterwards.       *)
AuditOK(r) ==
  /\ pc[r] \notin {"release", "done"}
       => outcome[r] = "none" /\ audit[r] # "success"
  /\ outcome[r] = "ok" => audit[r] = "success"
  /\ audit[r] = "success" => outcome[r] \in {"ok", "crashed"}

AuditInv == \A r \in Requests : AuditOK(r)

(* A step of a request keeps its result and its audit event together.      *)
LEMMA AuditStep ==
  ASSUME TypeOK, AuditInv, NEW r \in Requests, Step(r) \/ ReadRevision(r)
  PROVE  AuditInv'
<1> USE DEF TypeOK, AuditInv, AuditOK, Goto, Emit, Return, Reject,
            RecoveryFailed
<1>1. CASE Acquire(r)
  BY <1>1 DEF Acquire
<1>2. CASE Release(r)
  BY <1>2 DEF Release
<1>3. CASE CheckRevisionPrecondition(r)
  BY <1>3 DEF CheckRevisionPrecondition
<1>4. CASE ResolveAdapter(r)
  BY <1>4 DEF ResolveAdapter
<1>5. CASE PatchBase(r)
  BY <1>5 DEF PatchBase
<1>6. CASE CommitStructured(r)
  BY <1>6 DEF CommitStructured
<1>7. CASE RenderCandidate(r)
  BY <1>7 DEF RenderCandidate
<1>8. CASE Unwind(r)
  BY <1>8 DEF Unwind
<1>9. CASE ApplyValidate(r)
  BY <1>9 DEF ApplyValidate
<1>10. CASE ApplyBackup(r)
  BY <1>10 DEF ApplyBackup, WriteSettingsSnapshot
<1>11. CASE AtomicWriteSettings(r)
  BY <1>11 DEF AtomicWriteSettings
<1>12. CASE ReconcileStat(r)
  BY <1>12 DEF ReconcileStat
<1>13. CASE ReconcileUpdate(r)
  BY <1>13 DEF ReconcileUpdate
<1>14. CASE RestoreSourceBytes(r)
  BY <1>14 DEF RestoreSourceBytes
<1>15. CASE Restart(r)
  BY <1>15 DEF Restart
<1>16. CASE Ready(r)
  BY <1>16 DEF Ready
<1>17. CASE ExecuteRollback(r)
  BY <1>17 DEF ExecuteRollback
<1>18. CASE RestoreState(r)
  BY <1>18 DEF RestoreState
<1>19. CASE RecoveryRestart(r)
  BY <1>19 DEF RecoveryRestart
<1>20. CASE RecoveryReady(r)
  BY <1>20 DEF RecoveryReady
<1>21. CASE ReadRevision(r)
  BY <1>21 DEF ReadRevision
<1> QED
  BY <1>1, <1>2, <1>3, <1>4, <1>5, <1>6, <1>7, <1>8, <1>9, <1>10, <1>11,
     <1>12, <1>13, <1>14, <1>15, <1>16, <1>17, <1>18, <1>19, <1>20, <1>21
     DEF Step

(* Results and audit events agree in every reachable state.                *)
LEMMA AuditInvariant == Spec => []AuditInv
<1>1. Init => AuditInv
  BY DEF Init, AuditInv, AuditOK
<1>2. TypeOK /\ AuditInv /\ [Next]_vars => AuditInv'
  <2> SUFFICES ASSUME TypeOK, AuditInv, [Next]_vars PROVE AuditInv'
    OBVIOUS
  <2>1. CASE Crash
    BY <2>1 DEF Crash, TypeOK, AuditInv, AuditOK, InFlight, Staging,
                Mirroring, Running, Recovering
  <2>2. CASE UNCHANGED <<pc, outcome, audit>>
    BY <2>2 DEF AuditInv, AuditOK
  <2>3. ASSUME Environment, ~Crash
        PROVE  \/ \E r \in Requests : ReadRevision(r)
               \/ UNCHANGED <<pc, outcome, audit>>
    BY <2>3 DEF Environment, ApplyStructured, SaveConfig, ApplyRaw, SaveRaw,
    ApplyAccess, Cancel, EnvUpdate, OutsideEdit, RuntimeCrash,
                RuntimeRespawn
  <2> QED
    BY <2>1, <2>2, <2>3, AuditStep DEF Next, vars
<1> QED
  BY <1>1, <1>2, TypeCorrect, PTL DEF Spec

(* When Apply reports success, the file holds the candidate, Node-RED has  *)
(* loaded it, the mirror holds what was committed, and the audit log says  *)
(* so.                                                                     *)
THEOREM SuccessIsReal ==
  ASSUME MaxEdits = 0, "sync" \notin Faults, \A s \in FirstStores : s.exists
  PROVE  Spec => []SuccessIsRunning
<1>1. TransactionInv /\ AuditInv => SuccessIsRunning
  BY DEF TransactionInv, MirrorInv, MirrorOK, ResultInv, ResultOK, AuditInv,
         AuditOK, SuccessIsRunning
<1> QED
  BY <1>1, TransactionInvariant, AuditInvariant, PTL

-----------------------------------------------------------------------------
(* Environment variables.                                                  *)

(* Variable k is declared by no raw payload.                               *)
Undeclared(k) ==
  \A r \in Requests : req[r].kind = "raw" => req[r].payload.env[k] = Absent

(* A raw request works on its payload, finds a mirror, and a reconciliation*)
(* leaves the undeclared variables as they were.                           *)
EnvOK(r) ==
  IF Structured(r) THEN pc[r] \notin Mirroring ELSE
    /\ cand[r] = req[r].payload
    /\ pc[r] \notin {"stage", "commit", "render"}
    /\ pc[r] \in {"mirror"} \cup Running \cup {"rollback", "restoreState"}
         => base[r].has
    /\ pc[r] \in Running \cup {"rollback", "restoreState"} =>
         \A k \in EnvKeys : Undeclared(k) =>
           saved[r].prev.env[k] = saved[r].comm.env[k]

EnvInv == store.exists /\ EnvWritesSurvive /\ \A r \in Requests : EnvOK(r)

(* A step of a request leaves the undeclared variables of the store alone. *)
LEMMA StoreEnvStep ==
  ASSUME TypeOK, TypeOK', EnvInv, NEW r \in Requests, Step(r)
  PROVE  /\ store'.exists /\ UNCHANGED <<req, acked>>
         /\ \A k \in EnvKeys : Undeclared(k) => store'.env[k] = store.env[k]
<1>1. UNCHANGED <<req, acked>>
  BY DEF Step, Acquire, Release, CheckRevisionPrecondition, ResolveAdapter,
         PatchBase, CommitStructured, RenderCandidate, Unwind, ApplyValidate,
         ApplyBackup, WriteSettingsSnapshot, AtomicWriteSettings,
         ReconcileStat, ReconcileUpdate,
         RestoreSourceBytes, Restart, Ready, ExecuteRollback, RestoreState,
         RecoveryRestart, RecoveryReady, local, ghost
<1>2. CASE UNCHANGED store
  BY <1>1, <1>2 DEF EnvInv
<1>3. CASE CommitStructured(r)
  <2>1. store' = [store EXCEPT !.exists = TRUE, !.cfg = StructuredCandidate(r)]
          \/ UNCHANGED store
    BY <1>3 DEF CommitStructured
  <2> QED
    BY <1>1, <1>2, <2>1 DEF TypeOK, Stores
<1>4. ASSUME store' = RestoreStructured(r)
      PROVE  store'.exists /\ store'.env = store.env
  BY <1>4 DEF RestoreStructured, TypeOK, Stores
<1>5. CASE Unwind(r)
  BY <1>1, <1>2, <1>4, <1>5 DEF Unwind
<1>6. CASE ReconcileUpdate(r)
  <2>1. CASE UNCHANGED <<store, saved>>
    BY <1>2, <2>1
  <2>2. ASSUME NEW exported \in BOOLEAN,
               store' = ReconcileConfigWithSource(base[r].has, store, cand[r],
                                                  exported)
        PROVE  /\ store'.exists
               /\ \A k \in EnvKeys : Undeclared(k) => store'.env[k] = store.env[k]
    <3>1. ~Structured(r)
      BY <1>6 DEF ReconcileUpdate, EnvInv, EnvOK, Mirroring
    <3>2. base[r].has /\ cand[r] = req[r].payload
      BY <1>6, <3>1 DEF ReconcileUpdate, EnvInv, EnvOK
    <3>3. store'.exists
      BY <2>2 DEF ReconcileConfigWithSource
    <3>4. \/ store'.env = store.env
          \/ store'.env = MergeEnvVars(store.env, cand[r].env)
      BY <2>2, <3>2 DEF ReconcileConfigWithSource
    <3> QED
      BY <3>1, <3>2, <3>3, <3>4 DEF MergeEnvVars, Undeclared, Structured
  <2> QED
    BY <1>1, <1>6, <2>1, <2>2 DEF ReconcileUpdate
<1>7. CASE RestoreState(r)
  <2>1. CASE UNCHANGED store
    BY <1>2, <2>1
  <2>2. CASE Structured(r) /\ store' = RestoreStructured(r)
    BY <1>1, <1>4, <2>2
  <2>3. CASE ~Structured(r) /\ store' = RestoreMirror(r)
    <3>1. /\ base[r].has
          /\ \A k \in EnvKeys : Undeclared(k) =>
               saved[r].prev.env[k] = saved[r].comm.env[k]
      BY <1>7, <2>3 DEF RestoreState, EnvInv, EnvOK
    <3>2. /\ store'.exists
          /\ store'.env = IF store.env = saved[r].comm.env
                            THEN saved[r].prev.env ELSE store.env
      BY <2>3, <3>1 DEF RestoreMirror, TypeOK, Stores
    <3> QED
      BY <1>1, <3>1, <3>2
  <2> QED
    BY <1>7, <2>1, <2>2, <2>3 DEF RestoreState
<1>8. CASE ~CommitStructured(r) /\ ~Unwind(r) /\ ~ReconcileUpdate(r)
             /\ ~RestoreState(r)
  <2>1. UNCHANGED store
    BY <1>8 DEF Step, Acquire, Release, CheckRevisionPrecondition,
                ResolveAdapter, PatchBase, RenderCandidate, ApplyValidate,
                ApplyBackup, WriteSettingsSnapshot, AtomicWriteSettings,
                ReconcileStat,
                RestoreSourceBytes, Restart, Ready, ExecuteRollback,
                RecoveryRestart, RecoveryReady, disk
  <2> QED
    BY <1>2, <2>1
<1> QED
  BY <1>3, <1>5, <1>6, <1>7, <1>8

(* A step of a request keeps what the requests know of the environment.    *)
LEMMA EnvOKStep ==
  ASSUME TypeOK, TypeOK', EnvInv, NEW r \in Requests, Step(r)
  PROVE  \A q \in Requests : EnvOK(q)'
<1>0. UNCHANGED req /\ \A k : Undeclared(k)' <=> Undeclared(k)
  BY StoreEnvStep DEF Undeclared
<1>1. \A q \in Requests : EnvOK(q)
  BY DEF EnvInv
<1> USE DEF TypeOK, Structured, Goto, Return, Reject, RecoveryFailed, Running,
            Mirroring, Recovering, local
<1>2. CASE Acquire(r)
  BY <1>0, <1>1, <1>2 DEF Acquire, EnvOK
<1>3. CASE Release(r)
  BY <1>0, <1>1, <1>3 DEF Release, Drop, EnvOK
<1>4. CASE CheckRevisionPrecondition(r)
  BY <1>0, <1>1, <1>4 DEF CheckRevisionPrecondition, EnvOK
<1>5. CASE ResolveAdapter(r)
  BY <1>0, <1>1, <1>5 DEF ResolveAdapter, EnvOK
<1>6. CASE PatchBase(r)
  BY <1>0, <1>1, <1>6 DEF PatchBase, EnvOK
<1>7. CASE CommitStructured(r)
  BY <1>0, <1>1, <1>7 DEF CommitStructured, EnvOK
<1>8. CASE RenderCandidate(r)
  BY <1>0, <1>1, <1>8 DEF RenderCandidate, EnvOK
<1>9. CASE Unwind(r)
  BY <1>0, <1>1, <1>9 DEF Unwind, EnvOK
<1>10. CASE ApplyValidate(r)
  BY <1>0, <1>1, <1>10 DEF ApplyValidate, EnvOK
<1>11. CASE ApplyBackup(r)
  BY <1>0, <1>1, <1>11 DEF ApplyBackup, WriteSettingsSnapshot, EnvOK
<1>12. CASE AtomicWriteSettings(r)
  BY <1>0, <1>1, <1>12 DEF AtomicWriteSettings, EnvOK
<1>13. CASE ReconcileStat(r)
  <2>1. \A q \in Requests \ {r} : EnvOK(q)'
    BY <1>0, <1>1, <1>13 DEF ReconcileStat, EnvOK
  <2>2. base'[r].has
    BY <1>13 DEF ReconcileStat, EnvInv, Bases
  <2>3. EnvOK(r)'
    BY <1>0, <1>1, <1>13, <2>2 DEF ReconcileStat, EnvOK
  <2> QED
    BY <2>1, <2>3
<1>14. CASE ReconcileUpdate(r)
  <2>1. \A q \in Requests \ {r} : EnvOK(q)'
    BY <1>0, <1>1, <1>14 DEF ReconcileUpdate, EnvOK
  <2>2. ~Structured(r) /\ base[r].has /\ cand[r] = req[r].payload
    BY <1>1, <1>14 DEF ReconcileUpdate, EnvOK
  <2>3. ASSUME Goto(r, "undo")
        PROVE  EnvOK(r)'
    BY <1>0, <1>14, <2>2, <2>3 DEF ReconcileUpdate, EnvOK
  <2>4. ASSUME saved' = [saved EXCEPT ![r] = [prev |-> store, comm |-> store']],
               Goto(r, "restart")
        PROVE  EnvOK(r)'
    <3>1. saved'[r].prev = store /\ saved'[r].comm = store'
      BY <2>4
    <3>2. \A k \in EnvKeys : Undeclared(k) => store'.env[k] = store.env[k]
      BY StoreEnvStep
    <3> QED
      BY <1>0, <1>14, <2>2, <2>4, <3>1, <3>2 DEF ReconcileUpdate, EnvOK
  <2> QED
    BY <1>14, <2>1, <2>3, <2>4 DEF ReconcileUpdate
<1>15. CASE RestoreSourceBytes(r)
  BY <1>0, <1>1, <1>15 DEF RestoreSourceBytes, EnvOK
<1>16. CASE Restart(r)
  BY <1>0, <1>1, <1>16 DEF Restart, EnvOK
<1>17. CASE Ready(r)
  BY <1>0, <1>1, <1>17 DEF Ready, EnvOK
<1>18. CASE ExecuteRollback(r)
  BY <1>0, <1>1, <1>18 DEF ExecuteRollback, EnvOK
<1>19. CASE RestoreState(r)
  BY <1>0, <1>1, <1>19 DEF RestoreState, EnvOK
<1>20. CASE RecoveryRestart(r)
  BY <1>0, <1>1, <1>20 DEF RecoveryRestart, EnvOK
<1>21. CASE RecoveryReady(r)
  BY <1>0, <1>1, <1>21 DEF RecoveryReady, EnvOK
<1> QED
  BY <1>2, <1>3, <1>4, <1>5, <1>6, <1>7, <1>8, <1>9, <1>10, <1>11, <1>12,
     <1>13, <1>14, <1>15, <1>16, <1>17, <1>18, <1>19, <1>20, <1>21 DEF Step

(* What the requests know of the environment holds in every state.         *)
LEMMA EnvInvariant ==
  ASSUME \A s \in FirstStores : s.exists
  PROVE  Spec => []EnvInv
<1>1. Init => EnvInv
  <2> SUFFICES ASSUME Init PROVE EnvInv
    OBVIOUS
  <2>1. store.exists /\ EnvWritesSurvive
    BY DEF Init, EnvWritesSurvive
  <2>2. \A r \in Requests : EnvOK(r)
    BY DEF Init, EnvOK, Mirroring, Running
  <2> QED
    BY <2>1, <2>2 DEF EnvInv
<1>2. ASSUME TypeOK, TypeOK', EnvInv, NEW r \in Requests, Step(r)
      PROVE  EnvInv'
  <2>1. EnvWritesSurvive'
    BY <1>2, StoreEnvStep DEF EnvInv, EnvWritesSurvive, Undeclared
  <2> QED
    BY <1>2, <2>1, StoreEnvStep, EnvOKStep DEF EnvInv
<1>3. ASSUME TypeOK, EnvInv, NEW r \in Requests, ReadRevision(r)
      PROVE  EnvInv'
  <2>1. \A q \in Requests : /\ req'[q].kind = req[q].kind
                            /\ req'[q].payload = req[q].payload
    BY <1>3 DEF ReadRevision, TypeOK, ApplyRequests
  <2>2. \A k : Undeclared(k)' <=> Undeclared(k)
    BY <2>1 DEF Undeclared
  <2>3. EnvWritesSurvive'
    BY <1>3, <2>1 DEF ReadRevision, EnvInv, EnvWritesSurvive, disk, ghost
  <2>4. \A q \in Requests : EnvOK(q)'
    BY <1>3, <2>1, <2>2
    DEF ReadRevision, Goto, TypeOK, EnvInv, EnvOK, Structured, Mirroring,
        Running
  <2> QED
    BY <1>3, <2>3, <2>4 DEF EnvInv, ReadRevision, disk
<1>4. ASSUME TypeOK, EnvInv, Crash
      PROVE  EnvInv'
  <2>1. \A q \in Requests : EnvOK(q)'
    BY <1>4 DEF Crash, Drop, TypeOK, EnvInv, EnvOK, Undeclared, Structured,
                InFlight, Staging, Mirroring, Running, Recovering
  <2>2. UNCHANGED <<store, req, acked>>
    BY <1>4 DEF Crash, disk, ghost
  <2> QED
    BY <1>4, <2>1, <2>2 DEF EnvInv, EnvWritesSurvive
<1>5. ASSUME TypeOK, EnvInv, NEW k \in EnvKeys,
             NEW v \in EnvVals \cup {Absent}, EnvUpdate(k, v)
      PROVE  EnvInv'
  <2>1. store'.exists /\ store'.env = [store.env EXCEPT ![k] = v]
    BY <1>5 DEF EnvUpdate, TypeOK, Stores
  <2>2. acked' = [acked EXCEPT ![k] = v] /\ UNCHANGED <<pc, req, base, saved, cand>>
    BY <1>5 DEF EnvUpdate, local
  <2>3. store.env \in [EnvKeys -> EnvVals \cup {Absent}]
    BY <1>5 DEF TypeOK, Stores
  <2>4. EnvWritesSurvive'
    BY <1>5, <2>1, <2>2, <2>3 DEF EnvInv, EnvWritesSurvive, TypeOK
  <2>5. \A q \in Requests : EnvOK(q)'
    BY <1>5, <2>2 DEF EnvInv, EnvOK, Structured, Undeclared
  <2> QED
    BY <2>1, <2>4, <2>5 DEF EnvInv
<1>6. ASSUME EnvInv, UNCHANGED <<store, pc, req, base, saved, cand, acked>>
      PROVE  EnvInv'
  BY <1>6 DEF EnvInv, EnvOK, EnvWritesSurvive, Structured, Undeclared
<1>7. ASSUME Environment, ~Crash
      PROVE  \/ \E r \in Requests : ReadRevision(r)
             \/ \E k \in EnvKeys, v \in EnvVals \cup {Absent} : EnvUpdate(k, v)
             \/ UNCHANGED <<store, pc, req, base, saved, cand, acked>>
  BY <1>7 DEF Environment, ApplyStructured, SaveConfig, ApplyRaw, SaveRaw,
    ApplyAccess, Cancel, OutsideEdit, RuntimeCrash, RuntimeRespawn,
              disk, local, ghost
<1>8. TypeOK /\ TypeOK' /\ EnvInv /\ [Next]_vars => EnvInv'
  BY <1>2, <1>3, <1>4, <1>5, <1>6, <1>7 DEF Next, vars
<1> QED
  BY <1>1, <1>8, TypeCorrect, PTL DEF Spec

(* A variable that no raw source declares always has the value EnvService  *)
(* last acknowledged, whatever transactions commit, fail, crash or roll    *)
(* back around the write, once config.json exists.                         *)
THEOREM EnvironmentSurvives ==
  ASSUME \A s \in FirstStores : s.exists
  PROVE  Spec => []EnvWritesSurvive
<1>1. EnvInv => EnvWritesSurvive
  BY DEF EnvInv
<1> QED
  BY <1>1, EnvInvariant, PTL
=============================================================================
