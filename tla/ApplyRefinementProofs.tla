------------------------ MODULE ApplyRefinementProofs ------------------------
(* ApplyTransaction implements SettingsRegister, and between transactions  *)
(* the mirror agrees with the source: for every set of requests, fields,   *)
(* variables and payloads, and every fault but a rename that took place    *)
(* and is reported as failed.                                              *)
EXTENDS ApplyRefinement, ApplyTransactionProofs

-----------------------------------------------------------------------------
(* Before it is called a request has read no revision.                     *)
UnreadOK(r) == pc[r] = "idle" => req[r].expected = NoFile
UnreadInv == \A r \in Requests : UnreadOK(r)

(* A request reads its revision once, when it leaves idle.                 *)
LEMMA UnreadInvariant ==
  /\ Init => UnreadInv
  /\ TypeOK /\ SlotInv /\ UnreadInv /\ [Next]_vars => UnreadInv'
<1>1. Init => UnreadInv
  BY DEF Init, UnreadInv, UnreadOK
<1>2. ASSUME TypeOK, SlotInv, UnreadInv, NEW r \in Requests, Step(r)
      PROVE  UnreadInv'
  <2>1. CASE Acquire(r) \/ Release(r)
    BY <1>2, <2>1 DEF Acquire, Release, Goto, TypeOK, UnreadInv, UnreadOK, local
  <2>2. CASE ~Acquire(r) /\ ~Release(r)
    BY <1>2, <2>2, HolderStep
    DEF UnreadInv, UnreadOK, InFlight, Staging, Mirroring, Running, Recovering
  <2> QED
    BY <2>1, <2>2
<1>3. ASSUME TypeOK, UnreadInv, NEW r \in Requests, ReadRevision(r)
      PROVE  UnreadInv'
  BY <1>3 DEF ReadRevision, Goto, TypeOK, UnreadInv, UnreadOK
<1>4. ASSUME TypeOK, UnreadInv, Crash
      PROVE  UnreadInv'
  BY <1>4 DEF Crash, TypeOK, UnreadInv, UnreadOK
<1>5. ASSUME UnreadInv, UNCHANGED <<pc, req>>
      PROVE  UnreadInv'
  BY <1>5 DEF UnreadInv, UnreadOK
<1>6. ASSUME Environment, ~Crash
      PROVE  (\E r \in Requests : ReadRevision(r)) \/ UNCHANGED <<pc, req>>
  BY <1>6 DEF Environment, ApplyStructured, SaveConfig, ApplyRaw, SaveRaw,
    ApplyAccess, Cancel, EnvUpdate, OutsideEdit, RuntimeCrash, RuntimeRespawn,
    local
<1> QED
  BY <1>1, <1>2, <1>3, <1>4, <1>5, <1>6 DEF Next, vars

-----------------------------------------------------------------------------
(* The refinement.                                                         *)

(* What the refinement needs to know of a state.                           *)
RegisterInv ==
  TypeOK /\ SlotInv /\ SourceInv /\ ResultInv /\ AuditInv /\ UnreadInv

(* The stage of the register in each phase of its owner.                   *)
LEMMA StageValues ==
  ASSUME NEW r \in Requests
  PROVE  /\ pc[r] \in Staging \cup {"unwind"} => StageOf(r) = "clean"
         /\ pc[r] \in Mirroring \cup Running \cup {"rollback"}
              => StageOf(r) = "written"
         /\ pc[r] \in {"restoreState", "rerestart", "reready"}
              => StageOf(r) = "undone"
         /\ pc[r] = "release" => StageOf(r) = "settled"
  BY DEF StageOf, Staging, Mirroring, Running, Recovering

(* The same after a step.                                                  *)
LEMMA NextStageValues ==
  ASSUME NEW r \in Requests
  PROVE  /\ pc'[r] \in Staging \cup {"unwind"} => StageOf(r)' = "clean"
         /\ pc'[r] \in Mirroring \cup Running \cup {"rollback"}
              => StageOf(r)' = "written"
         /\ pc'[r] \in {"restoreState", "rerestart", "reready"}
              => StageOf(r)' = "undone"
         /\ pc'[r] = "release" => StageOf(r)' = "settled"
  BY DEF StageOf, Staging, Mirroring, Running, Recovering

(* What one step of the owner may be to a reader of the register.          *)
Hidden(r) ==
  LiveSource' = LiveSource /\ StageOf(r)' = StageOf(r) /\ outcome' = outcome

Writes(r) ==
  /\ StageOf(r) = "clean" /\ StageOf(r)' = "written"
  /\ req[r].expected = LiveSource /\ outcome' = outcome

Undoes(r) ==
  /\ StageOf(r) = "written" /\ StageOf(r)' = "undone"
  /\ LiveSource' = Shown(before[r].settings) /\ outcome' = outcome

Settles(r, result) ==
  /\ StageOf(r) \in {"clean", "written", "undone"} /\ StageOf(r)' = "settled"
  /\ outcome' = [outcome EXCEPT ![r] = result]
  /\ LiveSource' \in {LiveSource, Shown(before[r].settings)}
  /\ \/ result = "ok" /\ StageOf(r) = "written" /\ LiveSource' = LiveSource
     \/ result = "rejected" /\ LiveSource' = Shown(before[r].settings)
     \/ /\ result = "recovered" /\ StageOf(r) = "undone"
        /\ LiveSource' = Shown(before[r].settings)
     \/ result = "unrecovered"

OwnerStep(r) ==
  \/ Hidden(r) \/ Writes(r) \/ Undoes(r)
  \/ \E result \in {"ok", "rejected", "recovered", "unrecovered"} :
       Settles(r, result)

(* A file that is put back is shown as it was found.                       *)
LEMMA ShownSource ==
  /\ LiveSource = Shown(settings)
  /\ LiveSource' = Shown(settings')
  BY DEF LiveSource, Shown

(* Every step between Acquire and Release is one of these.                 *)
LEMMA OwnerSteps ==
  ASSUME RegisterInv, NEW r \in Requests, "sync" \notin Faults, Step(r),
         ~Acquire(r), ~Release(r)
  PROVE  OwnerStep(r)
<1>0. /\ TypeOK /\ SourceOK(r) /\ ResultOK(r)
      /\ LiveSource = Shown(settings) /\ LiveSource' = Shown(settings')
  BY ShownSource DEF RegisterInv, SourceInv, ResultInv
<1>s. /\ pc[r] \in Staging \cup {"unwind"} => StageOf(r) = "clean"
      /\ pc[r] \in Mirroring \cup Running \cup {"rollback"}
           => StageOf(r) = "written"
      /\ pc[r] \in {"restoreState", "rerestart", "reready"}
           => StageOf(r) = "undone"
  BY StageValues
<1>t. /\ pc'[r] \in Staging \cup {"unwind"} => StageOf(r)' = "clean"
      /\ pc'[r] \in Mirroring \cup Running \cup {"rollback"}
           => StageOf(r)' = "written"
      /\ pc'[r] \in {"restoreState", "rerestart", "reready"}
           => StageOf(r)' = "undone"
      /\ pc'[r] = "release" => StageOf(r)' = "settled"
  BY NextStageValues
<1> USE DEF TypeOK, SourceOK, ResultOK, OwnerStep, Hidden, Writes, Undoes,
            Settles, Goto, Return, Reject, RecoveryFailed, May, Revision,
            Staging, Mirroring, Running, Recovering, disk, local
<1>1. CASE CheckRevisionPrecondition(r)
  BY <1>0, <1>s, <1>t, <1>1 DEF CheckRevisionPrecondition
<1>2. CASE ResolveAdapter(r)
  BY <1>0, <1>s, <1>t, <1>2 DEF ResolveAdapter
<1>3. CASE PatchBase(r)
  BY <1>0, <1>s, <1>t, <1>3 DEF PatchBase
<1>4. CASE CommitStructured(r)
  BY <1>0, <1>s, <1>t, <1>4 DEF CommitStructured
<1>5. CASE RenderCandidate(r)
  BY <1>0, <1>s, <1>t, <1>5 DEF RenderCandidate
<1>6. CASE Unwind(r)
  BY <1>0, <1>s, <1>t, <1>6 DEF Unwind
<1>7. CASE ApplyValidate(r)
  BY <1>0, <1>s, <1>t, <1>7 DEF ApplyValidate
<1>8. CASE ApplyBackup(r)
  BY <1>0, <1>s, <1>t, <1>8 DEF ApplyBackup, WriteSettingsSnapshot
<1>9. CASE AtomicWriteSettings(r)
  BY <1>0, <1>s, <1>t, <1>9 DEF AtomicWriteSettings
<1>10. CASE ReconcileStat(r)
  BY <1>0, <1>s, <1>t, <1>10 DEF ReconcileStat
<1>11. CASE ReconcileUpdate(r)
  BY <1>0, <1>s, <1>t, <1>11 DEF ReconcileUpdate
<1>12. CASE RestoreSourceBytes(r)
  BY <1>0, <1>s, <1>t, <1>12 DEF RestoreSourceBytes
<1>13. CASE Restart(r)
  BY <1>0, <1>s, <1>t, <1>13 DEF Restart
<1>14. CASE Ready(r)
  BY <1>0, <1>s, <1>t, <1>14 DEF Ready
<1>15. CASE ExecuteRollback(r)
  BY <1>0, <1>s, <1>t, <1>15 DEF ExecuteRollback
<1>16. CASE RestoreState(r)
  BY <1>0, <1>s, <1>t, <1>16 DEF RestoreState
<1>17. CASE RecoveryRestart(r)
  BY <1>0, <1>s, <1>t, <1>17 DEF RecoveryRestart
<1>18. CASE RecoveryReady(r)
  BY <1>0, <1>s, <1>t, <1>18 DEF RecoveryReady
<1> QED
  BY <1>1, <1>2, <1>3, <1>4, <1>5, <1>6, <1>7, <1>8, <1>9, <1>10, <1>11,
     <1>12, <1>13, <1>14, <1>15, <1>16, <1>17, <1>18 DEF Step

(* The owner's steps are steps of the register.                            *)
LEMMA OwnerRefines ==
  ASSUME RegisterInv, NEW r \in Requests, flight = r, flight' = r,
         UNCHANGED <<req, before>>, OwnerStep(r), TypeOK'
  PROVE  [Register!Next]_(Register!registerVars)
<1>0. r # NoReq
  BY ConstantsOK
<1>1. LiveSource' \in Sources
  <2>1. NoEnv \in [EnvKeys -> EnvVals \cup {Absent}]
    BY DEF NoEnv
  <2>2. RenderSettings(Default, NoEnv, NoFile) \in Sources
    BY <2>1, RenderType, ConstantsOK
  <2> QED
    BY <2>2 DEF LiveSource, TypeOK
<1> USE DEF Register!registerVars, Register!Next
<1>2. CASE Hidden(r)
  BY <1>0, <1>2 DEF Hidden
<1>3. CASE Writes(r)
  <2>1. Register!Write
    BY <1>0, <1>1, <1>3 DEF Writes, Register!Write
  <2> QED
    BY <2>1
<1>4. CASE Undoes(r)
  <2>1. Register!Undo
    BY <1>0, <1>4 DEF Undoes, Register!Undo
  <2> QED
    BY <2>1
<1>5. ASSUME NEW result \in {"ok", "rejected", "recovered", "unrecovered"},
             Settles(r, result)
      PROVE  Register!Settle(result)
  BY <1>0, <1>5 DEF Settles, Register!Settle
<1> QED
  BY <1>2, <1>3, <1>4, <1>5 DEF OwnerStep

(* Taking the slot is Begin or Refuse, giving it back is End.              *)
LEMMA SlotRefines ==
  ASSUME RegisterInv, NEW r \in Requests, Acquire(r) \/ Release(r)
  PROVE  [Register!Next]_(Register!registerVars)
<1>0. TypeOK /\ SlotInv /\ r # NoReq /\ AuditOK(r)
  BY ConstantsOK DEF RegisterInv, AuditInv
<1>1. ASSUME Acquire(r), flight = NoReq
      PROVE  Register!Begin(r)
  <2>1. pc'[r] = "check" /\ before'[r].settings = settings /\ flight' = r
    BY <1>0, <1>1 DEF Acquire, Goto, TypeOK
  <2>2. StageOf(r)' = "clean"
    BY <2>1, NextStageValues DEF Staging
  <2>3. outcome[r] = "none"
    BY <1>0, <1>1 DEF Acquire, AuditOK
  <2>4. LiveSource' = LiveSource /\ req' = req /\ outcome' = outcome
    BY <1>1 DEF Acquire, LiveSource, disk, local
  <2> QED
    BY <1>0, <1>1, <2>1, <2>2, <2>3, <2>4, ShownSource DEF Register!Begin
<1>2. ASSUME Acquire(r), flight # NoReq
      PROVE  Register!Refuse(r)
  <2>1. flight # r /\ flight \in Requests
    BY <1>0, <1>2 DEF Acquire, SlotInv, TypeOK, InFlight, Staging, Mirroring,
                      Running, Recovering
  <2>2. outcome[r] = "none"
    BY <1>0, <1>2 DEF Acquire, AuditOK
  <2>3. /\ LiveSource' = LiveSource /\ req' = req /\ flight' = flight
        /\ before' = before /\ pc'[flight] = pc[flight]
        /\ outcome' = [outcome EXCEPT ![r] = "refused"]
    BY <1>0, <1>2, <2>1 DEF Acquire, Goto, TypeOK, LiveSource, disk, local
  <2>4. StageOf(flight)' = StageOf(flight)
    BY <2>3 DEF StageOf
  <2> QED
    BY <1>0, <1>2, <2>1, <2>2, <2>3, <2>4 DEF Register!Refuse
<1>3. ASSUME Release(r)
      PROVE  Register!End
  <2>1. flight = r /\ flight' = NoReq /\ pc[r] = "release"
    BY <1>0, <1>3 DEF Release, SlotInv, InFlight
  <2>2. StageOf(r) = "settled"
    BY <2>1, StageValues
  <2>3. LiveSource' = LiveSource /\ req' = req /\ outcome' = outcome
    BY <1>3 DEF Release, LiveSource, disk
  <2> QED
    BY <1>0, <2>1, <2>2, <2>3 DEF Register!End
<1> QED
  BY <1>1, <1>2, <1>3 DEF Register!Next

(* A request reads the register.                                           *)
LEMMA ReadRefines ==
  ASSUME RegisterInv, NEW r \in Requests, ReadRevision(r)
  PROVE  Register!ReadSource(r)
<1>1. TypeOK /\ SlotInv /\ req[r].expected = NoFile
  BY DEF RegisterInv, UnreadInv, UnreadOK, ReadRevision
<1>2. /\ LiveSource' = LiveSource /\ flight' = flight /\ before' = before
      /\ outcome' = outcome
  BY DEF ReadRevision, LiveSource, disk
<1>3. ASSUME flight # NoReq
      PROVE  StageOf(flight)' = StageOf(flight)
  <2>1. flight \in Requests /\ flight # r
    BY <1>1, <1>3 DEF ReadRevision, SlotInv, TypeOK, InFlight, Staging,
                      Mirroring, Running, Recovering
  <2>2. pc'[flight] = pc[flight]
    BY <1>1, <2>1 DEF ReadRevision, Goto, TypeOK
  <2> QED
    BY <1>2, <2>2 DEF StageOf
<1>4. [c \in Requests |-> req'[c].expected]
        = [[c \in Requests |-> req[c].expected] EXCEPT ![r] = LiveSource]
  BY <1>1 DEF ReadRevision, Revision, TypeOK, ApplyRequests
<1> QED
  BY <1>1, <1>2, <1>3, <1>4 DEF Register!ReadSource

(* A crash takes the owner and everybody who waits.                        *)
LEMMA CrashRefines ==
  ASSUME RegisterInv, Crash
  PROVE  \E C \in SUBSET Requests : Register!Crash(C)
<1> DEFINE C == {r \in Requests : pc[r] \in InFlight \cup {"open"}}
<1>1. flight \in C /\ flight # NoReq
  BY DEF RegisterInv, TypeOK, SlotInv, Crash
<1>2. LiveSource' = LiveSource /\ req' = req /\ flight' = NoReq
  BY DEF Crash, LiveSource, disk
<1>3. outcome' = [c \in Requests |-> IF c \in C THEN "crashed" ELSE outcome[c]]
  BY DEF Crash
<1>4. Register!Crash(C)
  BY <1>1, <1>2, <1>3 DEF Register!Crash
<1>5. C \in SUBSET Requests
  OBVIOUS
<1> QED
  BY <1>4, <1>5

(* Every step of the transaction is a step of the register or hidden.      *)
LEMMA StepRefines ==
  ASSUME MaxEdits = 0, "sync" \notin Faults, RegisterInv, TypeOK', [Next]_vars
  PROVE  [Register!Next]_(Register!registerVars)
<1>0. TypeOK /\ SlotInv
  BY DEF RegisterInv
<1>1. ASSUME NEW r \in Requests, Step(r)
      PROVE  [Register!Next]_(Register!registerVars)
  <2>1. CASE Acquire(r) \/ Release(r)
    BY <2>1, SlotRefines
  <2>2. CASE ~Acquire(r) /\ ~Release(r)
    <3>1. flight = r /\ flight' = r /\ UNCHANGED <<req, before>>
      BY <1>0, <1>1, <2>2, HolderStep
    <3>2. OwnerStep(r)
      BY <1>1, <2>2, OwnerSteps
    <3> QED
      BY <3>1, <3>2, OwnerRefines
  <2> QED
    BY <2>1, <2>2
<1>2. ASSUME UNCHANGED <<settings, pc, req, flight, before, outcome>>
      PROVE  UNCHANGED Register!registerVars
  BY <1>2 DEF Register!registerVars, LiveSource, StageOf
<1>3. ASSUME Environment
      PROVE  \/ \E r \in Requests : ReadRevision(r)
             \/ Crash
             \/ UNCHANGED <<settings, pc, req, flight, before, outcome>>
  <2>1. ~\E i \in Inputs : OutsideEdit(i.payload)
    BY <1>0 DEF OutsideEdit, TypeOK
  <2> QED
    BY <1>3, <2>1 DEF Environment, ApplyStructured, SaveConfig, ApplyRaw,
      SaveRaw, ApplyAccess, Cancel, EnvUpdate, RuntimeCrash, RuntimeRespawn,
      disk, local
<1>4. ASSUME NEW r \in Requests, ReadRevision(r)
      PROVE  Register!Next
  BY <1>4, ReadRefines DEF Register!Next
<1>5. ASSUME Crash
      PROVE  Register!Next
  BY <1>5, CrashRefines DEF Register!Next
<1>6. CASE UNCHANGED vars
  BY <1>2, <1>6 DEF vars
<1>7. CASE Environment
  BY <1>2, <1>3, <1>4, <1>5, <1>7
<1> QED
  BY <1>1, <1>6, <1>7 DEF Next

(* The pipeline is a register that one request at a time compares and      *)
(* sets: for any requests, payloads, cancellations, crashes and faults     *)
(* other than the fsync after the rename, the writes of Apply and its      *)
(* answers are those of SettingsRegister (apply_coordinator.go, Apply).    *)
THEOREM PipelineIsARegister ==
  ASSUME MaxEdits = 0, "sync" \notin Faults
  PROVE  Spec => ImplementsRegister
<1>1. Init => Register!Init
  <2>1. ASSUME Init
        PROVE  /\ LiveSource \in Sources /\ flight = NoReq
               /\ outcome = [r \in Requests |-> "none"]
               /\ [r \in Requests |-> req[r].expected] = [r \in Requests |-> NoFile]
    <3>1. TypeOK
      BY <2>1, InitType
    <3> QED
      BY <2>1, <3>1, LiveSourceType DEF Init, TypeOK
  <2> QED
    BY <2>1 DEF Register!Init
<1>2. TypeOK /\ TypeOK' /\ SlotInv /\ SourceInv /\ ResultInv /\ AuditInv /\ UnreadInv
        /\ [Next]_vars => [Register!Next]_(Register!registerVars)
  BY StepRefines DEF RegisterInv
<1>3. Init => SlotInv /\ SourceInv /\ ResultInv /\ UnreadInv
  BY SlotInvariant, SourceInvariant, ResultInvariant, UnreadInvariant
<1>4. TypeOK /\ SlotInv /\ SourceInv /\ ResultInv /\ UnreadInv /\ [Next]_vars
        => SlotInv' /\ SourceInv' /\ ResultInv' /\ UnreadInv'
  BY SlotInvariant, SourceInvariant, ResultInvariant, UnreadInvariant
<1> QED
  BY <1>1, <1>2, <1>3, <1>4, TypeCorrect, AuditInvariant, PTL
  DEF Spec, ImplementsRegister, Register!Spec

-----------------------------------------------------------------------------
(* Mirror and source between transactions.                                 *)

(* A source and a configuration agree on every field that both set.        *)
Agree(src, c) ==
  \/ src = NoFile
  \/ \A f \in Fields : \/ src.cfg[f] = Absent
                       \/ c[f] = Zero
                       \/ src.cfg[f] = c[f]

(* No transaction has reported a failed restoration, and none was lost.    *)
Orderly == \A r \in Requests : outcome[r] \notin {"unrecovered", "crashed"}

(* A structured candidate agrees with the configuration it was rendered    *)
(* from, a raw one with the mirror once that has been reconciled; and what *)
(* a transaction would put back agrees.                                    *)
AgreeOK(r) ==
  /\ Structured(r) /\ pc[r] \in {"validate", "revalidate", "backup", "write"}
       => Agree(cand[r], saved[r].comm.cfg)
  /\ pc[r] \in Running \/ Returning(r, "ok")
       => Agree(cand[r], saved[r].comm.cfg)
  /\ pc[r] = "release"
       => outcome[r] \in {"ok", "rejected", "recovered", "unrecovered"}
  /\ pc[r] \in InFlight /\ Orderly
       => Agree(before[r].settings, before[r].store.cfg)

AgreeInv ==
  /\ flight = NoReq /\ Orderly => Agree(settings, store.cfg)
  /\ \A r \in Requests : AgreeOK(r)

(* renderSettings writes every field that the configuration sets.          *)
LEMMA RenderAgrees ==
  ASSUME NEW c, NEW e, NEW live
  PROVE  Agree(RenderSettings(c, e, live), c)
  BY DEF Agree, RenderSettings, ReplaceKey

(* The reconciled mirror has every field that the source declares.         *)
LEMMA ReconcileAgrees ==
  ASSUME NEW existed, NEW cur, NEW src, NEW exported
  PROVE  Agree(src, ReconcileConfigWithSource(existed, cur, src, exported).cfg)
  BY DEF Agree, ReconcileConfigWithSource, MergePatch

(* A bad result is never taken back.                                       *)
LEMMA DisorderStays ==
  ASSUME MaxEdits = 0, "sync" \notin Faults, RegisterInv, [Next]_vars, Orderly'
  PROVE  Orderly
<1>0. TypeOK /\ SlotInv /\ AuditInv
  BY DEF RegisterInv
<1>1. ASSUME NEW r \in Requests, Step(r)
      PROVE  Orderly
  <2>1. CASE Acquire(r)
    BY <1>0, <1>1, <2>1 DEF Acquire, Orderly, AuditInv, AuditOK, TypeOK
  <2>2. CASE Release(r)
    BY <2>2 DEF Release, Orderly
  <2>3. CASE ~Acquire(r) /\ ~Release(r)
    <3>1. OwnerStep(r) /\ pc[r] \in InFlight
      BY <1>0, <1>1, <2>3, OwnerSteps, HolderStep
    <3>2. ASSUME NEW result, Settles(r, result)
          PROVE  Orderly
      <4>1. pc[r] \notin {"release", "done"}
        BY <3>1, <3>2, StageValues DEF Settles, InFlight, Staging, Mirroring,
                                       Running, Recovering
      <4>2. outcome[r] = "none"
        BY <1>0, <4>1 DEF AuditInv, AuditOK
      <4> QED
        BY <1>0, <3>2, <4>2 DEF Settles, Orderly, TypeOK
    <3>3. CASE outcome' = outcome
      BY <3>3 DEF Orderly
    <3> QED
      BY <3>1, <3>2, <3>3 DEF OwnerStep, Hidden, Writes, Undoes
  <2> QED
    BY <2>1, <2>2, <2>3
<1>2. CASE Crash
  BY <1>0, <1>2 DEF Crash, Orderly, TypeOK
<1>3. CASE outcome' = outcome
  BY <1>3 DEF Orderly
<1>4. ASSUME Environment, ~Crash
      PROVE  outcome' = outcome
  BY <1>4 DEF Environment, ApplyStructured, SaveConfig, ApplyRaw, SaveRaw,
    ApplyAccess, ReadRevision, Cancel, EnvUpdate, OutsideEdit, RuntimeCrash,
    RuntimeRespawn
<1> QED
  BY <1>1, <1>2, <1>3, <1>4 DEF Next, vars

(* A step between Acquire and Release keeps what its request knows.        *)
LEMMA AgreeStep ==
  ASSUME TypeOK, SlotInv, NEW r \in Requests, AgreeOK(r), MirrorOK(r),
         Orderly' => Orderly, Step(r), ~Acquire(r), ~Release(r)
  PROVE  AgreeOK(r)'
<1>0. UNCHANGED <<req, before>> /\ pc[r] \in InFlight
  BY HolderStep
<1>b. pc'[r] \in InFlight /\ Orderly'
        => Agree(before[r].settings, before[r].store.cfg)'
  BY <1>0 DEF AgreeOK, Agree
<1>c. AgreeOK(r)' <=>
        /\ Structured(r)' /\ pc'[r] \in {"validate", "revalidate", "backup", "write"}
             => Agree(cand'[r], saved'[r].comm.cfg)
        /\ pc'[r] \in Running \/ Returning(r, "ok")'
             => Agree(cand'[r], saved'[r].comm.cfg)
        /\ pc'[r] = "release"
             => outcome'[r] \in {"ok", "rejected", "recovered", "unrecovered"}
  BY <1>b DEF AgreeOK, Agree, Running
<1> USE DEF TypeOK, Goto, Return, Reject, RecoveryFailed, Structured,
            Returning, Running, disk, local
<1>1. CASE CheckRevisionPrecondition(r)
  BY <1>0, <1>c, <1>1 DEF CheckRevisionPrecondition, AgreeOK, MirrorOK, Mirroring
<1>2. CASE ResolveAdapter(r)
  BY <1>0, <1>c, <1>2 DEF ResolveAdapter, AgreeOK, MirrorOK, Mirroring
<1>3. CASE PatchBase(r)
  BY <1>0, <1>c, <1>3 DEF PatchBase, AgreeOK, MirrorOK, Mirroring
<1>4. CASE CommitStructured(r)
  BY <1>0, <1>c, <1>4 DEF CommitStructured, AgreeOK, MirrorOK, Mirroring
<1>5. CASE RenderCandidate(r)
  <2>1. cand'[r] = RenderSettings(saved[r].comm.cfg, saved[r].comm.env, settings)
    BY <1>5 DEF RenderCandidate
  <2>2. Agree(cand'[r], saved[r].comm.cfg)
    BY <2>1, RenderAgrees
  <2> QED
    BY <1>0, <1>c, <1>5, <2>2 DEF RenderCandidate
<1>6. CASE Unwind(r)
  BY <1>0, <1>c, <1>6 DEF Unwind, AgreeOK, MirrorOK, Mirroring
<1>7. CASE ApplyValidate(r)
  BY <1>0, <1>c, <1>7 DEF ApplyValidate, AgreeOK, MirrorOK, Mirroring
<1>8. CASE ApplyBackup(r)
  BY <1>0, <1>c, <1>8 DEF ApplyBackup, WriteSettingsSnapshot, AgreeOK, MirrorOK, Mirroring
<1>9. CASE AtomicWriteSettings(r)
  BY <1>0, <1>c, <1>9 DEF AtomicWriteSettings, AgreeOK, MirrorOK, Mirroring
<1>10. CASE ReconcileStat(r)
  BY <1>0, <1>c, <1>10 DEF ReconcileStat, AgreeOK, MirrorOK, Mirroring
<1>11. CASE ReconcileUpdate(r)
  <2>1. CASE Goto(r, "undo")
    BY <1>0, <1>c, <1>11, <2>1 DEF ReconcileUpdate
  <2>2. ASSUME NEW exported \in BOOLEAN,
               store' = ReconcileConfigWithSource(base[r].has, store, cand[r],
                                                  exported),
               saved' = [saved EXCEPT ![r] = [prev |-> store, comm |-> store']],
               Goto(r, "restart")
        PROVE  AgreeOK(r)'
    <3>1. Agree(cand[r], store'.cfg)
      BY <2>2, ReconcileAgrees
    <3>2. saved'[r].comm = store' /\ cand' = cand /\ outcome' = outcome
      BY <1>11, <2>2 DEF ReconcileUpdate
    <3> QED
      BY <1>0, <1>c, <2>2, <3>1, <3>2
  <2> QED
    BY <1>11, <2>1, <2>2 DEF ReconcileUpdate
<1>12. CASE RestoreSourceBytes(r)
  BY <1>0, <1>c, <1>12 DEF RestoreSourceBytes, AgreeOK, MirrorOK, Mirroring
<1>13. CASE Restart(r)
  BY <1>0, <1>c, <1>13 DEF Restart, AgreeOK, MirrorOK, Mirroring
<1>14. CASE Ready(r)
  BY <1>0, <1>c, <1>14 DEF Ready, AgreeOK, MirrorOK, Mirroring
<1>15. CASE ExecuteRollback(r)
  BY <1>0, <1>c, <1>15 DEF ExecuteRollback, AgreeOK, MirrorOK, Mirroring
<1>16. CASE RestoreState(r)
  BY <1>0, <1>c, <1>16 DEF RestoreState, AgreeOK, MirrorOK, Mirroring
<1>17. CASE RecoveryRestart(r)
  BY <1>0, <1>c, <1>17 DEF RecoveryRestart, AgreeOK, MirrorOK, Mirroring
<1>18. CASE RecoveryReady(r)
  BY <1>0, <1>c, <1>18 DEF RecoveryReady, AgreeOK, MirrorOK, Mirroring
<1> QED
  BY <1>1, <1>2, <1>3, <1>4, <1>5, <1>6, <1>7, <1>8, <1>9, <1>10, <1>11,
     <1>12, <1>13, <1>14, <1>15, <1>16, <1>17, <1>18 DEF Step

(* A request that is not in flight has nothing to agree with.              *)
LEMMA AgreeOKElsewhere ==
  /\ \A r \in Requests : pc[r] \notin InFlight => AgreeOK(r)
  /\ \A r \in Requests : pc'[r] \notin InFlight => AgreeOK(r)'
  BY DEF AgreeOK, Returning, InFlight, Staging, Running

(* Agreement survives every transaction that ends in order.                *)
LEMMA AgreeInvariant ==
  ASSUME MaxEdits = 0, "sync" \notin Faults,
         \A src \in FirstSources, s \in FirstStores : Agree(src, s.cfg)
  PROVE  /\ Init => AgreeInv
         /\ RegisterInv /\ MirrorInv /\ AgreeInv /\ [Next]_vars => AgreeInv'
<1>1. Init => AgreeInv
  <2> SUFFICES ASSUME Init PROVE AgreeInv
    OBVIOUS
  <2>1. Agree(settings, store.cfg)
    BY DEF Init
  <2>2. \A r \in Requests : pc[r] \notin InFlight
    BY DEF Init, InFlight, Staging, Mirroring, Running, Recovering
  <2> QED
    BY <2>1, <2>2, AgreeOKElsewhere DEF AgreeInv
<1> SUFFICES ASSUME RegisterInv, MirrorInv, AgreeInv, [Next]_vars
             PROVE  AgreeInv'
  BY <1>1
<1>0. TypeOK /\ SlotInv /\ ResultInv /\ (Orderly' => Orderly)
  BY DisorderStays DEF RegisterInv
<1>2. ASSUME NEW r \in Requests, Acquire(r)
      PROVE  AgreeInv'
  <2>1. CASE flight = NoReq
    <3>1. flight' = r /\ r # NoReq
      BY <1>2, <2>1, ConstantsOK DEF Acquire
    <3>2. \A q \in Requests \ {r} : pc'[q] \notin InFlight
      BY <1>0, <1>2, <2>1, ConstantsOK DEF Acquire, Goto, TypeOK, SlotInv
    <3>3. /\ pc'[r] = "check" /\ before'[r].settings = settings
          /\ before'[r].store = store
      BY <1>0, <1>2, <2>1 DEF Acquire, Goto, TypeOK
    <3>4. Orderly' => Agree(settings, store.cfg)
      BY <1>0, <2>1 DEF AgreeInv
    <3>5. AgreeOK(r)'
      BY <3>3, <3>4 DEF AgreeOK, Agree, Returning, Running
    <3> QED
      BY <3>1, <3>2, <3>5, AgreeOKElsewhere DEF AgreeInv
  <2>2. CASE flight # NoReq
    <3>1. /\ flight' = flight /\ pc'[r] \notin InFlight
          /\ UNCHANGED <<disk, before, cand, saved, req>>
          /\ \A q \in Requests \ {r} : pc'[q] = pc[q] /\ outcome'[q] = outcome[q]
      BY <1>0, <1>2, <2>2
      DEF Acquire, Goto, TypeOK, InFlight, Staging, Mirroring, Running,
          Recovering, local
    <3>2. \A q \in Requests \ {r} : AgreeOK(q)'
      BY <1>0, <3>1 DEF AgreeInv, AgreeOK, Agree, Returning, Structured
    <3> QED
      BY <2>2, <3>1, <3>2, AgreeOKElsewhere DEF AgreeInv
  <2> QED
    BY <2>1, <2>2
<1>3. ASSUME NEW r \in Requests, Release(r)
      PROVE  AgreeInv'
  <2>1. \A q \in Requests : pc'[q] \notin InFlight
    BY <1>0, <1>3, ConstantsOK
    DEF Release, Goto, TypeOK, SlotInv, InFlight, Staging, Mirroring,
        Running, Recovering
  <2>2. pc[r] = "release" /\ AgreeOK(r) /\ MirrorOK(r) /\ ResultOK(r)
    BY <1>0, <1>3 DEF Release, AgreeInv, MirrorInv, ResultInv
  <2>3. ASSUME Orderly'
        PROVE  Agree(settings, store.cfg)
    <3>1. Orderly
      BY <1>0, <2>3
    <3>2. outcome[r] \in {"ok", "rejected", "recovered"}
      BY <2>2, <3>1 DEF AgreeOK, Orderly
    <3>3. Agree(before[r].settings, before[r].store.cfg)
      BY <2>2, <3>1 DEF AgreeOK, InFlight
    <3>4. CASE outcome[r] = "ok"
      BY <2>2, <3>4 DEF AgreeOK, MirrorOK, ResultOK, Returning
    <3>5. CASE outcome[r] \in {"rejected", "recovered"}
      BY <2>2, <3>3, <3>5 DEF MirrorOK, ResultOK, Returning, Untouched
    <3> QED
      BY <3>2, <3>4, <3>5
  <2>4. UNCHANGED <<settings, store>>
    BY <1>3 DEF Release, disk
  <2> QED
    BY <2>1, <2>3, <2>4, AgreeOKElsewhere DEF AgreeInv, Agree
<1>4. ASSUME NEW r \in Requests, Step(r), ~Acquire(r), ~Release(r)
      PROVE  AgreeInv'
  <2>1. flight' = r /\ r # NoReq
    BY <1>0, <1>4, HolderStep, ConstantsOK
  <2>2. AgreeOK(r)'
    BY <1>0, <1>4, AgreeStep DEF AgreeInv, MirrorInv
  <2>3. \A q \in Requests \ {r} : pc'[q] \notin InFlight
    BY <1>0, <1>4, HolderStep DEF SlotInv
  <2> QED
    BY <2>1, <2>2, <2>3, AgreeOKElsewhere DEF AgreeInv
<1>5. ASSUME NEW r \in Requests, ReadRevision(r)
      PROVE  AgreeInv'
  <2>1. \A q \in Requests : req'[q].kind = req[q].kind
    BY <1>0, <1>5 DEF ReadRevision, TypeOK, ApplyRequests
  <2>2. UNCHANGED <<settings, store, flight, outcome, cand, saved, before>>
    BY <1>5 DEF ReadRevision, disk
  <2>3. \A q \in Requests \ {r} : AgreeOK(q)'
    BY <1>0, <1>5, <2>1, <2>2
    DEF ReadRevision, Goto, TypeOK, AgreeInv, AgreeOK, Agree, Structured,
        Returning
  <2>4. pc'[r] \notin InFlight
    BY <1>0, <1>5 DEF ReadRevision, Goto, TypeOK, InFlight, Staging, Mirroring,
                Running, Recovering
  <2> QED
    BY <1>0, <2>2, <2>3, <2>4, AgreeOKElsewhere DEF AgreeInv, Agree
<1>6. ASSUME Crash
      PROVE  AgreeInv'
  <2>1. \A q \in Requests : pc'[q] \notin InFlight
    BY <1>0, <1>6 DEF Crash, TypeOK, InFlight, Staging, Mirroring, Running,
                Recovering
  <2>2. flight \in Requests /\ outcome'[flight] = "crashed"
    BY <1>0, <1>6 DEF Crash, TypeOK, SlotInv
  <2> QED
    BY <2>1, <2>2, AgreeOKElsewhere DEF AgreeInv, Orderly
<1>7. ASSUME UNCHANGED <<settings, flight, outcome, cand, saved, before, pc, req>>,
             store'.cfg = store.cfg
      PROVE  AgreeInv'
  BY <1>0, <1>7 DEF AgreeInv, AgreeOK, Agree, Structured, Returning
<1>8. ASSUME Environment, ~Crash
      PROVE  \/ \E r \in Requests : ReadRevision(r)
             \/ /\ UNCHANGED <<settings, flight, outcome, cand, saved, before, pc, req>>
                /\ store'.cfg = store.cfg
  <2>1. ~\E i \in Inputs : OutsideEdit(i.payload)
    BY <1>0 DEF OutsideEdit, TypeOK
  <2>2. ASSUME NEW k \in EnvKeys, NEW v \in EnvVals \cup {Absent}, EnvUpdate(k, v)
        PROVE  store'.cfg = store.cfg
    BY <1>0, <2>2 DEF EnvUpdate, TypeOK, Stores
  <2> QED
    BY <1>8, <2>1, <2>2 DEF Environment, ApplyStructured, SaveConfig, ApplyRaw,
      SaveRaw, ApplyAccess, Cancel, EnvUpdate, RuntimeCrash, RuntimeRespawn,
      disk, local
<1> QED
  BY <1>2, <1>3, <1>4, <1>5, <1>6, <1>7, <1>8 DEF Next, vars

(* Between transactions the mirror agrees with the source on every field   *)
(* that both set, when it did so at first: whatever is committed, rejected *)
(* or rolled back, until a transaction reports that it could not restore   *)
(* or NRCC crashes (config_reconcile.go).                                  *)
THEOREM MirrorAgrees ==
  ASSUME MaxEdits = 0, "sync" \notin Faults, \A s \in FirstStores : s.exists,
         \A src \in FirstSources, s \in FirstStores : Agree(src, s.cfg)
  PROVE  Spec => []MirrorAgreesWithSource
<1>1. AgreeInv => MirrorAgreesWithSource
  BY DEF AgreeInv, Agree, Orderly, MirrorAgreesWithSource
<1>2. Init => UnreadInv /\ AgreeInv
  BY UnreadInvariant, AgreeInvariant
<1>3. TransactionInv /\ AuditInv /\ UnreadInv /\ AgreeInv /\ [Next]_vars
        => UnreadInv' /\ AgreeInv'
  BY UnreadInvariant, AgreeInvariant DEF TransactionInv, RegisterInv
<1> QED
  BY <1>1, <1>2, <1>3, TransactionInvariant, AuditInvariant, PTL DEF Spec

=============================================================================
