------------------------ MODULE ProcessManagerProofs ------------------------
(***************************************************************************)
(* What ProcessManager guarantees for any number of callers, children,     *)
(* crashes and starts of NRCC, and any restart limit.                      *)
(***************************************************************************)
EXTENDS ProcessManager, TLAPS

WaiterPhases == {"none", "wait", "close", "check", "sleep", "over", "gaveup"}
Waiters == [Lives -> WaiterPhases]

USE DEF NoCmd

-----------------------------------------------------------------------------
(* Type correctness.                                                       *)

(* startLocked keeps the types, whatever waiters its caller leaves.        *)
LEMMA SpawnType ==
  ASSUME TypeOK, NEW w \in Waiters, Spawn(w)
  PROVE  /\ cmd' \in 0..MaxLives /\ lives' \in 0..MaxLives
         /\ running' \in BOOLEAN /\ external' \in BOOLEAN
         /\ child' \in [Lives -> {"none", "alive", "gone"}]
         /\ waiter' \in Waiters
         /\ UNCHANGED <<signal, stopCh, doneCh, seen>>
<1>1. MaxLives \in Nat /\ lives \in 0..MaxLives /\ lives < MaxLives
  BY ConstantsOK DEF TypeOK, Spawn
<1>2. lives + 1 \in Lives /\ lives + 1 \in 0..MaxLives
  BY <1>1 DEF Lives
<1> QED
  BY <1>2 DEF TypeOK, Spawn, Waiters, WaiterPhases

LEMMA NoSpawnType ==
  ASSUME TypeOK, NEW w \in Waiters,
         Attach(w) \/ StartFails(w) \/ AlreadyRunning(w)
  PROVE  /\ running' \in BOOLEAN /\ external' \in BOOLEAN
         /\ waiter' \in Waiters
         /\ UNCHANGED <<cmd, lives, child, signal, stopCh, doneCh, seen>>
  BY DEF TypeOK, Attach, StartFails, AlreadyRunning, state

(* Appending to the restart history keeps its capacity.                    *)
LEMMA PushType ==
  ASSUME NEW h \in Seq(Nat), Len(h) <= HistoryCap, NEW e \in Nat
  PROVE  Push(h, e) \in Seq(Nat) /\ Len(Push(h, e)) <= HistoryCap
  <1>1. Len(h) \in Nat  OBVIOUS
  <1>2. CASE Len(h) < HistoryCap
    BY <1>1, <1>2, ConstantsOK DEF Push
  <1>3. CASE ~(Len(h) < HistoryCap)
    <2>1. Len(h) >= 1  BY <1>1, <1>3, ConstantsOK
    <2>2. Tail(h) \in Seq(Nat) /\ Len(Tail(h)) = Len(h) - 1
      BY <2>1, h # <<>>
    <2> QED BY <1>1, <1>3, <2>1, <2>2, ConstantsOK DEF Push
  <1> QED BY <1>2, <1>3
Phases == {"idle", "mode", "status", "start", "stop", "close", "signal",
           "await", "killed", "change", "done"}
Results == {"none", "ok", "error", "panic", "lost"}

(* Ending a call, or going on with it, keeps the types of its bookkeeping. *)
LEMMA ReturnType ==
  ASSUME TypeOK, NEW c \in Callers, NEW how \in Results, Return(c, how)
  PROVE  /\ pc' \in [Callers -> Phases]
         /\ result' \in [Callers -> Results]
         /\ envLock' \in BOOLEAN
<1>1. pc' \in [Callers -> Phases] /\ result' \in [Callers -> Results]
  BY DEF TypeOK, Return, Goto, Phases, Results
<1>2. envLock' \in BOOLEAN
  BY DEF Return
<1> QED BY <1>1, <1>2

LEMMA GoOnType ==
  ASSUME TypeOK, NEW c \in Callers, NEW phase \in Phases, GoOn(c, phase)
  PROVE  /\ pc' \in [Callers -> Phases]
         /\ result' \in [Callers -> Results]
         /\ envLock' \in BOOLEAN
  BY DEF TypeOK, GoOn, Goto, Phases, Results

(* The rest of a call after its Stop.                                      *)
LEMMA StoppedType ==
  ASSUME TypeOK, NEW c \in Callers, Stopped(c)
  PROVE  /\ pc' \in [Callers -> Phases]
         /\ result' \in [Callers -> Results]
         /\ envLock' \in BOOLEAN
<1>1. GoOn(c, "start") \/ GoOn(c, "change") \/ Return(c, "ok")
  BY DEF TypeOK, Stopped, AllOps
<1> QED BY <1>1, GoOnType, ReturnType DEF Phases, Results

LEMMA InitType == Init => TypeOK
<1> SUFFICES ASSUME Init PROVE TypeOK
  OBVIOUS
<1>1. op \in [Callers -> AllOps]
  BY ConstantsOK DEF Init
<1>2. history \in Seq(Nat) /\ Len(history) <= HistoryCap
  BY ConstantsOK DEF Init
<1>3. outsider \in BOOLEAN
  BY ConstantsOK DEF Init
<1>4. 0 \in 0..MaxLives
  BY ConstantsOK
<1>5. persisted \in Nat /\ restarted \in Nat
  BY ConstantsOK DEF Init
<1> QED BY <1>1, <1>2, <1>3, <1>4, <1>5 DEF Init, TypeOK

(* One step of Next keeps TypeOK.                                          *)
LEMMA NextType ==
  ASSUME TypeOK, [Next]_vars
  PROVE  TypeOK'
<1> USE DEF TypeOK, state, counts, process, calls, world, AllOps
<1>z. 0 \in 0..MaxLives
  BY ConstantsOK
<1>w. waiter \in Waiters /\ \A l \in Lives, p \in WaiterPhases :
                              WaiterAt(l, p) \in Waiters
  BY DEF Waiters, WaiterPhases, WaiterAt
<1>1. ASSUME NEW c \in Callers, Call(c)  PROVE TypeOK'
  BY <1>1 DEF Call, Goto, Entry
<1>2. ASSUME NEW c \in Callers, CheckMode(c)  PROVE TypeOK'
  BY <1>2, ReturnType, GoOnType DEF CheckMode, Phases, Results
<1>3. ASSUME NEW c \in Callers, Start(c)  PROVE TypeOK'
  <2>0. /\ UNCHANGED <<cumulative, persisted, history, restarted, op, target,
                       was, world>>
        /\ restartCount' \in Nat
        /\ Return(c, "ok") \/ Return(c, "error") \/ Return(c, "panic")
    BY <1>3 DEF Start
  <2>1. /\ UNCHANGED <<cumulative, persisted, history, restarted, op, target,
                       was, world>>
        /\ restartCount' \in Nat
        /\ pc' \in [Callers -> Phases]
        /\ result' \in [Callers -> Results]
        /\ envLock' \in BOOLEAN
    BY <2>0, ReturnType DEF Results
  <2>2. Spawn(waiter) \/ Attach(waiter) \/ StartFails(waiter)
          \/ AlreadyRunning(waiter)
    BY <1>3 DEF Start
  <2>3. CASE Spawn(waiter)
    BY <1>w, <2>1, <2>3, SpawnType
    DEF Waiters, WaiterPhases, Phases, Results
  <2>4. CASE Attach(waiter) \/ StartFails(waiter) \/ AlreadyRunning(waiter)
    BY <1>w, <2>1, <2>4, NoSpawnType
    DEF Waiters, WaiterPhases, Phases, Results
  <2> QED BY <2>2, <2>3, <2>4
<1>4. ASSUME NEW c \in Callers, Stop(c)  PROVE TypeOK'
  BY <1>4, StoppedType, GoOnType DEF Stop, Phases, Results
<1>5. ASSUME NEW c \in Callers, CloseStopCh(c)  PROVE TypeOK'
  BY <1>5, ReturnType, GoOnType DEF CloseStopCh, Phases, Results
<1>6. ASSUME NEW c \in Callers, SendTerm(c)  PROVE TypeOK'
  BY <1>6 DEF SendTerm, Signal, Goto
<1>7. ASSUME NEW c \in Callers, AwaitDone(c)  PROVE TypeOK'
  BY <1>7, StoppedType DEF AwaitDone, Phases, Results
<1>8. ASSUME NEW c \in Callers, AwaitTimeout(c)  PROVE TypeOK'
  BY <1>8 DEF AwaitTimeout, Signal, Goto
<1>9. ASSUME NEW c \in Callers, EnvStatus(c)  PROVE TypeOK'
  BY <1>9 DEF EnvStatus, Goto
<1>10. ASSUME NEW c \in Callers, Change(c)  PROVE TypeOK'
  BY <1>10, ReturnType, GoOnType DEF Change, Phases, Results
<1>11. ASSUME NEW l \in Lives, Reap(l)  PROVE TypeOK'
  BY <1>11, <1>z DEF Reap, WaiterAt
<1>12. ASSUME NEW l \in Lives, CloseDoneCh(l)  PROVE TypeOK'
  BY <1>12 DEF CloseDoneCh, WaiterAt
<1>13. ASSUME NEW l \in Lives, CheckStopCh(l)  PROVE TypeOK'
  <2>1. history' \in Seq(Nat) /\ Len(history') <= HistoryCap
    BY <1>13, PushType DEF CheckStopCh
  <2> QED BY <1>13, <2>1 DEF CheckStopCh, WaiterAt
<1>14. ASSUME Die, persisted' \in Nat  PROVE TypeOK'
  <2>1. history' \in Seq(Nat) /\ Len(history') <= HistoryCap
    BY <1>14, ConstantsOK DEF Die
  <2>2. /\ pc' \in [Callers -> Phases] /\ result' \in [Callers -> Results]
    BY <1>14 DEF Die, Phases, Results
  <2>3. waiter' \in Waiters
    BY <1>14 DEF Die, Waiters, WaiterPhases
  <2> QED
    BY <1>14, <1>z, <2>1, <2>2, <2>3
    DEF Die, Phases, Results, Waiters, WaiterPhases
<1>15. ASSUME NEW l \in Lives, Wake(l)  PROVE TypeOK'
  <2>1. persisted' \in Nat
    BY <1>15 DEF Wake, Save
  <2>2. CASE Die
    BY <1>14, <2>1, <2>2
  <2>3. CASE ~Die
    <3> DEFINE w == WaiterAt(l, "over")
    <3>1. w \in Waiters
      BY <1>w DEF WaiterPhases
    <3>a. /\ restartCount' = restartCount + 1 /\ cumulative' = cumulative + 1
          /\ restarted' = restarted + 1 \/ restarted' = restarted
          /\ UNCHANGED <<history, calls, world>>
      BY <1>15, <2>3, Zenon DEF Wake
    <3>2. /\ restartCount' \in Nat /\ cumulative' \in Nat
          /\ restarted' \in Nat
          /\ UNCHANGED <<history, calls, world>>
      BY <3>a
    <3>0. Spawn(w) \/ Attach(w) \/ StartFails(w) \/ AlreadyRunning(w)
      BY <1>15, <2>3, Zenon DEF Wake
    <3> HIDE DEF w
    <3>3. CASE Spawn(w)
      BY <2>1, <3>1, <3>2, <3>3, SpawnType DEF Waiters, WaiterPhases
    <3>4. CASE Attach(w) \/ StartFails(w) \/ AlreadyRunning(w)
      BY <2>1, <3>1, <3>2, <3>4, NoSpawnType DEF Waiters, WaiterPhases
    <3> QED BY <3>0, <3>3, <3>4
  <2> QED BY <2>2, <2>3
<1>16. ASSUME Boot  PROVE TypeOK'
  <2>1. /\ up' \in BOOLEAN /\ boots' \in Nat /\ cumulative' \in Nat
        /\ UNCHANGED <<restartCount, persisted, history, restarted, calls,
                       outsider, crashes>>
        /\ Spawn(waiter) \/ Attach(waiter) \/ StartFails(waiter)
    BY <1>16 DEF Boot, Load
  <2>2. CASE Spawn(waiter)
    BY <1>w, <2>1, <2>2, SpawnType DEF Waiters, WaiterPhases
  <2>3. CASE Attach(waiter) \/ StartFails(waiter)
    BY <1>w, <2>1, <2>3, NoSpawnType DEF Waiters, WaiterPhases
  <2> QED BY <2>1, <2>2, <2>3
<1>17. ASSUME Crash  PROVE TypeOK'
  BY <1>17, <1>14 DEF Crash
<1>18. ASSUME NEW l \in Lives, ChildExit(l)  PROVE TypeOK'
  BY <1>18 DEF ChildExit
<1>19. ASSUME OutsiderMoves  PROVE TypeOK'
  BY <1>19 DEF OutsiderMoves
<1>20. CASE UNCHANGED vars
  BY <1>20 DEF vars
<1> QED
  BY <1>1, <1>2, <1>3, <1>4, <1>5, <1>6, <1>7, <1>8, <1>9, <1>10,
     <1>11, <1>12, <1>13, <1>15, <1>16, <1>17, <1>18, <1>19, <1>20
  DEF Next, CallerStep, WaiterStep

(* Every reachable state of the process manager has its types; in          *)
(* particular the restart history never exceeds its capacity.              *)
THEOREM ProcessTypes == Spec => []TypeOK
<1>1. TypeOK /\ [Next]_vars => TypeOK'
  BY NextType
<1> QED
  BY <1>1, InitType, PTL DEF Spec
-----------------------------------------------------------------------------
(* The inductive invariant: what the children owe to each other, with w    *)
(* for waiter, and what a call in progress knows of the child it captured. *)

OneOf(w) ==
  /\ \A l \in Lives : w[l] = "wait" <=> cmd = l
  /\ running <=> (cmd # NoCmd \/ external)
  /\ ~(external /\ cmd # NoCmd)

(* The children that are still to be started have left no trace.           *)
Fresh(w) ==
  \A l \in Lives : l > lives =>
    child[l] = "none" /\ signal[l] = "none" /\ ~doneCh[l] /\ w[l] = "none"

(* A waitForExit that has seen cmd.Wait return has a dead child, and doneCh *)
(* is closed only after that.                                              *)
Reaped(w) ==
  \A l \in Lives :
    /\ w[l] \notin {"none", "wait"} => child[l] = "gone"
    /\ doneCh[l] => child[l] = "gone" /\ w[l] # "wait"

(* A signalled child is one whose stop was announced.                      *)
Announced(w) ==
  \A l \in Lives :
    signal[l] # "none" => stopCh[l] /\ w[l] \notin {"sleep", "gaveup"}

ChildInv(w) == OneOf(w) /\ Fresh(w) /\ Reaped(w) /\ Announced(w)

CallOK(c) ==
  /\ target[c] <= lives
  /\ pc[c] # "done" => result[c] = "none"
  /\ pc[c] \in {"idle", "mode", "status", "stop"} => target[c] = NoCmd
  /\ pc[c] \in {"close", "signal", "await", "killed"} => target[c] # NoCmd
  /\ pc[c] \in {"signal", "await", "killed"} => stopCh[target[c]]
  /\ (pc[c] \in {"change", "start", "done"} /\ target[c] # NoCmd
        /\ result[c] \notin {"panic", "lost"})
       => child[target[c]] = "gone" /\ waiter[target[c]] # "wait"

CallInv == \A c \in Callers : CallOK(c)

(* What no step undoes for a child that was started.                       *)
Progress ==
  /\ lives' >= lives
  /\ \A l \in Lives : l <= lives =>
       /\ child[l] = "gone" => child'[l] = "gone"
       /\ waiter[l] # "wait" => waiter'[l] # "wait"
       /\ stopCh[l] => stopCh'[l]

LEMMA InitInv == Init => ChildInv(waiter) /\ CallInv
<1> SUFFICES ASSUME Init PROVE ChildInv(waiter) /\ CallInv
  OBVIOUS
<1>1. ChildInv(waiter)
  BY ConstantsOK
  DEF Init, ChildInv, OneOf, Fresh, Reaped, Announced, Lives
<1>2. ASSUME NEW c \in Callers  PROVE CallOK(c)
  <2>1. target[c] = 0 /\ pc[c] = "idle" /\ lives = 0 /\ result[c] = "none"
    BY DEF Init
  <2> QED BY <2>1 DEF CallOK
<1> QED BY <1>1, <1>2 DEF CallInv

(* startLocked: a new child is fresh, and is started only when there is    *)
(* none.                                                                   *)
LEMMA SpawnInv ==
  ASSUME TypeOK, NEW w \in Waiters, ChildInv(w), Spawn(w)
  PROVE  /\ ChildInv(waiter)'
         /\ lives' >= lives /\ stopCh' = stopCh
         /\ \A l \in Lives : l <= lives =>
              child'[l] = child[l] /\ waiter'[l] = w[l]
<1>1. /\ MaxLives \in Nat /\ lives \in Nat /\ lives < MaxLives
      /\ lives' = lives + 1 /\ cmd' = lives + 1
  BY ConstantsOK DEF TypeOK, Spawn
<1>2. lives + 1 \in Lives /\ \A l \in Lives : l \in Nat
  BY <1>1 DEF Lives
<1>3. /\ child' = [child EXCEPT ![lives + 1] = "alive"]
      /\ waiter' = [w EXCEPT ![lives + 1] = "wait"]
      /\ UNCHANGED <<signal, stopCh, doneCh, seen>>
      /\ running' = TRUE /\ external' = FALSE /\ ~running
  BY DEF Spawn
<1>4. \A l \in Lives :
        /\ l # lives + 1 => child'[l] = child[l] /\ waiter'[l] = w[l]
        /\ l = lives + 1 => child'[l] = "alive" /\ waiter'[l] = "wait"
  BY <1>2, <1>3 DEF TypeOK, Waiters
<1>5. \A l \in Lives : w[l] # "wait"
  <2>1. cmd = 0
    BY <1>3 DEF ChildInv, OneOf, TypeOK
  <2>2. \A l \in Lives : l # 0
    BY DEF Lives
  <2> QED BY <2>1, <2>2 DEF ChildInv, OneOf
<1>6. OneOf(waiter)'
  BY <1>1, <1>2, <1>3, <1>4, <1>5 DEF OneOf
<1>7. Fresh(waiter)'
  BY <1>1, <1>2, <1>3, <1>4 DEF ChildInv, Fresh
<1>8. Reaped(waiter)'
  BY <1>1, <1>2, <1>3, <1>4 DEF ChildInv, Fresh, Reaped
<1>9. Announced(waiter)'
  BY <1>1, <1>2, <1>3, <1>4 DEF ChildInv, Fresh, Announced
<1> QED
  BY <1>1, <1>2, <1>3, <1>4, <1>6, <1>7, <1>8, <1>9 DEF ChildInv

LEMMA NoSpawnInv ==
  ASSUME TypeOK, NEW w \in Waiters, ChildInv(w),
         Attach(w) \/ StartFails(w) \/ AlreadyRunning(w)
  PROVE  /\ ChildInv(waiter)'
         /\ waiter' = w /\ UNCHANGED <<lives, child, stopCh>>
<1>1. waiter' = w /\ UNCHANGED <<cmd, lives, child, signal, stopCh, doneCh>>
  BY DEF Attach, StartFails, AlreadyRunning, state
<1>2. OneOf(waiter)'
  <2>1. CASE Attach(w)
    BY <1>1, <2>1 DEF ChildInv, OneOf, Attach, TypeOK
  <2>2. CASE StartFails(w)
    <3>1. ~running /\ running' = running /\ external' \in {external, FALSE}
      BY <2>2 DEF StartFails
    <3>2. ~external /\ cmd = NoCmd
      BY <3>1 DEF ChildInv, OneOf, TypeOK
    <3>3. ~external' /\ ~running'
      <4>1. external = FALSE /\ running = FALSE
        BY <3>1, <3>2 DEF TypeOK
      <4>2. external' = FALSE /\ running' = FALSE
        BY <3>1, <4>1
      <4> QED BY <4>2
    <3> QED BY <1>1, <3>2, <3>3 DEF ChildInv, OneOf
  <2>3. CASE AlreadyRunning(w)
    BY <1>1, <2>3 DEF ChildInv, OneOf, AlreadyRunning, state
  <2> QED BY <2>1, <2>2, <2>3
<1> QED
  BY <1>1, <1>2 DEF ChildInv, Fresh, Reaped, Announced
(* Every step preserves what the children owe to each other, and makes     *)
(* progress, one action at a time.                                         *)
LEMMA NextChild ==
  ASSUME TypeOK, TypeOK', ChildInv(waiter), CallInv, [Next]_vars
  PROVE  ChildInv(waiter)' /\ Progress
<1> USE DEF state, process
<1>a. /\ lives \in Nat /\ MaxLives \in Nat
      /\ \A c \in Callers : target[c] \in 0..MaxLives
  BY ConstantsOK DEF TypeOK
<1>0. /\ lives \in Nat /\ \A l \in Lives : l \in Nat /\ l # 0
      /\ \A c \in Callers : target[c] # 0 => target[c] \in Lives
  BY <1>a DEF Lives
<1>w. waiter \in Waiters
  BY DEF TypeOK, Waiters, WaiterPhases
<1>1. ASSUME UNCHANGED <<state, process>>  PROVE ChildInv(waiter)' /\ Progress
  BY <1>0, <1>1
  DEF ChildInv, OneOf, Fresh, Reaped, Announced, Progress
<1>2. ASSUME NEW c \in Callers, CloseStopCh(c)
      PROVE  ChildInv(waiter)' /\ Progress
  <2>1. /\ UNCHANGED <<state, lives, child, signal, doneCh, waiter>>
        /\ \A l \in Lives : stopCh[l] => stopCh'[l]
    BY <1>2 DEF CloseStopCh, TypeOK
  <2> QED
    BY <1>0, <2>1 DEF ChildInv, OneOf, Fresh, Reaped, Announced, Progress
<1>3. ASSUME NEW c \in Callers, pc[c] \in {"signal", "await"},
             NEW sig \in {"term", "kill"}, Signal(c, sig),
             UNCHANGED <<state, lives, child, stopCh, doneCh, waiter>>
      PROVE  ChildInv(waiter)' /\ Progress
  <2>1. target[c] # 0 /\ target[c] <= lives /\ stopCh[target[c]]
    BY <1>3 DEF CallInv, CallOK
  <2>2. ASSUME NEW l \in Lives
        PROVE  \/ signal'[l] = signal[l]
               \/ l = target[c] /\ child[l] = "alive"
    BY <1>0, <1>3, <2>1 DEF Signal, TypeOK
  <2>3. Fresh(waiter)'
    BY <1>0, <1>3, <2>2 DEF ChildInv, Fresh
  <2>4. Announced(waiter)'
    BY <1>0, <1>3, <2>1, <2>2, Zenon DEF ChildInv, Reaped, Announced
  <2> QED
    BY <1>0, <1>3, <2>3, <2>4 DEF ChildInv, OneOf, Reaped, Progress
<1>4. ASSUME NEW c \in Callers, Start(c)  PROVE ChildInv(waiter)' /\ Progress
  <2>1. Spawn(waiter) \/ Attach(waiter) \/ StartFails(waiter)
          \/ AlreadyRunning(waiter)
    BY <1>4 DEF Start
  <2>2. CASE Spawn(waiter)
    BY <1>0, <1>w, <2>2, SpawnInv DEF Progress
  <2>3. CASE Attach(waiter) \/ StartFails(waiter) \/ AlreadyRunning(waiter)
    BY <1>0, <1>w, <2>3, NoSpawnInv DEF Progress
  <2> QED BY <2>1, <2>2, <2>3
<1>5. ASSUME Boot  PROVE ChildInv(waiter)' /\ Progress
  <2>1. Spawn(waiter) \/ Attach(waiter) \/ StartFails(waiter)
    BY <1>5 DEF Boot
  <2>2. CASE Spawn(waiter)
    BY <1>0, <1>w, <2>2, SpawnInv DEF Progress
  <2>3. CASE Attach(waiter) \/ StartFails(waiter)
    BY <1>0, <1>w, <2>3, NoSpawnInv DEF Progress
  <2> QED BY <2>1, <2>2, <2>3
<1>6. ASSUME NEW l \in Lives, Reap(l)  PROVE ChildInv(waiter)' /\ Progress
  <2>1. /\ waiter[l] = "wait" /\ child[l] = "gone" /\ cmd = l
        /\ waiter' = [waiter EXCEPT ![l] = "close"]
        /\ running' = FALSE /\ cmd' = NoCmd
        /\ UNCHANGED <<external, lives, child, signal, stopCh, doneCh>>
    BY <1>6 DEF Reap, WaiterAt, ChildInv, OneOf
  <2>2. \A m \in Lives : /\ m # l => waiter'[m] = waiter[m]
                         /\ m = l => waiter'[m] = "close"
    BY <2>1 DEF TypeOK
  <2>3. OneOf(waiter)'
    BY <1>0, <2>1, <2>2 DEF ChildInv, OneOf
  <2>4. Fresh(waiter)'
    BY <1>0, <2>1, <2>2 DEF ChildInv, Fresh
  <2>5. Reaped(waiter)' /\ Announced(waiter)'
    BY <2>1, <2>2 DEF ChildInv, Reaped, Announced
  <2> QED BY <1>0, <2>1, <2>2, <2>3, <2>4, <2>5 DEF ChildInv, Progress
<1>7. ASSUME NEW l \in Lives, CloseDoneCh(l)
      PROVE  ChildInv(waiter)' /\ Progress
  <2>1. /\ waiter[l] = "close" /\ child[l] = "gone"
        /\ waiter' = [waiter EXCEPT ![l] = "check"]
        /\ doneCh' = [doneCh EXCEPT ![l] = TRUE]
        /\ UNCHANGED <<state, lives, child, signal, stopCh>>
    BY <1>7 DEF CloseDoneCh, WaiterAt, ChildInv, Reaped
  <2>2. \A m \in Lives :
          /\ m # l => waiter'[m] = waiter[m] /\ doneCh'[m] = doneCh[m]
          /\ m = l => waiter'[m] = "check"
    <3>1. /\ waiter \in [Lives -> WaiterPhases]
          /\ doneCh \in [Lives -> BOOLEAN]
      BY DEF TypeOK, WaiterPhases
    <3> QED BY <2>1, <3>1
  <2>3. OneOf(waiter)' /\ Announced(waiter)'
    BY <2>1, <2>2 DEF ChildInv, OneOf, Announced
  <2>4. Fresh(waiter)'
    BY <1>0, <2>1, <2>2 DEF ChildInv, Fresh
  <2>5. Reaped(waiter)'
    BY <2>1, <2>2 DEF ChildInv, Reaped
  <2> QED BY <1>0, <2>1, <2>2, <2>3, <2>4, <2>5 DEF ChildInv, Progress
<1>8. ASSUME NEW l \in Lives, CheckStopCh(l)
      PROVE  ChildInv(waiter)' /\ Progress
  <2>1. /\ waiter[l] = "check" /\ child[l] = "gone"
        /\ UNCHANGED <<state, lives, child, signal, stopCh, doneCh>>
    BY <1>8 DEF CheckStopCh, ChildInv, Reaped
  <2>2. \A m \in Lives :
          /\ m # l => waiter'[m] = waiter[m]
          /\ m = l => waiter'[m] \in {"over", "gaveup", "sleep"}
          /\ m = l /\ stopCh[l] => waiter'[m] = "over"
    BY <1>8 DEF CheckStopCh, WaiterAt, TypeOK
  <2>3. OneOf(waiter)'
    BY <2>1, <2>2 DEF ChildInv, OneOf
  <2>4. Fresh(waiter)'
    BY <1>0, <2>1, <2>2 DEF ChildInv, Fresh
  <2>5. Reaped(waiter)' /\ Announced(waiter)'
    BY <2>1, <2>2 DEF ChildInv, Reaped, Announced
  <2> QED BY <1>0, <2>1, <2>2, <2>3, <2>4, <2>5 DEF ChildInv, Progress
<1>9. ASSUME Die  PROVE ChildInv(waiter)' /\ Progress
  <2>1. /\ waiter' = [l \in Lives |-> "none"]
        /\ cmd' = NoCmd /\ running' = FALSE /\ external' = FALSE
        /\ UNCHANGED <<lives, child, signal, stopCh, doneCh>>
    BY <1>9 DEF Die
  <2>2. \A l \in Lives : waiter'[l] = "none"
    BY <2>1
  <2> QED
    BY <1>0, <2>1, <2>2
    DEF ChildInv, OneOf, Fresh, Reaped, Announced, Progress
<1>10. ASSUME NEW l \in Lives, Wake(l)  PROVE ChildInv(waiter)' /\ Progress
  <2> DEFINE w == WaiterAt(l, "over")
  <2>1. w \in Waiters
    BY DEF WaiterAt, TypeOK, Waiters, WaiterPhases
  <2>2. /\ \A m \in Lives : /\ m # l => w[m] = waiter[m]
                            /\ m = l => w[m] = "over"
        /\ waiter[l] = "sleep"
    <3>1. waiter[l] = "sleep"
      BY <1>10, Zenon DEF Wake
    <3> QED BY <1>w, <3>1 DEF WaiterAt, Waiters
  <2>3. Die \/ Spawn(w) \/ Attach(w) \/ StartFails(w) \/ AlreadyRunning(w)
    BY <1>10, Zenon DEF Wake
  <2> HIDE DEF w
  <2>4. ChildInv(w)
    <3>1. OneOf(w)
      BY <2>2 DEF ChildInv, OneOf
    <3>2. Fresh(w) /\ Reaped(w) /\ Announced(w)
      BY <1>0, <2>2 DEF ChildInv, Fresh, Reaped, Announced
    <3> QED BY <3>1, <3>2 DEF ChildInv
  <2>5. CASE Die
    BY <1>9, <2>5
  <2>6. CASE Spawn(w)
    BY <1>0, <2>1, <2>2, <2>4, <2>6, SpawnInv DEF Progress
  <2>7. CASE Attach(w) \/ StartFails(w) \/ AlreadyRunning(w)
    BY <1>0, <2>1, <2>2, <2>4, <2>7, NoSpawnInv DEF Progress
  <2> QED BY <2>3, <2>5, <2>6, <2>7
<1>11. ASSUME NEW l \in Lives, ChildExit(l)
       PROVE  ChildInv(waiter)' /\ Progress
  <2>1. /\ child[l] = "alive" /\ child' = [child EXCEPT ![l] = "gone"]
        /\ UNCHANGED <<state, lives, signal, stopCh, doneCh, waiter>>
    BY <1>11 DEF ChildExit
  <2>2. \A m \in Lives : /\ m # l => child'[m] = child[m]
                         /\ m = l => child'[m] = "gone"
    BY <2>1 DEF TypeOK
  <2>3. Fresh(waiter)'
    BY <1>0, <2>1, <2>2 DEF ChildInv, Fresh
  <2>4. Reaped(waiter)'
    BY <2>1, <2>2 DEF ChildInv, Reaped
  <2> QED
    BY <1>0, <2>1, <2>2, <2>3, <2>4
    DEF ChildInv, OneOf, Announced, Progress
<1>12. CASE UNCHANGED vars
  BY <1>1, <1>12 DEF vars
<1>13. ASSUME NEW c \in Callers, SendTerm(c)  PROVE ChildInv(waiter)' /\ Progress
  BY <1>3, <1>13 DEF SendTerm
<1>14. ASSUME NEW c \in Callers, AwaitTimeout(c)
       PROVE  ChildInv(waiter)' /\ Progress
  BY <1>3, <1>14 DEF AwaitTimeout
<1>15. ASSUME NEW c \in Callers,
              Call(c) \/ CheckMode(c) \/ Stop(c) \/ AwaitDone(c)
                \/ EnvStatus(c) \/ Change(c)
       PROVE  ChildInv(waiter)' /\ Progress
  BY <1>1, <1>15 DEF Call, CheckMode, Stop, AwaitDone, EnvStatus, Change
<1>16. CASE Crash \/ OutsiderMoves
  BY <1>1, <1>9, <1>16 DEF Crash, OutsiderMoves
<1> QED
  BY <1>2, <1>4, <1>5, <1>6, <1>7, <1>8, <1>10, <1>11, <1>12, <1>13, <1>14,
     <1>15, <1>16
  DEF Next, CallerStep, WaiterStep
(* A call that a step leaves alone stays good, because every step makes    *)
(* progress.                                                               *)
LEMMA CallKept ==
  ASSUME TypeOK, TypeOK', NEW c \in Callers, CallOK(c), Progress,
         pc'[c] = pc[c], target'[c] = target[c], result'[c] = result[c]
  PROVE  CallOK(c)'
<1>1. /\ lives \in Nat /\ lives' \in Nat /\ MaxLives \in Nat
      /\ target[c] \in 0..MaxLives
  BY ConstantsOK DEF TypeOK
<1>2. target[c] <= lives /\ target'[c] <= lives'
  BY <1>1 DEF Progress, CallOK
<1>3. target[c] # 0 => target[c] \in Lives
  BY <1>1 DEF Lives
<1>4. target[c] # 0 =>
        /\ child[target[c]] = "gone" => child'[target[c]] = "gone"
        /\ waiter[target[c]] # "wait" => waiter'[target[c]] # "wait"
        /\ stopCh[target[c]] => stopCh'[target[c]]
  BY <1>2, <1>3 DEF Progress
<1> QED
  BY <1>2, <1>4 DEF CallOK

(* Every step preserves what the calls in progress know.                   *)
LEMMA NextCall ==
  ASSUME TypeOK, TypeOK', ChildInv(waiter), CallInv, Progress, [Next]_vars
  PROVE  CallInv'
<1> USE DEF state, process, calls, world
<1>0. ASSUME NEW c \in Callers
      PROVE  /\ lives \in Nat /\ lives' \in Nat /\ target[c] \in 0..MaxLives
             /\ cmd \in 0..MaxLives /\ MaxLives \in Nat
             /\ target[c] # 0 => target[c] \in Lives
             /\ CallOK(c)
  <2>1. /\ lives \in Nat /\ lives' \in Nat /\ target[c] \in 0..MaxLives
        /\ cmd \in 0..MaxLives /\ MaxLives \in Nat
    BY ConstantsOK DEF TypeOK
  <2> QED BY <2>1 DEF Lives, CallInv
<1>1. ASSUME NEW c \in Callers, CallOK(c)',
             \A d \in Callers \ {c} : /\ pc'[d] = pc[d]
                                      /\ target'[d] = target[d]
                                      /\ result'[d] = result[d]
      PROVE  CallInv'
  BY <1>0, <1>1, CallKept DEF CallInv
<1>2. ASSUME UNCHANGED calls  PROVE CallInv'
  BY <1>0, <1>2, CallKept DEF CallInv
<1>3. ASSUME NEW c \in Callers, Call(c)  PROVE CallInv'
  <2>1. /\ pc[c] = "idle" /\ pc' = [pc EXCEPT ![c] = Entry(op[c])]
        /\ UNCHANGED <<target, result, lives>>
    BY <1>3 DEF Call, Goto
  <2>2. Entry(op[c]) \in {"start", "stop", "mode"}
    BY DEF Entry, TypeOK, AllOps
  <2>3. target[c] = 0 /\ target[c] <= lives /\ result[c] = "none"
    BY <1>0, <2>1 DEF CallOK
  <2>4. pc'[c] \in {"start", "stop", "mode"}
    BY <2>1, <2>2 DEF TypeOK
  <2>5. CallOK(c)'
    BY <2>1, <2>3, <2>4 DEF CallOK
  <2> QED BY <1>1, <2>1, <2>5 DEF TypeOK
<1>4. ASSUME NEW c \in Callers, NEW how \in Results, Return(c, how)
      PROVE  /\ pc'[c] = "done" /\ result'[c] = how
             /\ \A d \in Callers \ {c} : /\ pc'[d] = pc[d]
                                         /\ result'[d] = result[d]
  BY <1>4 DEF Return, Goto, TypeOK
<1>5. ASSUME NEW c \in Callers, NEW phase \in Phases, GoOn(c, phase)
      PROVE  /\ pc'[c] = phase /\ result'[c] = result[c]
             /\ \A d \in Callers \ {c} : /\ pc'[d] = pc[d]
                                         /\ result'[d] = result[d]
  BY <1>5 DEF GoOn, Goto, TypeOK
<1>6. ASSUME NEW c \in Callers, CheckMode(c)  PROVE CallInv'
  <2>1. /\ pc[c] = "mode" /\ UNCHANGED <<target, lives>>
        /\ \/ Return(c, "error")
           \/ GoOn(c, "status")
           \/ GoOn(c, "stop")
    BY <1>6 DEF CheckMode
  <2>2. target[c] = 0 /\ target[c] <= lives /\ result[c] = "none"
    BY <1>0, <2>1 DEF CallOK
  <2>3. /\ \/ pc'[c] = "done"
           \/ pc'[c] \in {"status", "stop"} /\ result'[c] = result[c]
        /\ \A d \in Callers \ {c} : pc'[d] = pc[d] /\ result'[d] = result[d]
    BY <1>4, <1>5, <2>1 DEF Results, Phases
  <2>4. CallOK(c)'
    BY <2>1, <2>2, <2>3 DEF CallOK
  <2> QED BY <1>1, <2>1, <2>3, <2>4
<1>7. ASSUME NEW c \in Callers, target' = target,
             target[c] # 0 => /\ target[c] <= lives
                              /\ child[target[c]] = "gone"
                              /\ waiter[target[c]] # "wait",
             \/ pc'[c] = "done"
             \/ /\ pc'[c] \in {"start", "change"}
                /\ result'[c] = result[c] /\ pc[c] # "done",
             \A d \in Callers \ {c} : pc'[d] = pc[d] /\ result'[d] = result[d]
      PROVE  CallInv'
  <2>1. target[c] <= lives /\ target'[c] <= lives' /\ target'[c] = target[c]
    BY <1>0, <1>7 DEF Progress, CallOK
  <2>2. target[c] # 0 => /\ child'[target[c]] = "gone"
                         /\ waiter'[target[c]] # "wait"
    BY <1>0, <1>7, <2>1 DEF Progress
  <2>3. pc'[c] # "done" => result'[c] = "none"
    BY <1>0, <1>7 DEF CallOK
  <2>4. pc'[c] \in {"start", "change", "done"}
    BY <1>7
  <2>5. CallOK(c)'
    BY <2>1, <2>2, <2>3, <2>4 DEF CallOK
  <2> QED BY <1>1, <1>7, <2>5
<1>8. ASSUME NEW c \in Callers, Stopped(c)
      PROVE  /\ \/ pc'[c] = "done"
                \/ pc'[c] \in {"start", "change"} /\ result'[c] = result[c]
             /\ \A d \in Callers \ {c} : pc'[d] = pc[d] /\ result'[d] = result[d]
  <2>1. GoOn(c, "start") \/ GoOn(c, "change") \/ Return(c, "ok")
    BY <1>8 DEF Stopped, TypeOK, AllOps
  <2> QED BY <1>4, <1>5, <2>1 DEF Phases, Results
<1>9. ASSUME NEW c \in Callers, Start(c)  PROVE CallInv'
  <2>1. /\ pc[c] = "start" /\ target' = target
        /\ Return(c, "ok") \/ Return(c, "error") \/ Return(c, "panic")
    BY <1>9 DEF Start
  <2>2. /\ target[c] <= lives
        /\ target[c] # 0 => /\ child[target[c]] = "gone"
                            /\ waiter[target[c]] # "wait"
    BY <1>0, <2>1 DEF CallOK
  <2>3. /\ pc'[c] = "done"
        /\ \A d \in Callers \ {c} : pc'[d] = pc[d] /\ result'[d] = result[d]
    BY <1>4, <2>1 DEF Results
  <2> QED BY <1>7, <2>1, <2>2, <2>3
<1>10. ASSUME NEW c \in Callers, Change(c)  PROVE CallInv'
  <2>1. /\ pc[c] = "change" /\ target' = target
        /\ GoOn(c, "start") \/ Return(c, "ok")
    BY <1>10 DEF Change
  <2>2. /\ target[c] <= lives
        /\ target[c] # 0 => /\ child[target[c]] = "gone"
                            /\ waiter[target[c]] # "wait"
    BY <1>0, <2>1 DEF CallOK
  <2>3. /\ \/ pc'[c] = "done"
           \/ pc'[c] = "start" /\ result'[c] = result[c]
        /\ \A d \in Callers \ {c} : pc'[d] = pc[d] /\ result'[d] = result[d]
    BY <1>4, <1>5, <2>1 DEF Results, Phases
  <2> QED BY <1>7, <2>1, <2>2, <2>3
<1>11. ASSUME NEW c \in Callers, AwaitDone(c)  PROVE CallInv'
  <2>1. /\ pc[c] \in {"await", "killed"} /\ target' = target
        /\ doneCh[target[c]] /\ Stopped(c)
    BY <1>11 DEF AwaitDone
  <2>2. target[c] \in Lives /\ target[c] <= lives
    BY <1>0, <2>1 DEF CallOK
  <2>3. child[target[c]] = "gone" /\ waiter[target[c]] # "wait"
    BY <2>1, <2>2 DEF ChildInv, Reaped
  <2> QED BY <1>7, <1>8, <2>1, <2>2, <2>3
<1>12. ASSUME NEW c \in Callers, Stop(c)  PROVE CallInv'
  <2>1. pc[c] = "stop" /\ target[c] = 0 /\ result[c] = "none"
    BY <1>0, <1>12 DEF Stop, CallOK
  <2>2. CASE ~running \/ cmd = NoCmd
    <3>1. Stopped(c) /\ target' = target
      BY <1>12, <2>2 DEF Stop
    <3> QED BY <1>7, <1>8, <2>1, <3>1
  <2>3. CASE ~(~running \/ cmd = NoCmd)
    <3>1. /\ GoOn(c, "close") /\ target' = [target EXCEPT ![c] = cmd]
          /\ UNCHANGED lives
      BY <1>12, <2>3 DEF Stop
    <3>2. /\ pc'[c] = "close" /\ result'[c] = result[c]
          /\ \A d \in Callers \ {c} : pc'[d] = pc[d] /\ result'[d] = result[d]
      BY <1>5, <3>1 DEF Phases
    <3>3. /\ target'[c] = cmd
          /\ \A d \in Callers \ {c} : target'[d] = target[d]
      BY <3>1 DEF TypeOK
    <3>4. cmd \in Lives /\ cmd # 0
      BY <1>0, <2>3 DEF Lives
    <3>5. cmd <= lives
      BY <1>0, <3>4 DEF ChildInv, OneOf, Fresh
    <3>6. CallOK(c)'
      BY <2>1, <3>1, <3>2, <3>3, <3>4, <3>5 DEF CallOK
    <3> QED BY <1>1, <3>2, <3>3, <3>6
  <2> QED BY <2>2, <2>3
<1>13. ASSUME NEW c \in Callers, CloseStopCh(c)  PROVE CallInv'
  <2>1. /\ pc[c] = "close" /\ target' = target /\ lives' = lives
        /\ target[c] # 0 /\ target[c] \in Lives /\ target[c] <= lives
        /\ result[c] = "none"
    BY <1>0, <1>13 DEF CloseStopCh, CallOK
  <2>2. CASE stopCh[target[c]]
    <3>1. Return(c, "panic")
      BY <1>13, <2>2 DEF CloseStopCh
    <3>2. /\ pc'[c] = "done" /\ result'[c] = "panic"
          /\ \A d \in Callers \ {c} : pc'[d] = pc[d] /\ result'[d] = result[d]
      BY <1>4, <3>1 DEF Results
    <3>3. CallOK(c)'
      BY <2>1, <3>2 DEF CallOK
    <3> QED BY <1>1, <2>1, <3>2, <3>3
  <2>3. CASE ~stopCh[target[c]]
    <3>1. GoOn(c, "signal") /\ stopCh' = [stopCh EXCEPT ![target[c]] = TRUE]
      BY <1>13, <2>3 DEF CloseStopCh
    <3>2. /\ pc'[c] = "signal" /\ result'[c] = result[c]
          /\ \A d \in Callers \ {c} : pc'[d] = pc[d] /\ result'[d] = result[d]
      BY <1>5, <3>1 DEF Phases
    <3>3. stopCh'[target[c]]
      BY <2>1, <3>1 DEF TypeOK
    <3>4. CallOK(c)'
      BY <2>1, <3>2, <3>3 DEF CallOK
    <3> QED BY <1>1, <2>1, <3>2, <3>4
  <2> QED BY <2>2, <2>3
<1>14. ASSUME NEW c \in Callers, SendTerm(c) \/ AwaitTimeout(c)
       PROVE  CallInv'
  <2>1. /\ pc[c] \in {"signal", "await"}
        /\ UNCHANGED <<target, result, lives, stopCh>>
        /\ pc'[c] \in {"await", "killed"}
        /\ \A d \in Callers \ {c} : pc'[d] = pc[d]
    BY <1>14 DEF SendTerm, AwaitTimeout, Goto, TypeOK
  <2>2. CallOK(c)'
    BY <1>0, <2>1 DEF CallOK
  <2> QED BY <1>1, <2>1, <2>2
<1>15. ASSUME NEW c \in Callers, EnvStatus(c)  PROVE CallInv'
  <2>1. /\ pc[c] = "status" /\ UNCHANGED <<target, result, lives>>
        /\ pc'[c] \in {"stop", "change"}
        /\ \A d \in Callers \ {c} : pc'[d] = pc[d]
    BY <1>15 DEF EnvStatus, Goto, TypeOK
  <2>2. CallOK(c)'
    BY <1>0, <2>1 DEF CallOK
  <2> QED BY <1>1, <2>1, <2>2
<1>16. ASSUME Die  PROVE CallInv'
  <2> SUFFICES ASSUME NEW c \in Callers PROVE CallOK(c)'
    BY DEF CallInv
  <2>1. /\ UNCHANGED <<target, lives, child>>
        /\ pc'[c] = IF pc[c] = "idle" THEN "idle" ELSE "done"
        /\ result'[c] = IF pc[c] \in {"idle", "done"}
                          THEN result[c] ELSE "lost"
        /\ \A l \in Lives : waiter'[l] = "none"
    BY <1>16 DEF Die
  <2> QED BY <1>0, <2>1 DEF CallOK
<1>17. ASSUME NEW l \in Lives, WaiterStep(l) \/ ChildExit(l)  PROVE CallInv'
  <2>1. Die \/ UNCHANGED calls
    BY <1>17, Zenon
    DEF WaiterStep, Reap, CloseDoneCh, CheckStopCh, Wake, ChildExit, calls
  <2> QED BY <1>2, <1>16, <2>1
<1>18. CASE Boot \/ Crash \/ OutsiderMoves
  <2>1. Die \/ UNCHANGED calls
    BY <1>18, Zenon DEF Boot, Crash, OutsiderMoves, calls
  <2> QED BY <1>2, <1>16, <2>1
<1>19. CASE UNCHANGED vars
  BY <1>2, <1>19 DEF vars
<1> QED
  BY <1>3, <1>6, <1>9, <1>10, <1>11, <1>12, <1>13, <1>14, <1>15, <1>17, <1>18,
     <1>19
  DEF Next, CallerStep

(* The inductive invariant holds in every reachable state.                 *)
ManagerInv == TypeOK /\ ChildInv(waiter) /\ CallInv

LEMMA ManagerCorrect == Spec => []ManagerInv
<1>1. Init => ManagerInv
  BY InitType, InitInv DEF ManagerInv
<1>2. ManagerInv /\ [Next]_vars => ManagerInv'
  BY NextType, NextChild, NextCall DEF ManagerInv
<1> QED
  BY <1>1, <1>2, PTL DEF Spec

(* However callers, crashes, backoffs, outsiders and new starts of NRCC    *)
(* interleave, NRCC supervises at most one child, and currentCmd, running  *)
(* and waitForExit agree on it.                                            *)
THEOREM SupervisesOneChild == Spec => []OneChild
<1>1. ManagerInv => OneChild
  BY DEF ManagerInv, ChildInv, OneOf, OneChild
<1> QED
  BY <1>1, ManagerCorrect, PTL

(* A Stop that has returned has waited for its process, whether SIGTERM or *)
(* SIGKILL ended it, and whoever starts Node-RED again meanwhile.          *)
THEOREM StopIsSynchronous == Spec => []StopWaitsForExit
<1>1. ManagerInv => StopWaitsForExit
  BY DEF ManagerInv, CallInv, CallOK, StopWaitsForExit
<1> QED
  BY <1>1, ManagerCorrect, PTL

(* No process that Stop signalled is restarted as a crash.                 *)
THEOREM StopsAreIntentional == Spec => []SignalledIsNotACrash
<1>1. ManagerInv => SignalledIsNotACrash
  BY DEF ManagerInv, ChildInv, Announced, SignalledIsNotACrash
<1> QED
  BY <1>1, ManagerCorrect, PTL

-----------------------------------------------------------------------------
(* The durable count.                                                      *)

CountInv == up => persisted <= cumulative

LEMMA CountStep ==
  ASSUME "load" \notin Faults, TypeOK, TypeOK', CountInv, [Next]_vars
  PROVE  CountInv' /\ persisted' >= persisted
<1>0. persisted \in Nat /\ cumulative \in Nat /\ persisted' \in Nat
  BY DEF TypeOK
<1>1. ASSUME UNCHANGED <<up, cumulative, persisted>>
      PROVE  CountInv' /\ persisted' >= persisted
  BY <1>0, <1>1 DEF CountInv
<1>2. CASE Boot
  BY <1>0, <1>2 DEF Boot, Load, May, CountInv
<1>3. CASE Crash
  BY <1>0, <1>3 DEF Crash, Die, CountInv
<1>4. ASSUME NEW l \in Lives, Wake(l)
      PROVE  CountInv' /\ persisted' >= persisted
  <2>1. up /\ (persisted' = cumulative + 1 \/ persisted' = persisted)
    BY <1>4, Zenon DEF Wake, Save
  <2>2. ~up' \/ cumulative' = cumulative + 1
    BY <1>4, Zenon DEF Wake, Die
  <2> QED BY <1>0, <2>1, <2>2 DEF CountInv
<1>5. ASSUME NEW l \in Lives,
             Reap(l) \/ CloseDoneCh(l) \/ CheckStopCh(l) \/ ChildExit(l)
      PROVE  CountInv' /\ persisted' >= persisted
  BY <1>1, <1>5
  DEF Reap, CloseDoneCh, CheckStopCh, ChildExit, counts, world
<1>6. ASSUME NEW c \in Callers, Call(c) \/ CallerStep(c)
      PROVE  CountInv' /\ persisted' >= persisted
  BY <1>1, <1>6
  DEF Call, CallerStep, CheckMode, Start, Stop, CloseStopCh, SendTerm,
      AwaitDone, AwaitTimeout, EnvStatus, Change, counts, world
<1>7. CASE OutsiderMoves \/ UNCHANGED vars
  BY <1>1, <1>7 DEF OutsiderMoves, vars, counts, world
<1> QED
  BY <1>2, <1>3, <1>4, <1>5, <1>6, <1>7 DEF Next, WaiterStep

(* While restart_count.json can be read at every start of NRCC, the count  *)
(* in it never goes down, even when saves fail and NRCC dies in between.   *)
THEOREM CountIsDurable ==
  ASSUME "load" \notin Faults
  PROVE  Spec => DurableCountIsMonotone
<1>1. Init => CountInv
  BY DEF Init, CountInv
<1>2. TypeOK /\ TypeOK' /\ CountInv /\ [Next]_vars
        => CountInv' /\ (persisted' >= persisted)
  BY CountStep
<1>3. TypeOK /\ TypeOK' /\ CountInv /\ [Next]_vars
        => [persisted' >= persisted]_vars
  BY <1>2
<1> QED
  BY <1>1, <1>2, <1>3, ProcessTypes, PTL DEF Spec, DurableCountIsMonotone
=============================================================================
