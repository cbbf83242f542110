---------------------------- MODULE ProcessManager ----------------------------
(***************************************************************************)
(* The supervisor of the Node-RED child process (process_linux.go).  HTTP  *)
(* handlers, the apply adapter and the environment handler call Start,     *)
(* Stop and Restart from their own goroutines; every child has a goroutine *)
(* (waitForExit) that reaps it and restarts it after a backoff.  pm.mu     *)
(* makes each critical section one action; everything between two critical *)
(* sections interleaves.                                                   *)
(***************************************************************************)
EXTENDS Integers, Sequences

CONSTANTS
  Callers,     \* goroutines that call the process manager, once each
  Ops,         \* the calls they may make
  MaxRestarts, \* pm.maxRestarts
  HistoryCap,  \* capacity of the restart tracker
  Faults,      \* the calls that may fail: see AllFaults
  Outsiders,   \* may a Node-RED run that this manager did not start
  MaxLives,    \* bound: children of one behaviour
  MaxCrashes,  \* bound: exits that nobody asked for
  MaxBoots,    \* bound: starts of NRCC itself
  FirstCount   \* what restart_count.json holds at first

(* StartNodeRed, StopNodeRed, RestartNodeRed, an environment update and a  *)
(* backup restore.                                                         *)
AllOps == {"start", "stop", "restart", "env", "restore"}

(* "exec": a start fails; "save" and "load": restart_count.json is not     *)
(* written, is not read.                                                   *)
AllFaults == {"exec", "save", "load"}

ASSUME ConstantsOK ==
  /\ Ops \subseteq AllOps
  /\ MaxRestarts \in Nat /\ HistoryCap \in Nat \ {0}
  /\ Faults \subseteq AllFaults
  /\ Outsiders \in BOOLEAN
  /\ MaxLives \in Nat /\ MaxCrashes \in Nat /\ MaxBoots \in Nat
  /\ FirstCount \in Nat

Lives == 1..MaxLives
NoCmd == 0

VARIABLES
  up,           \* NRCC runs
  cmd,          \* pm.currentCmd: the child, NoCmd = nil
  running,      \* pm.running
  external,     \* pm.externalMode
  restartCount, \* pm.restartCount
  cumulative,   \* pm.cumulativeRestarts
  persisted,    \* restart_count.json
  history,      \* pm.tracker: the attempts recorded, oldest first
  lives,        \* children started so far
  child,        \* each child process: none, alive, gone
  signal,       \* the signal Stop has sent to each child
  stopCh,       \* stopCh of each child is closed
  doneCh,       \* doneCh of each child is closed
  waiter,       \* the phase of each child's waitForExit
  seen,         \* the restartCount each waitForExit has read
  pc,           \* the phase of each caller
  op,           \* the call it makes
  target,       \* the child its Stop has captured
  result,       \* how its call ended
  was,          \* wasRunning of withManagedNodeRedStopped
  envLock,      \* EnvHandler.mu is held
  outsider,     \* a Node-RED that this manager did not start has the port
  crashes,      \* exits that nobody asked for, so far
  boots,        \* starts of NRCC so far
  restarted     \* history variable: automatic restarts since the installation

state   == <<cmd, running, external>>
counts  == <<restartCount, cumulative, persisted, history, restarted>>
process == <<lives, child, signal, stopCh, doneCh, waiter, seen>>
calls   == <<pc, op, target, result, was, envLock>>
world   == <<up, outsider, crashes, boots>>
vars    == <<state, counts, process, calls, world>>

May(fault) == fault \in Faults

Init ==
  /\ up = FALSE /\ cmd = NoCmd /\ running = FALSE /\ external = FALSE
  /\ restartCount = 0 /\ cumulative = 0 /\ persisted = FirstCount
  /\ history = <<>> /\ restarted = FirstCount
  /\ lives = 0
  /\ child = [l \in Lives |-> "none"]
  /\ signal = [l \in Lives |-> "none"]
  /\ stopCh = [l \in Lives |-> FALSE]
  /\ doneCh = [l \in Lives |-> FALSE]
  /\ waiter = [l \in Lives |-> "none"]
  /\ seen = [l \in Lives |-> 0]
  /\ pc = [c \in Callers |-> "idle"]
  /\ op \in [Callers -> Ops]
  /\ target = [c \in Callers |-> NoCmd]
  /\ result = [c \in Callers |-> "none"]
  /\ was = [c \in Callers |-> FALSE]
  /\ envLock = FALSE
  /\ outsider \in {FALSE, Outsiders}
  /\ crashes = 0 /\ boots = 0

-----------------------------------------------------------------------------
(* startLocked: its outcomes, with pm.mu held.  w is waiter as the caller  *)
(* of startLocked leaves it.                                               *)

(* While the manager is not running anything, only an outsider or an       *)
(* orphan of an earlier NRCC, once it listens, can hold the port.          *)
Orphan       == \E l \in Lives : child[l] = "alive"
PortIsFree   == ~outsider
PortIsTaken  == outsider \/ Orphan

(* Mutant: a start that does not look at running.                          *)
SpawnAnyway(w) ==
  /\ PortIsFree /\ lives < MaxLives
  /\ lives' = lives + 1
  /\ cmd' = lives + 1
  /\ running' = TRUE /\ external' = FALSE
  /\ child' = [child EXCEPT ![lives + 1] = "alive"]
  /\ waiter' = [w EXCEPT ![lives + 1] = "wait"]
  /\ UNCHANGED <<signal, stopCh, doneCh, seen>>

(* The child process is started with fresh channels and a waitForExit.     *)
Spawn(w) ==
  /\ ~running /\ PortIsFree
  /\ lives < MaxLives
  /\ lives' = lives + 1
  /\ cmd' = lives + 1
  /\ running' = TRUE /\ external' = FALSE
  /\ child' = [child EXCEPT ![lives + 1] = "alive"]
  /\ waiter' = [w EXCEPT ![lives + 1] = "wait"]
  /\ UNCHANGED <<signal, stopCh, doneCh, seen>>

(* The port is taken: attach, with no command to wait for.                 *)
Attach(w) ==
  /\ ~running /\ PortIsTaken
  /\ running' = TRUE /\ external' = TRUE
  /\ waiter' = w
  /\ UNCHANGED <<cmd, lives, child, signal, stopCh, doneCh, seen>>

(* The runtime contract is invalid (before the port is looked at), or      *)
(* settings.js or the executable is not usable (after it).                 *)
StartFails(w) ==
  /\ ~running /\ May("exec")
  /\ external' \in {external, FALSE}
  /\ waiter' = w
  /\ UNCHANGED <<cmd, running, lives, child, signal, stopCh, doneCh, seen>>

AlreadyRunning(w) ==
  /\ running
  /\ waiter' = w
  /\ UNCHANGED <<state, lives, child, signal, stopCh, doneCh, seen>>

(* The error of a second start reads currentCmd.Process.Pid.               *)
NilDereference == running /\ cmd = NoCmd

-----------------------------------------------------------------------------
(* Calls.                                                                  *)

Goto(c, phase) == pc' = [pc EXCEPT ![c] = phase]

(* A call ends.  Deferred unlocks run even when it panics, and the HTTP    *)
(* recoverer keeps NRCC alive.                                             *)
Return(c, how) ==
  /\ Goto(c, "done")
  /\ result' = [result EXCEPT ![c] = how]
  /\ envLock' = (envLock /\ op[c] # "env")

GoOn(c, phase) == Goto(c, phase) /\ UNCHANGED <<result, envLock>>

Entry(o) == CASE o = "start"   -> "start"
              [] o = "restore" -> "stop"
              [] OTHER         -> "mode"

Call(c) ==
  /\ up /\ pc[c] = "idle"
  /\ op[c] = "env" => ~envLock
  /\ Goto(c, Entry(op[c]))
  /\ was' = [was EXCEPT ![c] = op[c] = "restore"]
  /\ envLock' = (envLock \/ op[c] = "env")
  /\ UNCHANGED <<state, counts, process, op, target, result, world>>

(* IsExternalMode: StopNodeRed, RestartNodeRed and the environment handler *)
(* refuse an external Node-RED.                                            *)
CheckMode(c) ==
  /\ up /\ pc[c] = "mode"
  /\ IF external THEN Return(c, "error")
                 ELSE GoOn(c, IF op[c] = "env" THEN "status" ELSE "stop")
  /\ UNCHANGED <<state, counts, process, op, target, was, world>>

Start(c) ==
  /\ up /\ pc[c] = "start"
  /\ \/ Spawn(waiter) /\ restartCount' = 0 /\ Return(c, "ok")
     \/ Attach(waiter) /\ Return(c, "ok") /\ UNCHANGED restartCount
     \/ StartFails(waiter) /\ Return(c, "error") /\ UNCHANGED restartCount
     \/ /\ AlreadyRunning(waiter)
        /\ Return(c, IF NilDereference THEN "panic" ELSE "error")
        /\ UNCHANGED restartCount
  /\ UNCHANGED <<cumulative, persisted, history, restarted, op, target, was,
                 world>>

(* After Stop: the rest of the call it is part of.                         *)
Stopped(c) ==
  CASE op[c] = "restart"            -> GoOn(c, "start")
    [] op[c] \in {"env", "restore"} -> GoOn(c, "change")
    [] OTHER                        -> Return(c, "ok")

(* Mutant: the process is signalled with stopCh still open.                *)
StopWithoutIntent(c) ==
  /\ up /\ pc[c] = "stop"
  /\ IF ~running \/ cmd = NoCmd
       THEN Stopped(c) /\ UNCHANGED target
       ELSE GoOn(c, "signal") /\ target' = [target EXCEPT ![c] = cmd]
  /\ UNCHANGED <<state, counts, process, op, was, world>>

(* Stop under pm.mu: nothing to stop, or the child is captured.  An        *)
(* external Node-RED has no currentCmd, so the first test returns for it.  *)
Stop(c) ==
  /\ up /\ pc[c] = "stop"
  /\ IF ~running \/ cmd = NoCmd
       THEN Stopped(c) /\ UNCHANGED target
       ELSE GoOn(c, "close") /\ target' = [target EXCEPT ![c] = cmd]
  /\ UNCHANGED <<state, counts, process, op, was, world>>

(* close(stopCh): closing a closed channel panics.                         *)
CloseStopCh(c) ==
  /\ up /\ pc[c] = "close"
  /\ IF stopCh[target[c]]
       THEN Return(c, "panic") /\ UNCHANGED stopCh
       ELSE GoOn(c, "signal") /\ stopCh' = [stopCh EXCEPT ![target[c]] = TRUE]
  /\ UNCHANGED <<state, counts, lives, child, signal, doneCh, waiter, seen, op,
                 target, was, world>>

Signal(c, sig) == signal' = [signal EXCEPT ![target[c]] =
                     IF child[target[c]] = "alive" THEN sig ELSE @]

SendTerm(c) ==
  /\ up /\ pc[c] = "signal"
  /\ Signal(c, "term")
  /\ Goto(c, "await")
  /\ UNCHANGED <<state, counts, lives, child, stopCh, doneCh, waiter, seen, op,
                 target, result, was, envLock, world>>

(* The select on doneCh and the five second timer.                         *)
AwaitDone(c) ==
  /\ up /\ pc[c] \in {"await", "killed"}
  /\ doneCh[target[c]]
  /\ Stopped(c)
  /\ UNCHANGED <<state, counts, process, op, target, was, world>>

(* Mutant: after the timeout Stop returns without the second wait.         *)
TimeoutReturns(c) ==
  /\ up /\ pc[c] = "await"
  /\ ~doneCh[target[c]]
  /\ Signal(c, "kill")
  /\ Stopped(c)
  /\ UNCHANGED <<state, counts, lives, child, stopCh, doneCh, waiter, seen, op,
                 target, was, world>>

(* Mutant: after the timeout Stop waits, but kills nothing.                *)
TimeoutWithoutKill(c) ==
  /\ up /\ pc[c] = "await"
  /\ ~doneCh[target[c]]
  /\ Goto(c, "killed")
  /\ UNCHANGED <<state, counts, process, op, target, result, was, envLock,
                 world>>

AwaitTimeout(c) ==
  /\ up /\ pc[c] = "await"
  /\ ~doneCh[target[c]]
  /\ Signal(c, "kill")
  /\ Goto(c, "killed")
  /\ UNCHANGED <<state, counts, lives, child, stopCh, doneCh, waiter, seen, op,
                 target, result, was, envLock, world>>

(* withManagedNodeRedStopped: the status decides whether Node-RED is       *)
(* stopped for the update and started after it.                            *)
EnvStatus(c) ==
  /\ up /\ pc[c] = "status"
  /\ was' = [was EXCEPT ![c] = running /\ cmd # NoCmd]
  /\ Goto(c, IF was'[c] THEN "stop" ELSE "change")
  /\ UNCHANGED <<state, counts, process, op, target, result, envLock, world>>

(* The files of Node-RED are written; then it starts again, whether or not *)
(* the change succeeded.                                                   *)
Change(c) ==
  /\ up /\ pc[c] = "change"
  /\ IF was[c] THEN GoOn(c, "start") ELSE Return(c, "ok")
  /\ UNCHANGED <<state, counts, process, op, target, was, world>>

-----------------------------------------------------------------------------
(* waitForExit.                                                            *)

WaiterAt(l, phase) == [waiter EXCEPT ![l] = phase]

(* cmd.Wait has returned; the state is cleared under pm.mu.                *)
Reap(l) ==
  /\ up /\ waiter[l] = "wait" /\ child[l] = "gone"
  /\ running' = FALSE /\ cmd' = NoCmd
  /\ seen' = [seen EXCEPT ![l] = restartCount]
  /\ waiter' = WaiterAt(l, "close")
  /\ UNCHANGED <<external, counts, lives, child, signal, stopCh, doneCh, calls,
                 world>>

CloseDoneCh(l) ==
  /\ up /\ waiter[l] = "close"
  /\ doneCh' = [doneCh EXCEPT ![l] = TRUE]
  /\ waiter' = WaiterAt(l, "check")
  /\ UNCHANGED <<state, counts, lives, child, signal, stopCh, seen, calls,
                 world>>

(* Mutant: the ring keeps one event too many.                              *)
PushTooMany(h, e) ==
  IF Len(h) <= HistoryCap THEN Append(h, e) ELSE Append(Tail(h), e)

(* restartTracker.push: the oldest event is dropped when the ring is full. *)
Push(h, e) == IF Len(h) < HistoryCap THEN Append(h, e) ELSE Append(Tail(h), e)

(* Mutant: the last attempt is not made.                                   *)
GiveUpEarly(l) ==
  /\ up /\ waiter[l] = "check"
  /\ IF stopCh[l]
       THEN waiter' = WaiterAt(l, "over") /\ UNCHANGED history
       ELSE /\ history' = Push(history, seen[l] + 1)
            /\ waiter' = WaiterAt(l, IF seen[l] + 1 >= MaxRestarts
                                       THEN "gaveup" ELSE "sleep")
  /\ UNCHANGED <<state, restartCount, cumulative, persisted, restarted, lives,
                 child, signal, stopCh, doneCh, seen, calls, world>>

(* An intentional stop ends here; a crash is recorded and, below the       *)
(* limit, sleeps out its backoff.                                          *)
CheckStopCh(l) ==
  /\ up /\ waiter[l] = "check"
  /\ IF stopCh[l]
       THEN waiter' = WaiterAt(l, "over") /\ UNCHANGED history
       ELSE /\ history' = Push(history, seen[l] + 1)
            /\ waiter' = WaiterAt(l, IF seen[l] >= MaxRestarts THEN "gaveup"
                                                               ELSE "sleep")
  /\ UNCHANGED <<state, restartCount, cumulative, persisted, restarted, lives,
                 child, signal, stopCh, doneCh, seen, calls, world>>

(* NRCC is gone, with its goroutines and what it kept in memory; its       *)
(* child, if any, stays as an orphan.                                      *)
Die ==
  /\ up' = FALSE
  /\ cmd' = NoCmd /\ running' = FALSE /\ external' = FALSE
  /\ restartCount' = 0 /\ cumulative' = 0 /\ history' = <<>>
  /\ waiter' = [l \in Lives |-> "none"]
  /\ pc' = [c \in Callers |-> IF pc[c] = "idle" THEN "idle" ELSE "done"]
  /\ result' = [c \in Callers |-> IF pc[c] \in {"idle", "done"}
                                    THEN result[c] ELSE "lost"]
  /\ envLock' = FALSE
  /\ UNCHANGED <<restarted, lives, child, signal, stopCh, doneCh, seen, op,
                 target, was, outsider, crashes, boots>>

(* restartStore.Save, best effort.                                         *)
Save(n) == persisted' = n \/ (May("save") /\ UNCHANGED persisted)

(* The end of the backoff: both counters go up and the second is saved,    *)
(* then the process is started.  A panic here is in no handler: it ends    *)
(* NRCC.                                                                   *)
Wake(l) ==
  /\ up /\ waiter[l] = "sleep"
  /\ Save(cumulative + 1)
  /\ \/ NilDereference /\ Die
     \/ /\ restartCount' = restartCount + 1 /\ cumulative' = cumulative + 1
        /\ \/ /\ Spawn(WaiterAt(l, "over"))
              /\ restarted' = restarted + 1
           \/ /\ \/ Attach(WaiterAt(l, "over"))
                 \/ StartFails(WaiterAt(l, "over"))
                 \/ AlreadyRunning(WaiterAt(l, "over")) /\ ~NilDereference
              /\ UNCHANGED restarted
        /\ UNCHANGED <<history, calls, world>>

-----------------------------------------------------------------------------
(* NRCC and the world around it.                                           *)

(* Mutant: a new NRCC counts from zero.                                    *)
LoadNothing == {0}

(* restartStore.Load: an error counts as zero.                             *)
Load == {persisted} \cup {n \in {0} : May("load")}

(* main: NewProcessManager, then Start before the server listens.          *)
Boot ==
  /\ ~up /\ boots < MaxBoots
  /\ up' = TRUE /\ boots' = boots + 1
  /\ cumulative' \in Load
  /\ Spawn(waiter) \/ Attach(waiter) \/ StartFails(waiter)
  /\ UNCHANGED <<restartCount, persisted, history, restarted, calls, outsider,
                 crashes>>

(* NRCC is killed, or exits after its last Stop.                           *)
Crash == up /\ boots < MaxBoots /\ Die /\ UNCHANGED persisted

(* A child exits by itself, or as it was told to.                          *)
ChildExit(l) ==
  /\ child[l] = "alive"
  /\ signal[l] = "none" => crashes < MaxCrashes
  /\ crashes' = IF signal[l] = "none" THEN crashes + 1 ELSE crashes
  /\ child' = [child EXCEPT ![l] = "gone"]
  /\ UNCHANGED <<state, counts, lives, signal, stopCh, doneCh, waiter, seen,
                 calls, up, outsider, boots>>

(* Somebody else starts or stops a Node-RED on the same port.              *)
OutsiderMoves ==
  /\ Outsiders /\ ~Orphan
  /\ outsider' = ~outsider
  /\ UNCHANGED <<state, counts, process, calls, up, crashes, boots>>

CallerStep(c) ==
  \/ CheckMode(c) \/ Start(c) \/ Stop(c) \/ CloseStopCh(c) \/ SendTerm(c)
  \/ AwaitDone(c) \/ AwaitTimeout(c) \/ EnvStatus(c) \/ Change(c)

WaiterStep(l) == Reap(l) \/ CloseDoneCh(l) \/ CheckStopCh(l) \/ Wake(l)

Next ==
  \/ Boot \/ Crash \/ OutsiderMoves
  \/ \E c \in Callers : Call(c) \/ CallerStep(c)
  \/ \E l \in Lives : WaiterStep(l) \/ ChildExit(l)

Spec == Init /\ [][Next]_vars

(* Goroutines are scheduled, timers fire and SIGKILL ends a process; no    *)
(* one has to call, to crash or to obey SIGTERM.                           *)
Fairness ==
  /\ \A c \in Callers : WF_vars(CallerStep(c))
  /\ \A l \in Lives : WF_vars(WaiterStep(l))
  /\ \A l \in Lives : WF_vars(signal[l] = "kill" /\ ChildExit(l))

FairSpec == Spec /\ Fairness

-----------------------------------------------------------------------------
(* Properties.                                                             *)

(* Every field stays within its Go type, and the restart history within    *)
(* the capacity of the ring.                                               *)
TypeOK ==
  /\ up \in BOOLEAN /\ running \in BOOLEAN /\ external \in BOOLEAN
  /\ cmd \in 0..MaxLives /\ lives \in 0..MaxLives
  /\ restartCount \in Nat /\ cumulative \in Nat /\ persisted \in Nat
  /\ history \in Seq(Nat) /\ Len(history) <= HistoryCap
  /\ restarted \in Nat
  /\ child \in [Lives -> {"none", "alive", "gone"}]
  /\ signal \in [Lives -> {"none", "term", "kill"}]
  /\ stopCh \in [Lives -> BOOLEAN] /\ doneCh \in [Lives -> BOOLEAN]
  /\ waiter \in [Lives -> {"none", "wait", "close", "check", "sleep", "over",
                           "gaveup"}]
  /\ seen \in [Lives -> Nat]
  /\ pc \in [Callers -> {"idle", "mode", "status", "start", "stop", "close",
                         "signal", "await", "killed", "change", "done"}]
  /\ op \in [Callers -> AllOps]
  /\ target \in [Callers -> 0..MaxLives]
  /\ result \in [Callers -> {"none", "ok", "error", "panic", "lost"}]
  /\ was \in [Callers -> BOOLEAN]
  /\ envLock \in BOOLEAN /\ outsider \in BOOLEAN
  /\ crashes \in Nat /\ boots \in Nat

(* NRCC never supervises two Node-RED processes and never loses one: a     *)
(* child that runs under a live NRCC is currentCmd, is what running        *)
(* reports, and has a waitForExit; an orphan of a dead NRCC is not.        *)
OneChild ==
  /\ \A l \in Lives : waiter[l] = "wait" <=> cmd = l
  /\ running <=> (cmd # NoCmd \/ external)
  /\ ~(external /\ cmd # NoCmd)

(* When Stop has returned to the code that called it, the process it       *)
(* captured has exited and has been reaped, whatever signal that took.     *)
StopWaitsForExit ==
  \A c \in Callers :
    (pc[c] \in {"change", "start", "done"} /\ target[c] # NoCmd
       /\ result[c] \notin {"panic", "lost"})
      => child[target[c]] = "gone" /\ waiter[target[c]] # "wait"

(* A process that Stop has signalled is never the reason for an automatic  *)
(* restart: its waitForExit sees stopCh closed.                            *)
SignalledIsNotACrash ==
  \A l \in Lives : signal[l] # "none" => waiter[l] \notin {"sleep", "gaveup"}

(* The count on disk never goes down, whatever NRCC crashes or reads       *)
(* (restart_tracker.go: a monotonic integer that survives restarts).       *)
DurableCountIsMonotone == [][persisted' >= persisted]_vars

(* Every call of the process manager returns.                              *)
CallsReturn ==
  \A c \in Callers : pc[c] \notin {"idle", "done"} ~> pc[c] = "done"

(* A crash below the limit is followed by a running Node-RED, unless NRCC  *)
(* itself goes down or a Stop that was already under way claims the exit.  *)
CrashIsRecovered ==
  \A l \in Lives :
    (waiter[l] = "check" /\ ~stopCh[l] /\ seen[l] < MaxRestarts)
      ~> (running \/ ~up \/ stopCh[l])

-----------------------------------------------------------------------------
(* What comments of the code say and the code does not always do: README.  *)

(* Stop stops Node-RED: nobody calls anything else, so it stays down.      *)
StopIsFinal ==
  ((\A c \in Callers : op[c] = "stop") /\ \E c \in Callers : result[c] = "ok")
    => cmd = NoCmd

(* Start returns an error when Node-RED is already running.                *)
StartReports == \A c \in Callers : op[c] = "start" => result[c] # "panic"

(* Stop returns.                                                           *)
StopReports == \A c \in Callers : op[c] = "stop" => result[c] # "panic"

(* Stop detaches from an external Node-RED.                                *)
StopDetaches == [][\A c \in Callers : Stop(c) /\ external => ~external']_vars

(* Files of Node-RED are changed only while it is down.                    *)
ChangesWhileStopped == \A c \in Callers : pc[c] = "change" => cmd = NoCmd

(* The lifetime count is the number of automatic restarts.                 *)
CountsRestarts == up => cumulative = restarted
=============================================================================
