----------------------------- MODULE Readiness -----------------------------
(* The runtime stages of an apply against the clock: the adapter restarts   *)
(* Node-RED, probeAdminReady asks it for an answer with bounded retries,    *)
(* and a failure of either is followed by one recovery, the same two steps  *)
(* under a context of its own (service/apply_runtime.go, apply_adapter.go,  *)
(* apply_readiness.go).  ApplyTransaction has what these stages change;     *)
(* here is only how long they take and what they conclude.                  *)
EXTENDS Integers

CONSTANTS
  Attempts,             \* defaultReadinessAttempts
  Timeout,              \* defaultReadinessTimeout, in ticks
  BackoffMin,           \* defaultReadinessBackoffMin
  BackoffMax,           \* defaultReadinessBackoffMax
  RecoveryTimeout,      \* defaultApplyRecoveryTimeout
  DockerRestartTimeout, \* dockerRestartTimeout
  RestartTimes,         \* how long a restart may take
  Opens,                \* ticks from the restart until connections are accepted
  Serves,               \* ticks from then until requests are answered
  Leaves,               \* when the caller of the apply may go away
  Window                \* the boot time that the tunables are chosen for

ASSUME TunablesOK ==
  /\ Attempts \in Nat \ {0} /\ Timeout \in Nat \ {0}
  /\ BackoffMin \in Nat \ {0} /\ BackoffMax \in Nat \ {0}
  /\ RecoveryTimeout \in Nat \ {0} /\ DockerRestartTimeout \in Nat \ {0}
  /\ RestartTimes \subseteq Nat /\ Opens \subseteq Nat /\ Serves \subseteq Nat
  /\ Leaves \subseteq Nat /\ Window \in Nat

VARIABLES
  now,      \* ticks since the restart of the apply was asked for
  adapter,  \* "binary" (the process manager), "systemd" or "docker"
  stage,    \* "apply", or "recover" inside ExecuteRollback
  pc,       \* "restart", "url", "attempt", "backoff", "judge", "done"
  ctx,      \* when the context of the stage is done
  booted,   \* when the last restart ended
  boot,     \* the Node-RED that it started
  attempt,  \* the loop variable of probeAdminReady
  delay,    \* its backoff
  err,      \* what the step under way has returned
  result    \* what applyRuntime returns

vars == <<now, adapter, stage, pc, ctx, booted, boot, attempt, delay, err, result>>

(* A booting Node-RED refuses connections, then accepts them and answers    *)
(* 503 (busy) or nothing yet, then serves.                                  *)
Boots == [opens : Opens, serves : Serves, busy : BOOLEAN]

Earlier(s, t) == IF s < t THEN s ELSE t

Init ==
  /\ now = 0 /\ booted = 0
  /\ adapter \in {"binary", "systemd", "docker"}
  /\ stage = "apply" /\ pc = "restart"
  /\ ctx \in Leaves
  /\ boot \in Boots
  /\ attempt = 0 /\ delay = 0
  /\ err = "none" /\ result = "none"

(* The step returns e at time t; applyRuntime or ExecuteRollback judges it. *)
Returns(e, t) ==
  /\ now' = t
  /\ err' = e
  /\ pc' = "judge"

-----------------------------------------------------------------------------
(* The adapters' Restart.  Every one of them looks at the context first.    *)
RestartRefused ==
  /\ pc = "restart" /\ now >= ctx
  /\ Returns("cancelled", now)
  /\ UNCHANGED <<adapter, stage, ctx, booted, boot, attempt, delay, result>>

(* A restart that was carried out starts a Node-RED; applyRuntime looks at  *)
(* the context again before it probes, ExecuteRollback does not.            *)
Restarted(t) ==
  /\ booted' = t
  /\ boot' \in Boots
  /\ IF stage = "apply" /\ t >= ctx
     THEN Returns("cancelled", t)
     ELSE now' = t /\ pc' = "url" /\ err' = err

(* nativeBinaryAdapter and nativeSystemdAdapter wait for the restart to end *)
(* whatever happens to the context.                                         *)
NativeRestart ==
  /\ pc = "restart" /\ now < ctx /\ adapter # "docker"
  /\ \E d \in RestartTimes : Restarted(now + d)
  /\ UNCHANGED <<adapter, stage, ctx, attempt, delay, result>>

(* dockerTargetAdapter: a context without a deadline is given one.          *)
DockerDeadline ==
  IF stage = "apply" THEN Earlier(ctx, now + DockerRestartTimeout) ELSE ctx

(* dockerTargetAdapter waits for the command or the deadline, whichever is  *)
(* first, and kills the command in the second case.                         *)
DockerRestart ==
  /\ pc = "restart" /\ now < ctx /\ adapter = "docker"
  /\ \E d \in RestartTimes :
       \/ now + d <= DockerDeadline /\ Restarted(now + d)
       \/ /\ now + d >= DockerDeadline
          /\ Returns("restart", DockerDeadline)
          /\ UNCHANGED <<booted, boot>>
  /\ UNCHANGED <<adapter, stage, ctx, attempt, delay, result>>

(* The restart ends in an error: the process does not start, systemctl or   *)
(* docker fails.                                                            *)
RestartFails ==
  /\ pc = "restart" /\ now < ctx
  /\ Returns("restart", now)
  /\ UNCHANGED <<adapter, stage, ctx, booted, boot, attempt, delay, result>>

-----------------------------------------------------------------------------
(* Ready of the managed native adapter reads the port from settings.js each *)
(* time and can fail; the other adapters know their address.                *)
ReadinessURL ==
  /\ pc = "url"
  /\ \/ /\ attempt' = 1 /\ delay' = BackoffMin
        /\ pc' = "attempt"
        /\ UNCHANGED <<now, err>>
     \/ /\ adapter = "binary"
        /\ Returns("url", now)
        /\ UNCHANGED <<attempt, delay>>
  /\ UNCHANGED <<adapter, stage, ctx, booted, boot, result>>

OpensAt  == booted + boot.opens
ServesAt == OpensAt + boot.serves

(* One GET /settings.  A refused connection fails at once; a busy server    *)
(* answers 503; a request that waits is answered when the server serves, or *)
(* is given up at the client's timeout or when the context is done.         *)
Answer ==
  LET patience == Earlier(now + Timeout, ctx)
  IN IF now < OpensAt THEN [e |-> "refused", at |-> now]
     ELSE IF now >= ServesAt THEN [e |-> "alive", at |-> now]
     ELSE IF boot.busy THEN [e |-> "not ready", at |-> now]
     ELSE IF ServesAt < patience THEN [e |-> "alive", at |-> ServesAt]
     ELSE [e |-> "timeout", at |-> patience]

(* An error of the connection is tried again; ErrReadinessNotReady, which   *)
(* probeAttempt makes of every other status, ends the loop.                 *)
ProbeAttempt ==
  /\ pc = "attempt"
  /\ \/ now >= ctx /\ Returns("cancelled", now)
     \/ /\ now < ctx
        /\ IF Answer.e \in {"alive", "not ready"}
           THEN Returns(Answer.e, Answer.at)
           ELSE now' = Answer.at /\ err' = Answer.e /\ pc' = "backoff"
  /\ UNCHANGED <<adapter, stage, ctx, booted, boot, attempt, delay, result>>

Doubled == Earlier(2 * delay, BackoffMax)

(* The wait that a cancelled context does not cut short: a mutant.          *)
BackoffSleeps ==
  /\ pc = "backoff"
  /\ IF attempt = Attempts
     THEN Returns("not ready", now) /\ UNCHANGED <<attempt, delay>>
     ELSE /\ now' = now + delay /\ err' = "none"
          /\ attempt' = attempt + 1 /\ delay' = Doubled
          /\ pc' = "attempt"
  /\ UNCHANGED <<adapter, stage, ctx, booted, boot, result>>

(* The wait that does not grow: a mutant.                                   *)
BackoffConstant ==
  /\ pc = "backoff"
  /\ IF attempt = Attempts
     THEN Returns("not ready", now) /\ UNCHANGED <<attempt, delay>>
     ELSE \/ /\ now + delay <= ctx
             /\ now' = now + delay /\ err' = "none"
             /\ attempt' = attempt + 1 /\ delay' = delay
             /\ pc' = "attempt"
          \/ /\ now + delay >= ctx
             /\ Returns("cancelled", ctx)
             /\ UNCHANGED <<attempt, delay>>
  /\ UNCHANGED <<adapter, stage, ctx, booted, boot, result>>

(* No wait after the last attempt; otherwise the timer or the context,      *)
(* whichever is first.                                                      *)
Backoff ==
  /\ pc = "backoff"
  /\ IF attempt = Attempts
     THEN Returns("not ready", now) /\ UNCHANGED <<attempt, delay>>
     ELSE \/ /\ now + delay <= ctx
             /\ now' = now + delay /\ err' = "none"
             /\ attempt' = attempt + 1 /\ delay' = Doubled
             /\ pc' = "attempt"
          \/ /\ now + delay >= ctx
             /\ Returns("cancelled", ctx)
             /\ UNCHANGED <<attempt, delay>>
  /\ UNCHANGED <<adapter, stage, ctx, booted, boot, result>>

-----------------------------------------------------------------------------
(* applyRuntime: an answer counts only while the caller is there.           *)
Accepted == err = "alive" /\ (stage = "recover" \/ now < ctx)

Succeed ==
  /\ pc = "judge" /\ Accepted
  /\ pc' = "done"
  /\ result' = IF stage = "apply" THEN "ok" ELSE "recovered"
  /\ UNCHANGED <<now, adapter, stage, ctx, booted, boot, attempt, delay, err>>

(* The recovery has a context of its own, since the caller's may be done.   *)
Recover ==
  /\ pc = "judge" /\ ~Accepted /\ stage = "apply"
  /\ stage' = "recover"
  /\ ctx' = now + RecoveryTimeout
  /\ pc' = "restart"
  /\ err' = "none"
  /\ UNCHANGED <<now, adapter, booted, boot, attempt, delay, result>>

(* ExecuteRollback returns the error; applyRuntime joins it to the cause.   *)
RecoveryFails ==
  /\ pc = "judge" /\ ~Accepted /\ stage = "recover"
  /\ pc' = "done"
  /\ result' = "unrecovered"
  /\ UNCHANGED <<now, adapter, stage, ctx, booted, boot, attempt, delay, err>>

Next ==
  \/ RestartRefused \/ NativeRestart \/ DockerRestart \/ RestartFails
  \/ ReadinessURL \/ ProbeAttempt \/ Backoff
  \/ Succeed \/ Recover \/ RecoveryFails

Spec == Init /\ [][Next]_vars

-----------------------------------------------------------------------------
(* Every wait of the two stages but a native restart ends with the context  *)
(* of the stage: past it the clock stands where the restart left it, so a   *)
(* caller that goes away, or the recovery's 30 seconds, are never overrun   *)
(* by the probe (apply_readiness.go: the request's context, the select of   *)
(* the backoff).                                                            *)
OnlyTheRestartOverruns == now <= ctx \/ now = booted

(* A Node-RED that boots within the time the tunables were chosen for       *)
(* ("Node-RED boot on a Pi takes ~3s; a docker-compose restart adds another *)
(* 1-2s", apply_readiness.go) and answers no 5xx meanwhile is never taken   *)
(* for dead: the attempts and backoffs add up to that time.                 *)
SlowBootIsAwaited ==
  err = "not ready" /\ ~boot.busy => boot.opens + boot.serves > Window

-----------------------------------------------------------------------------
(* What the header of apply_readiness.go says and the code does not do:     *)
(* README.                                                                  *)
RetriesUntilDeadline ==
  stage = "recover" /\ err = "not ready" => now >= ctx
=============================================================================
