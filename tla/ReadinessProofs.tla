-------------------------- MODULE ReadinessProofs --------------------------
(* Readiness for every restart time, boot and caller: the waits end with    *)
(* their context, and the backoffs of the code add up to 25 times the       *)
(* first one.                                                               *)
EXTENDS Readiness, TLAPS

(* The clock, the contexts and the probe's counters are numbers; err is     *)
(* none from the start of a restart until something has returned.           *)
Clock ==
  /\ now \in Nat /\ ctx \in Nat /\ booted \in Nat
  /\ attempt \in Nat /\ delay \in Nat
  /\ boot \in Boots
  /\ pc \in {"restart", "url", "attempt", "backoff", "judge", "done"}
  /\ pc \in {"restart", "url"} => err = "none"

LEMMA InitClock == Init => Clock
  BY TunablesOK DEF Init, Clock, Boots

(* The answer of an attempt comes no later than the context.                *)
LEMMA AnswerTime ==
  ASSUME Clock, now < ctx
  PROVE  Answer.at \in Nat /\ Answer.at >= now /\ Answer.at <= ctx
<1>1. boot.opens \in Nat /\ boot.serves \in Nat
  BY TunablesOK DEF Clock, Boots
<1>2. OpensAt \in Nat /\ ServesAt \in Nat /\ ServesAt >= OpensAt
  BY <1>1 DEF OpensAt, ServesAt, Clock
<1> DEFINE patience == Earlier(now + Timeout, ctx)
<1>3. patience \in Nat /\ patience >= now /\ patience <= ctx
  BY TunablesOK DEF Clock, Earlier
<1> QED
  BY <1>2, <1>3 DEF Answer, Clock

(* What a backoff may do: give up, go on, or notice that the context is     *)
(* done.                                                                    *)
LEMMA BackoffCases ==
  ASSUME Backoff
  PROVE  /\ pc = "backoff" /\ UNCHANGED <<adapter, stage, ctx, booted, boot, result>>
         /\ \/ /\ attempt = Attempts /\ now' = now
               /\ err' = "not ready" /\ pc' = "judge"
               /\ attempt' = attempt /\ delay' = delay
            \/ /\ attempt # Attempts /\ now + delay <= ctx
               /\ now' = now + delay /\ err' = "none" /\ pc' = "attempt"
               /\ attempt' = attempt + 1 /\ delay' = Doubled
            \/ /\ attempt # Attempts
               /\ now' = ctx /\ err' = "cancelled" /\ pc' = "judge"
               /\ attempt' = attempt /\ delay' = delay
<1>1. CASE attempt = Attempts
  BY <1>1, Zenon DEF Backoff, Returns
<1>2. CASE attempt # Attempts
  BY <1>2, Zenon DEF Backoff, Returns
<1> QED
  BY <1>1, <1>2

LEMMA NextClock == Clock /\ [Next]_vars => Clock'
<1> SUFFICES ASSUME Clock, [Next]_vars PROVE Clock'
  OBVIOUS
<1> USE TunablesOK
<1>1. CASE RestartRefused
  BY <1>1 DEF RestartRefused, Returns, Clock
<1>2. CASE NativeRestart
  BY <1>2 DEF NativeRestart, Restarted, Returns, Clock
<1>3. CASE DockerRestart
  <2>1. DockerDeadline \in Nat
    BY DEF DockerDeadline, Earlier, Clock
  <2> QED
    BY <1>3, <2>1 DEF DockerRestart, Restarted, Returns, Clock
<1>4. CASE RestartFails
  BY <1>4 DEF RestartFails, Returns, Clock
<1>5. CASE ReadinessURL
  BY <1>5 DEF ReadinessURL, Returns, Clock
<1>6. CASE ProbeAttempt
  <2>1. now < ctx => Answer.at \in Nat
    BY AnswerTime
  <2> QED
    BY <1>6, <2>1 DEF ProbeAttempt, Returns, Clock
<1>7. CASE Backoff
  <2>1. Doubled \in Nat
    BY DEF Doubled, Earlier, Clock
  <2>2. ctx' = ctx /\ booted' = booted /\ boot' = boot
    BY <1>7, BackoffCases
  <2>3. now' \in {now, now + delay, ctx} /\ attempt' \in {attempt, attempt + 1}
        /\ delay' \in {delay, Doubled} /\ pc' \in {"judge", "attempt"}
    BY <1>7, BackoffCases
  <2> QED
    BY <2>1, <2>2, <2>3 DEF Clock
<1>8. CASE Succeed
  BY <1>8 DEF Succeed, Clock
<1>9. CASE Recover
  BY <1>9 DEF Recover, Clock
<1>10. CASE RecoveryFails
  BY <1>10 DEF RecoveryFails, Clock
<1>11. CASE UNCHANGED vars
  BY <1>11 DEF vars, Clock
<1> QED
  BY <1>1, <1>2, <1>3, <1>4, <1>5, <1>6, <1>7, <1>8, <1>9, <1>10, <1>11 DEF Next

-----------------------------------------------------------------------------
(* No wait but a native restart outlasts the context of its stage, whatever *)
(* the tunables are, however long a restart or a boot takes and whenever    *)
(* the caller goes away.                                                    *)
THEOREM WaitsEndWithContext == Spec => []OnlyTheRestartOverruns
<1> DEFINE Inv == Clock /\ OnlyTheRestartOverruns
<1>1. Init => Inv
  BY InitClock, TunablesOK DEF Init, OnlyTheRestartOverruns
<1>2. Inv /\ [Next]_vars => Inv'
  <2> SUFFICES ASSUME Inv, [Next]_vars PROVE OnlyTheRestartOverruns'
    BY NextClock
  <2> USE TunablesOK DEF OnlyTheRestartOverruns
  <2>1. CASE RestartRefused
    BY <2>1 DEF RestartRefused, Returns
  <2>2. CASE NativeRestart
    BY <2>2 DEF NativeRestart, Restarted, Returns
  <2>3. CASE DockerRestart
    <3>1. DockerDeadline <= ctx
      BY DEF DockerDeadline, Earlier, Clock
    <3> QED
      BY <2>3, <3>1 DEF DockerRestart, Restarted, Returns
  <2>4. CASE RestartFails
    BY <2>4 DEF RestartFails, Returns
  <2>5. CASE ReadinessURL
    BY <2>5 DEF ReadinessURL, Returns
  <2>6. CASE ProbeAttempt
    <3>1. now < ctx => Answer.at <= ctx
      BY AnswerTime
    <3> QED
      BY <2>6, <3>1 DEF ProbeAttempt, Returns
  <2>7. CASE Backoff
    <3>1. ctx' = ctx /\ booted' = booted
      BY <2>7, BackoffCases
    <3>2. now' = now \/ (now + delay <= ctx /\ now' = now + delay) \/ now' = ctx
      BY <2>7, BackoffCases
    <3> QED
      BY <3>1, <3>2 DEF Clock
  <2>8. CASE Succeed
    BY <2>8 DEF Succeed
  <2>9. CASE Recover
    BY <2>9 DEF Recover, Clock
  <2>10. CASE RecoveryFails
    BY <2>10 DEF RecoveryFails
  <2>11. CASE UNCHANGED vars
    BY <2>11 DEF vars
  <2> QED
    BY <2>1, <2>2, <2>3, <2>4, <2>5, <2>6, <2>7, <2>8, <2>9, <2>10, <2>11 DEF Next
<1> QED
  BY <1>1, <1>2, PTL DEF Spec

-----------------------------------------------------------------------------
(* How long the probe has waited, at least, when it makes attempt n, and    *)
(* the backoff that follows, in units of the first backoff: six attempts    *)
(* and a cap of ten units.                                                  *)
Schedule ==
  \/ attempt = 1 /\ delay = BackoffMin     /\ now >= booted
  \/ attempt = 2 /\ delay = 2 * BackoffMin /\ now >= booted + BackoffMin
  \/ attempt = 3 /\ delay = 4 * BackoffMin /\ now >= booted + 3 * BackoffMin
  \/ attempt = 4 /\ delay = 8 * BackoffMin /\ now >= booted + 7 * BackoffMin
  \/ attempt = 5 /\ delay = 10 * BackoffMin /\ now >= booted + 15 * BackoffMin
  \/ attempt = 6 /\ delay = 10 * BackoffMin /\ now >= booted + 25 * BackoffMin

(* SlowBootIsAwaited is not inductive: what it says of a verdict is decided *)
(* at the last attempt, which must have come late enough (Schedule), and    *)
(* which failed because Node-RED did not serve yet.                         *)
WaitInv ==
  /\ Clock
  /\ pc = "url" => now >= booted
  /\ pc \in {"attempt", "backoff"} => Schedule
  /\ pc = "backoff" => err # "not ready"
  /\ pc = "attempt" => err # "not ready"
  /\ pc = "backoff" /\ attempt = 6 =>
       boot.opens + boot.serves > 25 * BackoffMin
  /\ SlowBootIsAwaited

(* A Node-RED that serves within 25 times the first backoff of its restart  *)
(* and answers no 5xx is never declared dead, in the apply and in the       *)
(* recovery, with the attempts and the cap of the code.                     *)
THEOREM BootsAreAwaited ==
  ASSUME Attempts = 6, BackoffMax = 10 * BackoffMin, Window = 25 * BackoffMin
  PROVE  Spec => []SlowBootIsAwaited
<1> USE TunablesOK
<1>1. Init => WaitInv
  BY InitClock DEF Init, WaitInv, SlowBootIsAwaited
<1>2. WaitInv /\ [Next]_vars => WaitInv'
  <2> SUFFICES ASSUME WaitInv, [Next]_vars PROVE WaitInv'
    OBVIOUS
  <2>0. Clock /\ Clock'
    BY NextClock DEF WaitInv
  <2>b. boot.opens \in Nat /\ boot.serves \in Nat
    BY <2>0 DEF Clock, Boots
  <2>j. ASSUME pc' = "judge", err' # "not ready"
        PROVE  WaitInv'
    BY <2>0, <2>j DEF WaitInv, SlowBootIsAwaited
  <2>r. ASSUME NEW t \in Nat, Restarted(t), err = "none"
        PROVE  WaitInv'
    <3>1. booted' = t /\ now' = t
      BY <2>r DEF Restarted, Returns
    <3>2. \/ pc' = "judge" /\ err' = "cancelled"
          \/ pc' = "url" /\ err' = err
      BY <2>r DEF Restarted, Returns
    <3>3. CASE pc' = "judge" /\ err' = "cancelled"
      BY <2>j, <3>3
    <3>4. CASE pc' = "url" /\ err' = err
      BY <2>0, <2>r, <3>1, <3>4 DEF WaitInv, SlowBootIsAwaited
    <3> QED
      BY <3>2, <3>3, <3>4
  <2>1. CASE RestartRefused
    BY <2>1, <2>j DEF RestartRefused, Returns
  <2>2. CASE NativeRestart
    <3>1. PICK d \in RestartTimes : Restarted(now + d)
      BY <2>2 DEF NativeRestart
    <3>2. now + d \in Nat
      BY <2>0 DEF Clock
    <3>3. err = "none"
      BY <2>0, <2>2 DEF NativeRestart, Clock
    <3> QED
      BY <2>r, <3>1, <3>2, <3>3
  <2>3. CASE DockerRestart
    <3>1. err = "none"
      BY <2>0, <2>3 DEF DockerRestart, Clock
    <3>2. PICK d \in RestartTimes :
            Restarted(now + d) \/ Returns("restart", DockerDeadline)
      BY <2>3 DEF DockerRestart
    <3>3. now + d \in Nat
      BY <2>0 DEF Clock
    <3>4. CASE Restarted(now + d)
      BY <2>r, <3>1, <3>3, <3>4
    <3>5. CASE Returns("restart", DockerDeadline)
      BY <2>j, <3>5 DEF Returns
    <3> QED
      BY <3>2, <3>4, <3>5
  <2>4. CASE RestartFails
    BY <2>0, <2>4 DEF RestartFails, Returns, WaitInv, SlowBootIsAwaited
  <2>5. CASE ReadinessURL
    BY <2>0, <2>5
    DEF ReadinessURL, Returns, WaitInv, SlowBootIsAwaited, Schedule, Clock
  <2>6. CASE ProbeAttempt
    <3>1. CASE now >= ctx
      <4>1. ~(now < ctx)
        BY <2>0, <3>1 DEF Clock
      <4> QED
        BY <2>6, <2>j, <4>1 DEF ProbeAttempt, Returns
    <3>2. CASE now < ctx
      <4>1. Answer.at \in Nat /\ Answer.at >= now
        BY <2>0, <3>2, AnswerTime
      <4>2. CASE Answer.e \in {"alive", "not ready"}
        <5>1. Answer.e = "not ready" => boot.busy
          BY DEF Answer
        <5> QED
          <6>1. ~(now >= ctx)
            BY <2>0, <3>2 DEF Clock
          <6>2. pc' = "judge" /\ err' = Answer.e /\ boot' = boot
            BY <2>6, <4>2, <6>1 DEF ProbeAttempt, Returns
          <6> QED
            BY <2>0, <5>1, <6>2 DEF WaitInv, SlowBootIsAwaited
      <4>3. CASE Answer.e \notin {"alive", "not ready"}
        <5>1. now' = Answer.at /\ err' = Answer.e /\ pc' = "backoff"
          <6>1. ~(now >= ctx)
            BY <2>0, <3>2 DEF Clock
          <6> QED
            BY <2>6, <4>3, <6>1 DEF ProbeAttempt
        <5>2. UNCHANGED <<booted, boot, attempt, delay>> /\ pc = "attempt"
          BY <2>6 DEF ProbeAttempt
        <5>3. Schedule /\ Schedule'
          <6>1. Schedule
            BY <5>2 DEF WaitInv
          <6>2. now' >= now /\ now' \in Nat
            BY <4>1, <5>1
          <6> QED
            BY <2>0, <5>2, <6>1, <6>2 DEF Schedule, Clock
        <5>4. booted + boot.opens + boot.serves > now
          BY <2>0, <2>b, <3>2, <4>3 DEF Answer, OpensAt, ServesAt, Earlier, Clock
        <5>5. attempt = 6 => boot.opens + boot.serves > 25 * BackoffMin
          BY <2>0, <2>b, <5>3, <5>4 DEF Schedule, Clock
        <5> QED
          BY <2>0, <4>3, <5>1, <5>2, <5>3, <5>5 DEF WaitInv, SlowBootIsAwaited
      <4> QED
        BY <4>2, <4>3
    <3> QED
      BY <2>0, <3>1, <3>2 DEF Clock
  <2>7. CASE Backoff
    <3>1. Schedule /\ pc = "backoff"
      BY <2>7 DEF Backoff, WaitInv
    <3>2. CASE attempt = Attempts
      BY <2>0, <2>7, <3>2 DEF Backoff, Returns, WaitInv, SlowBootIsAwaited
    <3>3. CASE attempt # Attempts /\ pc' = "attempt"
      <4>1. /\ now' = now + delay /\ err' = "none" /\ attempt' = attempt + 1
            /\ delay' = Doubled /\ UNCHANGED <<booted, boot>>
        BY <2>7, <3>3 DEF Backoff, Returns
      <4>2. Schedule'
        BY <2>0, <3>1, <3>3, <4>1 DEF Schedule, Doubled, Earlier, Clock
      <4> QED
        BY <2>0, <3>3, <4>1, <4>2 DEF WaitInv, SlowBootIsAwaited
    <3>4. CASE attempt # Attempts /\ pc' # "attempt"
      BY <2>0, <2>7, <3>4 DEF Backoff, Returns, WaitInv, SlowBootIsAwaited
    <3> QED
      BY <3>2, <3>3, <3>4
  <2>8. CASE Succeed
    BY <2>0, <2>8 DEF Succeed, WaitInv, SlowBootIsAwaited
  <2>9. CASE Recover
    BY <2>0, <2>9 DEF Recover, WaitInv, SlowBootIsAwaited
  <2>10. CASE RecoveryFails
    BY <2>0, <2>10 DEF RecoveryFails, WaitInv, SlowBootIsAwaited
  <2>11. CASE UNCHANGED vars
    BY <2>0, <2>11 DEF vars, WaitInv, SlowBootIsAwaited, Schedule
  <2> QED
    BY <2>1, <2>2, <2>3, <2>4, <2>5, <2>6, <2>7, <2>8, <2>9, <2>10, <2>11 DEF Next
<1>3. WaitInv => SlowBootIsAwaited
  BY DEF WaitInv
<1> QED
  BY <1>1, <1>2, <1>3, PTL DEF Spec
=============================================================================
