--------------------------- MODULE AuditLogProofs ---------------------------
(***************************************************************************)
(* The audit log keeps what it has reported as persisted, for every number *)
(* of events, every size of audit.jsonl, every number of backups and every *)
(* combination of failing file system calls and crashes.                   *)
(*                                                                         *)
(* PersistedIsKept is not inductive: a removed name loses nothing only if  *)
(* it is a second name of audit.jsonl (PhaseInv) or the oldest backup, and *)
(* the oldest backup holds the earliest events only if the ordinals of an  *)
(* instant are given without a gap (OrdInv, OrderInv).  Every step has one *)
(* of seven effects on the directory; the facts about the directory, the   *)
(* names and the events are proved effect by effect, the facts about the   *)
(* phases action by action.                                                *)
(***************************************************************************)
EXTENDS AuditLog, FiniteSetTheorems, TLAPS

(* The backups named in this instant. *)
AtClock == {b \in backups : b.time = clock}
(* A rotation that may still take audit.jsonl away: it will cost an inode. *)
Credit == IF active = None \/ pc \in {"closing", "linking", "removing"} THEN 1 ELSE 0

(* The directory: names carry times that are past, the names of earlier    *)
(* releases belong to files that NRCC has not written, and an inode that   *)
(* is still unused has no name and no events.                              *)
DirInv ==
  /\ IsFiniteSet(backups) /\ clock >= 1
  /\ active < fresh
  /\ \A b \in backups : b.time <= clock /\ b.ino < fresh
  /\ \A b \in backups : b.gen = 0 => b.time = 0 /\ lines[b.ino] = {}
  /\ \A i \in Inodes : i >= fresh => lines[i] = {}

(* The backup names: the ordinals of this instant are 0, 1, 2, ... without *)
(* a gap, no two names are the same, and the second name of audit.jsonl,   *)
(* while there is one, is the last that was given.                         *)
OrdInv ==
  /\ Cardinality(AtClock) <= MaxBackups
  /\ \A n \in Nat : n < Cardinality(AtClock) <=> \E b \in AtClock : b.ord = n
  /\ \A a, b \in backups : a.gen = 1 /\ b.gen = 1 /\ a.time = b.time /\ a.ord = b.ord => a = b
  /\ \A b \in Alias : b.time = clock /\ b.gen = 1 /\ b.ord + 1 = Cardinality(AtClock)

(* The phases of the call that holds the mutex: audit.jsonl has a second   *)
(* name only between the link and the remove of a rotation, until a crash  *)
(* of it is cleaned up, or while the name is pending, and the service has  *)
(* no file then.                                                           *)
PhaseInv ==
  /\ pc = "closing" => file # None
  /\ pc \in {"linking", "removing"} => file = None /\ active # None
  /\ pc = "removing" => Alias # {}
  /\ pc \in {"closing", "linking"} => Cardinality(AtClock) < MaxBackups
  /\ pending # {} => pending = Alias /\ pc = "idle" /\ file = None
  /\ Alias # {} => pc \in {"removing", "cleaning"} \/ pending # {}
  /\ file # None => file = active /\ Alias = {}
  /\ fresh + Credit <= Cardinality(Legacy) + 1 + next

(* The order of the events: older backups hold earlier events, audit.jsonl *)
(* the latest, and what pruneOld has removed is before all of them.        *)
OrderInv ==
  /\ \A i \in Inodes : \A e \in lines[i] : e < next
  /\ \A e \in pruned : e < next
  /\ \A a, b \in backups : a # b /\ ~Older(b, a) =>
       \A e \in lines[a.ino], f \in lines[b.ino] : e < f
  /\ active # None => \A b \in backups : b.ino # active =>
       \A e \in lines[b.ino], f \in lines[active] : e < f
  /\ \A e \in pruned, i \in Named : \A f \in lines[i] : e < f

(* What Log has reported as persisted is in a file that has a name.        *)
KeptInv == \A e \in acked \ (garbled \cup pruned) : \E i \in Named : e \in lines[i]

(* The inductive invariant. *)
Inv == TypeOK /\ DirInv /\ OrdInv /\ PhaseInv /\ OrderInv /\ KeptInv

-----------------------------------------------------------------------------
(* What a step does to the directory. *)

(* The directory stays as it is; a failed write uses up an event. *)
Stills ==
  /\ UNCHANGED <<active, backups, lines, clock, fresh, acked, garbled, pruned>>
  /\ next' \in {next, next + 1}
(* audit.jsonl is created. *)
Opens ==
  /\ active = None /\ active' = fresh /\ fresh' = fresh + 1
  /\ UNCHANGED <<backups, lines, clock, next, acked, garbled, pruned>>
(* Log appends an event, to a file with no other name. *)
Appends ==
  /\ active # None /\ Alias = {} /\ clock' \in Instants
  /\ next <= MaxEvents /\ next' = next + 1 /\ acked' = acked \cup {next}
  /\ \/ garbled' = garbled \cup {next} /\ lines' = lines
     \/ lines' = [lines EXCEPT ![active] = @ \cup {next}] /\ garbled' = garbled
  /\ UNCHANGED <<active, backups, fresh, pruned>>
(* A rotation gives audit.jsonl its backup name. *)
Links ==
  /\ active # None /\ Alias = {} /\ Cardinality(AtClock) < MaxBackups
  /\ backups' = backups \cup {Candidate}
  /\ UNCHANGED <<active, lines, clock, next, fresh, acked, garbled, pruned>>
(* A rotation takes the first name away. *)
Unlinks ==
  /\ active # None /\ Alias # {} /\ active' = None
  /\ UNCHANGED <<backups, lines, clock, next, fresh, acked, garbled, pruned>>
(* The second name is taken back: rollback, pendingBackup, cleanupAliasedBackups. *)
TakesBack ==
  /\ backups' = backups \ Alias
  /\ UNCHANGED <<active, lines, clock, next, fresh, acked, garbled, pruned>>
(* pruneOld removes the oldest backup. *)
Prunes ==
  /\ Alias = {} /\ Cardinality(backups) > MaxBackups
  /\ backups' = backups \ Oldest
  /\ pruned' = pruned \cup UNION {lines[b.ino] : b \in Oldest}
  /\ UNCHANGED <<active, lines, clock, next, fresh, acked, garbled>>
(* One of the seven. *)
StepEffect == Stills \/ Opens \/ Appends \/ Links \/ Unlinks \/ TakesBack \/ Prunes

(* The numbers the constants stand for. *)
LEMMA Numbers ==
  /\ MaxEvents \in Nat /\ MaxSize \in Nat /\ MaxBackups \in Nat \ {0} /\ MaxCrashes \in Nat
  /\ IsFiniteSet(Legacy) /\ Cardinality(Legacy) \in Nat
  /\ Inodes = 1..(MaxEvents + Cardinality(Legacy) + MaxCrashes + 2)
  /\ \A b \in Legacy : b \in Backup /\ b.time = 0 /\ b.gen = 0 /\ b.ord = 0 /\ b.ino <= Cardinality(Legacy)
<1>1. /\ MaxEvents \in Nat /\ MaxSize \in Nat \ {0} /\ MaxBackups \in Nat \ {0}
      /\ MaxCrashes \in Nat /\ IsFiniteSet(Legacy)
      /\ Legacy \subseteq [time: {0}, gen: {0}, ord: {0}, ino: 1..Cardinality(Legacy)]
  BY ConstantsOK DEF ConstantsOK
<1>2. Cardinality(Legacy) \in Nat
  BY <1>1, FS_CardinalityType
<1>3. Inodes = 1..(MaxEvents + Cardinality(Legacy) + MaxCrashes + 2)
  BY DEF Inodes
<1>4. 1..Cardinality(Legacy) \subseteq Inodes
  BY <1>1, <1>2, <1>3
<1>5. \A b \in Legacy : b \in Backup /\ b.time = 0 /\ b.gen = 0 /\ b.ord = 0 /\ b.ino <= Cardinality(Legacy)
  BY <1>1, <1>2, <1>4 DEF Backup
<1> QED
  BY <1>1, <1>2, <1>3, <1>5

(* A file holds finitely many events. *)
LEMMA FiniteLines ==
  ASSUME TypeOK, NEW i \in Inodes
  PROVE  Cardinality(lines[i]) \in Nat
<1>1. lines[i] \in SUBSET (1..MaxEvents)
  BY DEF TypeOK
<1>2. IsFiniteSet(1..MaxEvents)
  BY Numbers, FS_Interval
<1> QED
  BY <1>1, <1>2, FS_Subset, FS_CardinalityType

(* An inode is left for the file that an open may create. *)
LEMMA FreshIsAnInode ==
  ASSUME TypeOK, PhaseInv, active = None
  PROVE  fresh \in Inodes \/ fresh = 0
<1>1. Credit = 1
  BY DEF Credit
<1>2. fresh + 1 <= Cardinality(Legacy) + 1 + next
  BY <1>1 DEF PhaseInv
<1>3. next \in Nat /\ next <= MaxEvents + 1 /\ fresh \in Nat
  BY Numbers DEF TypeOK
<1> QED
  BY <1>2, <1>3, Numbers

(* The first free ordinal is the number of backups of this instant. *)
LEMMA FreeOrdinalIs ==
  ASSUME TypeOK, DirInv, OrdInv
  PROVE  /\ FreeOrdinal = Cardinality(AtClock) /\ Cardinality(AtClock) \in Nat
         /\ IsFiniteSet(AtClock)
<1> DEFINE k == Cardinality(AtClock)
           P(n) == /\ ~\E b \in backups : b.time = clock /\ b.gen = 1 /\ b.ord = n
                   /\ \A m \in 0..(n - 1) : \E b \in backups : b.time = clock /\ b.gen = 1 /\ b.ord = m
<1>1. IsFiniteSet(backups) /\ AtClock \subseteq backups
  BY DEF DirInv, AtClock
<1>2. IsFiniteSet(AtClock) /\ Cardinality(AtClock) <= Cardinality(backups)
  BY <1>1, FS_Subset
<1>3. k \in Nat /\ Cardinality(backups) \in Nat
  BY <1>1, <1>2, FS_CardinalityType
<1>4. k \in 0..Cardinality(backups)
  BY <1>2, <1>3
<1>5. \A b \in backups : b.time = clock => b \in AtClock /\ b.gen = 1
  BY DEF DirInv, TypeOK, Backup, AtClock
<1>6. \A b \in AtClock : b \in backups /\ b.time = clock
  BY DEF AtClock
<1>7. \A n \in Nat : n < k <=> \E b \in AtClock : b.ord = n
  BY DEF OrdInv
<1> HIDE DEF k
<1>8. \A n \in Nat : n < k <=> \E b \in backups : b.time = clock /\ b.gen = 1 /\ b.ord = n
  BY <1>5, <1>6, <1>7
<1>9. P(k)
  BY <1>3, <1>8
<1>10. ASSUME NEW n \in 0..Cardinality(backups), P(n)
       PROVE  n = k
  <2>1. n \in Nat
    BY <1>3
  <2>2. ~(n < k)
    BY <2>1, <1>8, <1>10
  <2>3. ~(k < n)
    <3> SUFFICES ASSUME k < n
                 PROVE  FALSE
      OBVIOUS
    <3>1. k \in 0..(n - 1)
      BY <2>1, <1>3
    <3>2. \E b \in backups : b.time = clock /\ b.gen = 1 /\ b.ord = k
      BY <3>1, <1>10
    <3> QED
      BY <3>2, <1>8, <1>3
  <2> QED
    BY <2>1, <2>2, <2>3, <1>3
<1>11. FreeOrdinal = CHOOSE n \in 0..Cardinality(backups) : P(n)
  BY DEF FreeOrdinal
<1> HIDE DEF P
<1>12. FreeOrdinal = k
  BY <1>4, <1>9, <1>10, <1>11
<1> QED
  BY <1>2, <1>3, <1>12 DEF k

(* Opening audit.jsonl creates it where it is missing. *)
LEMMA OpenEffect ==
  ASSUME TypeOK, PhaseInv, DirInv, OpenActive, UNCHANGED <<clock, next, acked, garbled, pruned>>
  PROVE  /\ Stills \/ Opens
         /\ active' \in Inodes /\ file' = active' /\ size' \in Nat
         /\ fresh' \in Nat /\ UNCHANGED <<backups, lines, torn>>
<1>1. active < fresh /\ fresh \in Nat /\ active \in Inodes \cup {None}
  BY DEF DirInv, TypeOK
<1>2. active' \in Inodes
  <2>1. CASE active = None
    <3>1. fresh # 0 /\ active' = fresh
      BY <1>1, <2>1 DEF OpenActive, None
    <3> QED
      BY <2>1, <3>1, FreshIsAnInode
  <2>2. CASE active # None
    BY <1>1, <2>2 DEF OpenActive
  <2> QED
    BY <2>1, <2>2
<1>3. size' = Cardinality(lines[active'])
  BY DEF OpenActive
<1>4. size' \in Nat
  BY <1>2, <1>3, FiniteLines
<1> QED
  BY <1>1, <1>2, <1>4 DEF OpenActive, Stills, Opens
(* Every step has one of the effects. *)
LEMMA NextEffect ==
  ASSUME TypeOK, DirInv, PhaseInv, Next
  PROVE  StepEffect
<1>1. ASSUME OpenActive \/ OpenFails, UNCHANGED <<clock, next, histVars>>
      PROVE  StepEffect
  <2>1. CASE OpenActive
    BY <1>1, <2>1, OpenEffect DEF StepEffect, histVars
  <2>2. CASE OpenFails
    BY <1>1, <2>2 DEF StepEffect, Stills, OpenFails, histVars
  <2> QED
    BY <1>1, <2>1, <2>2
<1>2. CASE EnsureAvailable
  BY <1>1, <1>2 DEF EnsureAvailable
<1>3. CASE DropPending
  <2>1. CASE backups' = backups \ pending
    <3>1. pending = Alias
      BY <1>3 DEF DropPending, PhaseInv
    <3> QED
      BY <1>3, <2>1, <3>1 DEF DropPending, StepEffect, TakesBack, histVars
  <2>2. CASE UNCHANGED backups
    BY <1>3, <2>2 DEF DropPending, StepEffect, Stills, histVars
  <2> QED
    BY <1>3, <2>1, <2>2 DEF DropPending
<1>4. CASE Write
  <2>1. file = active /\ Alias = {} /\ active # None
    BY <1>4 DEF Write, PhaseInv
  <2>2. Appends
    BY <1>4, <2>1 DEF Write, Appends
  <2> QED
    BY <2>2 DEF StepEffect
<1>5. CASE WriteFails
  BY <1>5 DEF WriteFails, StepEffect, Stills, histVars
<1>6. CASE CloseActive
  <2>1. CASE UNCHANGED <<active, backups, lines, torn, fresh>>
    BY <1>6, <2>1 DEF CloseActive, StepEffect, Stills, histVars
  <2>2. CASE RecoverActive
    BY <1>1, <1>6, <2>2 DEF CloseActive, RecoverActive
  <2> QED
    BY <1>6, <2>1, <2>2 DEF CloseActive
<1>7. CASE LinkFails
  BY <1>1, <1>7 DEF LinkFails, RecoverActive
<1>8. CASE Link
  <2>1. active # None /\ Cardinality(AtClock) < MaxBackups
    BY <1>8 DEF Link, PhaseInv
  <2>2. Alias = {}
    <3>1. pending = {}
      BY <1>8 DEF Link, PhaseInv
    <3> QED
      BY <1>8, <3>1 DEF Link, PhaseInv
  <2>3. Links
    BY <1>8, <2>1, <2>2 DEF Link, Links, histVars
  <2> QED
    BY <2>3 DEF StepEffect
<1>9. CASE RemoveActive
  <2>1. active # None /\ Alias # {}
    BY <1>9 DEF RemoveActive, PhaseInv
  <2>2. Unlinks
    BY <1>9, <2>1 DEF RemoveActive, Unlinks, histVars
  <2> QED
    BY <2>2 DEF StepEffect
<1>10. CASE Rollback
  BY <1>10 DEF Rollback, StepEffect, TakesBack, histVars
<1>11. CASE RollbackFails
  BY <1>11 DEF RollbackFails, StepEffect, Stills, histVars, dirVars
<1>12. CASE Recover
  BY <1>1, <1>12 DEF Recover, RecoverActive
<1>13. CASE OpenReplacement
  BY <1>1, <1>13 DEF OpenReplacement, RecoverActive
<1>14. CASE Prune
  <2>1. pending = {}
    BY <1>14 DEF Prune, PhaseInv
  <2>2. Alias = {}
    BY <1>14, <2>1 DEF Prune, PhaseInv
  <2>3. Prunes
    BY <1>14, <2>2 DEF Prune, Prunes
  <2> QED
    BY <2>3 DEF StepEffect
<1>15. CASE PruneEnds
  BY <1>15 DEF PruneEnds, StepEffect, Stills, histVars, dirVars
<1>16. CASE Close
  BY <1>16 DEF Close, StepEffect, Stills, histVars, dirVars
<1>17. CASE Crash
  BY <1>17 DEF Crash, StepEffect, Stills, histVars, dirVars
<1>18. CASE CleanupAliasedBackups
  BY <1>18 DEF CleanupAliasedBackups, StepEffect, TakesBack, histVars
<1>19. CASE Boot
  BY <1>1, <1>19 DEF Boot
<1> QED
  BY <1>2, <1>3, <1>4, <1>5, <1>6, <1>7, <1>8, <1>9, <1>10, <1>11, <1>12, <1>13, <1>14, <1>15,
     <1>16, <1>17, <1>18, <1>19 DEF Next, Rotate

(* The name that a link adds: the next ordinal of this instant. *)
LEMMA CandidateIsABackup ==
  ASSUME TypeOK, DirInv, OrdInv, active # None
  PROVE  /\ Candidate \in Backup /\ Candidate.time = clock /\ Candidate.gen = 1
         /\ Candidate.ord = Cardinality(AtClock) /\ Candidate.ino = active
<1>1. FreeOrdinal = Cardinality(AtClock) /\ Cardinality(AtClock) \in Nat
  BY FreeOrdinalIs
<1>2. clock \in Nat /\ active \in Inodes
  BY DEF TypeOK
<1> QED
  BY <1>1, <1>2 DEF Candidate, Backup

(* The data of a step have their types. *)
LEMMA DataTypes ==
  ASSUME TypeOK, DirInv, OrdInv, PhaseInv, StepEffect, next' \in 1..(MaxEvents + 1)
  PROVE  /\ active' \in Inodes \cup {None} /\ backups' \subseteq Backup
         /\ lines' \in [Inodes -> SUBSET (1..MaxEvents)]
         /\ clock' \in Nat /\ fresh' \in Nat
         /\ acked' \subseteq 1..MaxEvents /\ garbled' \subseteq 1..MaxEvents
         /\ pruned' \subseteq 1..MaxEvents
<1> USE DEF TypeOK
<1>1. CASE Stills
  BY <1>1 DEF Stills
<1>2. CASE Opens
  <2>1. active < fresh
    BY DEF DirInv
  <2>2. fresh \in Inodes
    BY <2>1, <1>2, FreshIsAnInode DEF Opens, None
  <2> QED
    BY <1>2, <2>2 DEF Opens
<1>3. CASE Appends
  <2>1. next \in 1..MaxEvents
    BY <1>3, Numbers DEF Appends
  <2>2. clock' \in Nat
    BY <1>3 DEF Appends, Instants
  <2>3. lines' \in [Inodes -> SUBSET (1..MaxEvents)]
    BY <1>3, <2>1 DEF Appends
  <2> QED
    BY <1>3, <2>1, <2>2, <2>3 DEF Appends
<1>4. CASE Links
  BY <1>4, CandidateIsABackup DEF Links
<1>5. CASE Unlinks
  BY <1>5 DEF Unlinks
<1>6. CASE TakesBack
  BY <1>6 DEF TakesBack
<1>7. CASE Prunes
  <2>1. \A b \in backups : b.ino \in Inodes
    BY DEF Backup
  <2>2. Oldest \subseteq backups
    BY DEF Oldest
  <2>3. \A b \in Oldest : lines[b.ino] \subseteq 1..MaxEvents
    BY <2>1, <2>2
  <2>4. UNION {lines[b.ino] : b \in Oldest} \subseteq 1..MaxEvents
    BY <2>3
  <2> QED
    BY <1>7, <2>4 DEF Prunes
<1> QED
  BY <1>1, <1>2, <1>3, <1>4, <1>5, <1>6, <1>7 DEF StepEffect
(* A step keeps the types of all variables. *)
LEMMA TypeStep ==
  ASSUME TypeOK, DirInv, OrdInv, PhaseInv, Next
  PROVE  TypeOK'
<1>1. StepEffect
  BY NextEffect
<1>2. ASSUME OpenActive \/ OpenFails, UNCHANGED <<clock, next, histVars>>
      PROVE  file' \in Inodes \cup {None} /\ size' \in Nat /\ torn' = torn
  <2>1. CASE OpenActive
    BY <1>2, <2>1, OpenEffect DEF histVars
  <2>2. CASE OpenFails
    BY <1>2, <2>2 DEF OpenFails
  <2> QED
    BY <1>2, <2>1, <2>2
<1>3. /\ file \in Inodes \cup {None} /\ pending \subseteq Backup
      /\ torn \subseteq Inodes /\ size \in Nat /\ pc \in Phases /\ crashes \in Nat
      /\ next \in Nat /\ next \in 1..(MaxEvents + 1) /\ crashes \in 0..MaxCrashes
      /\ backups \subseteq Backup /\ MaxEvents \in Nat /\ MaxCrashes \in Nat
  BY Numbers DEF TypeOK
<1>4. Alias \subseteq Backup
  BY <1>3 DEF Alias
<1> DEFINE Control ==
      /\ file' \in Inodes \cup {None} /\ pending' \subseteq Backup
      /\ torn' \subseteq Inodes /\ size' \in Nat /\ pc' \in Phases /\ crashes' \in 0..MaxCrashes
      /\ next' \in 1..(MaxEvents + 1)
<1>5. Control
  <2> USE <1>3 DEF Phases
  <2>1. CASE EnsureAvailable
    BY <1>2, <2>1 DEF EnsureAvailable
  <2>2. CASE DropPending
    BY <2>2 DEF DropPending, fileVars
  <2>3. CASE Write
    BY <2>3 DEF Write
  <2>4. CASE WriteFails
    BY <2>4 DEF WriteFails, fileVars
  <2>5. CASE CloseActive
    <3>1. CASE RecoverActive
      BY <1>2, <2>5, <3>1 DEF CloseActive, RecoverActive
    <3>2. CASE ~RecoverActive
      BY <2>5, <3>2 DEF CloseActive
    <3> QED
      BY <3>1, <3>2
  <2>6. CASE LinkFails
    BY <1>2, <2>6 DEF LinkFails, RecoverActive
  <2>7. CASE Link
    BY <2>7 DEF Link, fileVars
  <2>8. CASE RemoveActive
    BY <2>8 DEF RemoveActive, fileVars
  <2>9. CASE Rollback
    BY <2>9 DEF Rollback, fileVars
  <2>10. CASE RollbackFails
    BY <1>4, <2>10 DEF RollbackFails, fileVars, dirVars
  <2>11. CASE Recover
    BY <1>2, <2>11 DEF Recover, RecoverActive
  <2>12. CASE OpenReplacement
    BY <1>2, <2>12 DEF OpenReplacement, RecoverActive
  <2>13. CASE Prune
    BY <2>13 DEF Prune, fileVars
  <2>14. CASE PruneEnds
    BY <2>14 DEF PruneEnds, fileVars, dirVars
  <2>15. CASE Close
    BY <2>15 DEF Close, dirVars
  <2>16. CASE Crash
    BY <2>16 DEF Crash, dirVars
  <2>17. CASE CleanupAliasedBackups
    BY <2>17 DEF CleanupAliasedBackups, fileVars
  <2>18. CASE Boot
    BY <1>2, <2>18 DEF Boot
  <2> QED
    BY <2>1, <2>2, <2>3, <2>4, <2>5, <2>6, <2>7, <2>8, <2>9, <2>10, <2>11, <2>12, <2>13, <2>14,
       <2>15, <2>16, <2>17, <2>18 DEF Next, Rotate
<1>6. up' \in BOOLEAN
  <2>1. up \in BOOLEAN
    BY DEF TypeOK
  <2>2. up' = up \/ up' = TRUE \/ up' = FALSE
    BY Zenon DEF Next, Rotate, EnsureAvailable, DropPending, Write, WriteFails, CloseActive,
      LinkFails, Link, RemoveActive, Rollback, RollbackFails, Recover, OpenReplacement, Prune,
      PruneEnds, Close, Crash, CleanupAliasedBackups, Boot
  <2> QED
    BY <2>1, <2>2, Zenon
<1> HIDE DEF Control
<1>7. TypeOK' <=> /\ up' \in BOOLEAN /\ Control
                  /\ active' \in Inodes \cup {None} /\ backups' \subseteq Backup
                  /\ lines' \in [Inodes -> SUBSET (1..MaxEvents)]
                  /\ clock' \in Nat /\ fresh' \in Nat
                  /\ acked' \subseteq 1..MaxEvents /\ garbled' \subseteq 1..MaxEvents
                  /\ pruned' \subseteq 1..MaxEvents
  BY Zenon DEF TypeOK, Control
<1>8. next' \in 1..(MaxEvents + 1)
  BY <1>5 DEF Control
<1> QED
  BY <1>1, <1>5, <1>6, <1>7, <1>8, DataTypes

(* The facts of the directory after a step. *)
LEMMA DirStep ==
  ASSUME TypeOK, DirInv, OrdInv, PhaseInv, StepEffect
  PROVE  DirInv'
<1>1. /\ IsFiniteSet(backups) /\ clock >= 1 /\ active < fresh
      /\ \A b \in backups : b.time <= clock /\ b.ino < fresh
      /\ \A b \in backups : b.gen = 0 => b.time = 0 /\ lines[b.ino] = {}
      /\ \A i \in Inodes : i >= fresh => lines[i] = {}
  BY DEF DirInv
<1>2. /\ clock \in Nat /\ fresh \in Nat /\ \A b \in backups : b.time \in Nat /\ b.ino \in Inodes
      /\ \A i \in Inodes : i \in Nat
      /\ lines \in [Inodes -> SUBSET (1..MaxEvents)]
  BY Numbers DEF TypeOK, Backup
<1>3. CASE Stills
  BY <1>1, <1>3 DEF Stills, DirInv
<1>4. CASE Opens
  BY <1>1, <1>2, <1>4 DEF Opens, DirInv
<1>5. CASE Appends
  <2>1. clock' \in {clock, clock + 1}
    BY <1>5 DEF Appends, Instants
  <2>2. \A b \in backups : b.ino # active
    BY <1>5 DEF Appends, Alias
  <2>3. \A i \in Inodes : i # active => lines'[i] = lines[i]
    BY <1>2, <1>5 DEF Appends
  <2>4. \A b \in backups : lines'[b.ino] = lines[b.ino]
    BY <1>2, <2>2, <2>3
  <2>5. \A i \in Inodes : i >= fresh => lines'[i] = {}
    <3>1. active \in Nat
      BY <1>2 DEF TypeOK, None
    <3> QED
      BY <1>1, <1>2, <2>3, <3>1
  <2>6. UNCHANGED <<active, backups, fresh>>
    BY <1>5 DEF Appends
  <2> QED
    BY <1>1, <1>2, <2>1, <2>4, <2>5, <2>6 DEF DirInv
<1>6. CASE Links
  <2>1. /\ Candidate.time = clock /\ Candidate.gen = 1 /\ Candidate.ino = active
    BY <1>6, CandidateIsABackup DEF Links
  <2>2. IsFiniteSet(backups \cup {Candidate})
    BY <1>1, FS_AddElement
  <2> QED
    BY <1>1, <1>2, <1>6, <2>1, <2>2 DEF Links, DirInv
<1>7. CASE Unlinks
  BY <1>1, <1>2, <1>7, Numbers DEF Unlinks, DirInv, None, TypeOK
<1>8. CASE TakesBack
  <2>1. IsFiniteSet(backups \ Alias)
    BY <1>1, FS_Subset
  <2> QED
    BY <1>1, <1>8, <2>1 DEF TakesBack, DirInv
<1>9. CASE Prunes
  <2>1. IsFiniteSet(backups \ Oldest)
    BY <1>1, FS_Subset
  <2> QED
    BY <1>1, <1>9, <2>1 DEF Prunes, DirInv
<1> QED
  BY <1>3, <1>4, <1>5, <1>6, <1>7, <1>8, <1>9 DEF StepEffect
(* pruneOld never removes a backup of this instant: only when all backups  *)
(* are of this instant could one be the oldest, and then they are not too  *)
(* many.                                                                   *)
LEMMA OldestIsEarlier ==
  ASSUME TypeOK, DirInv, OrdInv, Cardinality(backups) > MaxBackups
  PROVE  \A a \in Oldest : a.time # clock
<1> SUFFICES ASSUME NEW a \in Oldest, a.time = clock
             PROVE  FALSE
  OBVIOUS
<1>1. \A b \in backups : b.time \in Nat /\ b.time <= clock /\ clock \in Nat
  BY DEF TypeOK, Backup, DirInv
<1>2. a \in backups /\ \A b \in backups : a = b \/ Older(a, b) \/ ~Older(b, a)
  BY DEF Oldest
<1>3. \A b \in backups : b.time = clock
  BY <1>1, <1>2 DEF Older
<1>4. AtClock = backups
  BY <1>3 DEF AtClock
<1>5. Cardinality(backups) <= MaxBackups
  BY <1>4 DEF OrdInv
<1>6. Cardinality(backups) \in Nat /\ MaxBackups \in Nat
  BY FS_CardinalityType, Numbers DEF DirInv
<1> QED
  BY <1>5, <1>6

(* At most one backup is a name of audit.jsonl. *)
LEMMA OneAlias ==
  ASSUME TypeOK, OrdInv, NEW a \in Alias
  PROVE  Alias = {a}
<1>1. Alias \subseteq backups
  BY DEF Alias
<1>2. \A b \in Alias : b.time = clock /\ b.gen = 1 /\ b.ord + 1 = Cardinality(AtClock) /\ b.ord \in Nat
  BY <1>1 DEF OrdInv, TypeOK, Backup
<1>3. \A b \in Alias : b.ord = a.ord
  BY <1>2
<1> QED
  BY <1>1, <1>2, <1>3 DEF OrdInv

(* The ordinals after a step. *)
LEMMA OrdStep ==
  ASSUME TypeOK, DirInv, OrdInv, PhaseInv, StepEffect
  PROVE  OrdInv'
<1> DEFINE k == Cardinality(AtClock)
<1>1. /\ k <= MaxBackups
      /\ \A n \in Nat : n < k <=> \E b \in AtClock : b.ord = n
      /\ \A a, b \in backups : a.gen = 1 /\ b.gen = 1 /\ a.time = b.time /\ a.ord = b.ord => a = b
      /\ \A b \in Alias : b.time = clock /\ b.gen = 1 /\ b.ord + 1 = k
  BY DEF OrdInv
<1>2. k \in Nat /\ IsFiniteSet(AtClock) /\ MaxBackups \in Nat \ {0}
  BY FreeOrdinalIs, Numbers
<1>3. \A b \in backups : b.time \in Nat /\ b.ord \in Nat /\ b.ino \in Inodes /\ b.ino \in Nat \ {0}
  BY Numbers DEF TypeOK, Backup
<1>4. ASSUME AtClock' = AtClock, Alias' = {} \/ (Alias' = Alias /\ clock' = clock), backups' \subseteq backups
      PROVE  OrdInv'
  BY <1>1, <1>4 DEF OrdInv
<1>5. CASE Stills
  <2>1. UNCHANGED <<backups, clock, active>>
    BY <1>5 DEF Stills
  <2> QED
    BY <1>4, <2>1 DEF AtClock, Alias
<1>6. CASE Opens
  <2>1. UNCHANGED <<backups, clock>> /\ active' = fresh
    BY <1>6 DEF Opens
  <2>2. \A b \in backups : b.ino # fresh
    BY <1>3 DEF DirInv, TypeOK
  <2>3. Alias' = {}
    BY <2>1, <2>2 DEF Alias
  <2> QED
    BY <1>4, <2>1, <2>3 DEF AtClock
<1>7. CASE Appends
  <2>1. UNCHANGED <<backups, active>> /\ Alias = {} /\ clock' \in {clock, clock + 1}
    BY <1>7 DEF Appends, Instants
  <2>2. Alias' = {}
    BY <2>1 DEF Alias
  <2>3. CASE clock' = clock
    BY <1>4, <2>1, <2>2, <2>3 DEF AtClock
  <2>4. CASE clock' = clock + 1
    <3>1. \A b \in backups : b.time # clock + 1
      BY <1>3 DEF DirInv, TypeOK
    <3>2. AtClock' = {}
      BY <2>1, <2>4, <3>1 DEF AtClock
    <3>3. Cardinality(AtClock') = 0
      BY <3>2, FS_EmptySet
    <3>4. Cardinality(AtClock)' = Cardinality(AtClock')
      OBVIOUS
    <3> QED
      BY <1>1, <1>2, <2>1, <2>2, <3>2, <3>3, <3>4 DEF OrdInv
  <2> QED
    BY <2>1, <2>3, <2>4
<1>8. CASE Links
  <2>1. /\ Alias = {} /\ k < MaxBackups /\ backups' = backups \cup {Candidate}
        /\ UNCHANGED <<active, clock>> /\ active # None
    BY <1>8 DEF Links
  <2>2. PICK c : c = Candidate
    OBVIOUS
  <2>3. c.time = clock /\ c.gen = 1 /\ c.ord = k /\ c.ino = active
    BY <2>1, <2>2, CandidateIsABackup
  <2>4. AtClock' = AtClock \cup {c}
    BY <2>1, <2>2, <2>3 DEF AtClock
  <2>5. c \notin AtClock
    BY <1>1, <1>2, <2>3
  <2>6. Cardinality(AtClock') = k + 1
    BY <1>2, <2>4, <2>5, FS_AddElement
  <2>7. Alias' = {c}
    BY <2>1, <2>2, <2>3 DEF Alias
  <2>8. \A b \in backups : b.time = c.time => b.ord # c.ord
    BY <1>1, <1>2, <2>3 DEF AtClock
  <2>9. \A n \in Nat : n < k + 1 <=> \E b \in AtClock' : b.ord = n
    BY <1>1, <1>2, <2>3, <2>4
  <2>10. \A a, b \in backups' : a.gen = 1 /\ b.gen = 1 /\ a.time = b.time /\ a.ord = b.ord => a = b
    BY <1>1, <2>1, <2>2, <2>8
  <2> HIDE DEF k
  <2>11. \A b \in Alias' : b.time = clock' /\ b.gen = 1 /\ b.ord + 1 = k + 1
    BY <2>1, <2>3, <2>7
  <2>12. k + 1 <= MaxBackups
    BY <1>2, <2>1
  <2> QED
    BY <2>6, <2>9, <2>10, <2>11, <2>12 DEF OrdInv
<1>9. CASE Unlinks
  <2>1. UNCHANGED <<backups, clock>> /\ active' = None
    BY <1>9 DEF Unlinks
  <2>2. Alias' = {}
    BY <1>3, <2>1 DEF Alias, None
  <2> QED
    BY <1>4, <2>1, <2>2 DEF AtClock
<1>10. CASE TakesBack
  <2>1. backups' = backups \ Alias /\ UNCHANGED <<active, clock>>
    BY <1>10 DEF TakesBack
  <2>2. Alias' = {}
    BY <2>1 DEF Alias
  <2>3. CASE Alias = {}
    BY <1>4, <2>1, <2>2, <2>3 DEF AtClock
  <2>4. CASE Alias # {}
    <3>1. PICK c \in Alias : TRUE
      BY <2>4
    <3>2. Alias = {c} /\ c \in backups /\ c.time = clock /\ c.gen = 1 /\ c.ord + 1 = k
      BY <1>1, <3>1, OneAlias DEF Alias
    <3>3. AtClock' = AtClock \ {c} /\ c \in AtClock
      BY <2>1, <3>2 DEF AtClock
    <3>4. Cardinality(AtClock') = k - 1
      BY <1>2, <3>3, FS_RemoveElement
    <3>5. k - 1 \in Nat /\ c.ord = k - 1
      BY <1>2, <1>3, <3>2
    <3>6. \A b \in AtClock : b.gen = 1 /\ b \in backups /\ b.time = clock
      BY DEF AtClock, DirInv, TypeOK, Backup
    <3>7. \A b \in AtClock : b.ord = k - 1 => b = c
      BY <1>1, <3>2, <3>5, <3>6
    <3> HIDE DEF k
    <3>8. \A n \in Nat : n < k - 1 <=> \E b \in AtClock' : b.ord = n
      <4> SUFFICES ASSUME NEW n \in Nat
                   PROVE  n < k - 1 <=> \E b \in AtClock' : b.ord = n
        OBVIOUS
      <4>1. n < k <=> \E b \in AtClock : b.ord = n
        BY <1>1
      <4>2. n < k - 1 => \E b \in AtClock' : b.ord = n
        BY <1>2, <3>3, <3>5, <4>1
      <4>3. (\E b \in AtClock' : b.ord = n) => n < k - 1
        <5>1. (\E b \in AtClock' : b.ord = n) => n # k - 1
          BY <3>3, <3>7
        <5> QED
          BY <1>2, <3>3, <4>1, <5>1
      <4> QED
        BY <4>2, <4>3
    <3>9. \A a, b \in backups' : a.gen = 1 /\ b.gen = 1 /\ a.time = b.time /\ a.ord = b.ord => a = b
      BY <1>1, <2>1
    <3>10. k - 1 <= MaxBackups
      BY <1>1, <1>2
    <3> QED
      BY <2>2, <3>4, <3>8, <3>9, <3>10 DEF OrdInv
  <2> QED
    BY <2>3, <2>4
<1>11. CASE Prunes
  <2>1. /\ backups' = backups \ Oldest /\ UNCHANGED <<active, clock>>
        /\ Alias = {} /\ Cardinality(backups) > MaxBackups
    BY <1>11 DEF Prunes
  <2>2. \A a \in Oldest : a.time # clock
    BY <2>1, OldestIsEarlier
  <2>3. AtClock' = AtClock
    BY <2>1, <2>2 DEF AtClock
  <2>4. Alias' = {}
    BY <2>1 DEF Alias
  <2> QED
    BY <1>4, <2>1, <2>3, <2>4
<1> QED
  BY <1>5, <1>6, <1>7, <1>8, <1>9, <1>10, <1>11 DEF StepEffect
(* The order of the events after a step. *)
LEMMA OrderStep ==
  ASSUME TypeOK, DirInv, OrdInv, PhaseInv, OrderInv, StepEffect
  PROVE  OrderInv'
<1>1. /\ \A i \in Inodes : \A e \in lines[i] : e < next
      /\ \A e \in pruned : e < next
      /\ \A a, b \in backups : a # b /\ ~Older(b, a) =>
           \A e \in lines[a.ino], f \in lines[b.ino] : e < f
      /\ active # None => \A b \in backups : b.ino # active =>
           \A e \in lines[b.ino], f \in lines[active] : e < f
      /\ \A e \in pruned, i \in Named : \A f \in lines[i] : e < f
  BY DEF OrderInv
<1>2. /\ next \in Nat /\ \A i \in Inodes : lines[i] \subseteq Nat
      /\ pruned \subseteq Nat /\ lines \in [Inodes -> SUBSET (1..MaxEvents)]
      /\ fresh \in Nat /\ clock \in Nat /\ active \in Inodes \cup {None}
  BY Numbers DEF TypeOK
<1>3. \A b \in backups : /\ b.time \in Nat /\ b.ord \in Nat /\ b.gen \in {0, 1}
                         /\ b.ino \in Inodes /\ b.ino \in Nat \ {0}
  BY Numbers DEF TypeOK, Backup
<1>4. \A i \in Named : i \in Inodes
  BY <1>2, <1>3 DEF Named
<1>5. CASE Stills
  <2>1. UNCHANGED <<active, backups, lines, pruned>> /\ next' \in {next, next + 1}
    BY <1>5 DEF Stills
  <2>2. Named' = Named
    BY <2>1 DEF Named
  <2>3. \A i \in Inodes : \A e \in lines[i] : e < next'
    BY <1>1, <1>2, <2>1
  <2>4. \A e \in pruned : e < next'
    BY <1>1, <1>2, <2>1
  <2> QED
    BY <1>1, <2>1, <2>2, <2>3, <2>4 DEF OrderInv
<1>6. CASE Opens
  <2>1. UNCHANGED <<backups, lines, pruned, next>> /\ active = None /\ active' = fresh
    BY <1>6 DEF Opens
  <2>2. fresh \in Inodes
    BY <1>2, <2>1, FreshIsAnInode DEF DirInv, None
  <2>3. lines[fresh] = {}
    BY <1>2, <2>2 DEF DirInv
  <2>4. Named' \subseteq Named \cup {fresh}
    BY <2>1 DEF Named
  <2> QED
    BY <1>1, <2>1, <2>3, <2>4 DEF OrderInv
<1>7. CASE Appends
  <2>1. /\ UNCHANGED <<active, backups, pruned>> /\ next' = next + 1 /\ active # None
        /\ lines' = lines \/ lines' = [lines EXCEPT ![active] = @ \cup {next}]
    BY <1>7 DEF Appends
  <2>2. \A b \in backups : b.ino # active
    BY <1>7 DEF Appends, Alias
  <2>3. active \in Inodes
    BY <1>2, <2>1
  <2>4. \A i \in Inodes : i # active => lines'[i] = lines[i]
    BY <1>2, <2>1
  <2>5. lines'[active] \subseteq lines[active] \cup {next}
    BY <1>2, <2>1, <2>3
  <2>6. Named' = Named
    BY <2>1 DEF Named
  <2>7. \A b \in backups : lines'[b.ino] = lines[b.ino]
    BY <1>3, <2>2, <2>4
  <2>8. \A i \in Inodes : \A e \in lines'[i] : e < next'
    <3> SUFFICES ASSUME NEW i \in Inodes, NEW e \in lines'[i]
                 PROVE  e < next'
      OBVIOUS
    <3>1. e \in lines[i] \/ e = next
      BY <2>4, <2>5
    <3> QED
      BY <1>1, <1>2, <2>1, <3>1
  <2>9. \A e \in pruned : e < next'
    BY <1>1, <1>2, <2>1
  <2>10. \A b \in backups : \A e \in lines[b.ino], f \in lines'[active] : e < f
    <3> SUFFICES ASSUME NEW b \in backups, NEW e \in lines[b.ino], NEW f \in lines'[active]
                 PROVE  e < f
      OBVIOUS
    <3>1. CASE f = next
      BY <1>1, <1>3, <3>1
    <3>2. CASE f \in lines[active]
      BY <1>1, <2>1, <2>2, <3>2
    <3> QED
      BY <2>5, <3>1, <3>2
  <2>11. \A e \in pruned, i \in Named : \A f \in lines'[i] : e < f
    <3> SUFFICES ASSUME NEW e \in pruned, NEW i \in Named, NEW f \in lines'[i]
                 PROVE  e < f
      OBVIOUS
    <3>1. f \in lines[i] \/ f = next
      BY <1>4, <2>4, <2>5
    <3> QED
      BY <1>1, <3>1
  <2> QED
    BY <1>1, <2>1, <2>6, <2>7, <2>8, <2>9, <2>10, <2>11 DEF OrderInv
<1>8. CASE Links
  <2>1. /\ Alias = {} /\ backups' = backups \cup {Candidate}
        /\ UNCHANGED <<active, lines, next, pruned>> /\ active # None
    BY <1>8 DEF Links
  <2>2. PICK c : c = Candidate
    OBVIOUS
  <2>3. c.time = clock /\ c.gen = 1 /\ c.ord = Cardinality(AtClock) /\ c.ino = active
    BY <2>1, <2>2, CandidateIsABackup
  <2>4. \A b \in backups : b.ino # active
    BY <2>1 DEF Alias
  <2>5. Cardinality(AtClock) \in Nat
    BY FreeOrdinalIs
  <2>6. \A b \in backups : Older(b, c)
    <3> SUFFICES ASSUME NEW b \in backups
                 PROVE  Older(b, c)
      OBVIOUS
    <3>1. b.time <= clock
      BY DEF DirInv
    <3>2. CASE b.time = clock
      <4>1. b \in AtClock
        BY <3>2 DEF AtClock
      <4>2. b.ord < Cardinality(AtClock)
        BY <4>1, <1>3 DEF OrdInv
      <4>3. b.gen = 1
        BY <1>2, <1>3, <3>2 DEF DirInv
      <4> QED
        BY <2>3, <3>2, <4>2, <4>3 DEF Older
    <3>3. CASE b.time < clock
      BY <2>3, <3>3 DEF Older
    <3> QED
      BY <1>2, <1>3, <3>1, <3>2, <3>3
  <2>7. \A a, b \in backups' : a # b /\ ~Older(b, a) =>
          \A e \in lines[a.ino], f \in lines[b.ino] : e < f
    <3> SUFFICES ASSUME NEW a \in backups', NEW b \in backups', a # b, ~Older(b, a)
                 PROVE  \A e \in lines[a.ino], f \in lines[b.ino] : e < f
      OBVIOUS
    <3>1. CASE a \in backups /\ b \in backups
      BY <1>1, <3>1
    <3>2. CASE b = c
      <4>1. a \in backups /\ a.ino # active
        BY <2>1, <2>2, <2>4, <3>2
      <4> QED
        BY <1>1, <2>1, <2>3, <3>2, <4>1
    <3>3. CASE a = c
      BY <2>1, <2>2, <2>6, <3>3
    <3> QED
      BY <2>1, <2>2, <3>1, <3>2, <3>3
  <2>8. Named' = Named
    BY <2>1, <2>2, <2>3 DEF Named
  <2>9. \A b \in backups' : b.ino # active => b \in backups
    BY <2>1, <2>2, <2>3
  <2> QED
    BY <1>1, <2>1, <2>7, <2>8, <2>9 DEF OrderInv
<1>9. CASE Unlinks
  <2>1. UNCHANGED <<backups, lines, next, pruned>> /\ active' = None
    BY <1>9 DEF Unlinks
  <2>2. Named' \subseteq Named
    BY <2>1 DEF Named
  <2> QED
    BY <1>1, <2>1, <2>2 DEF OrderInv
<1>10. CASE TakesBack
  <2>1. backups' \subseteq backups /\ UNCHANGED <<active, lines, next, pruned>>
    BY <1>10 DEF TakesBack
  <2>2. Named' \subseteq Named
    BY <2>1 DEF Named
  <2> QED
    BY <1>1, <2>1, <2>2 DEF OrderInv
<1>11. CASE Prunes
  <2>1. /\ backups' = backups \ Oldest /\ UNCHANGED <<active, lines, next>>
        /\ pruned' = pruned \cup UNION {lines[b.ino] : b \in Oldest} /\ Alias = {}
    BY <1>11 DEF Prunes
  <2>2. \A b \in backups : b.ino # active
    BY <2>1 DEF Alias
  <2>3. Named' \subseteq Named
    BY <2>1 DEF Named
  <2>4. \A a \in Oldest : a \in backups /\ \A b \in backups : a = b \/ Older(a, b) \/ ~Older(b, a)
    BY DEF Oldest
  <2>5. ASSUME NEW a \in Oldest, NEW b \in backups, a # b
        PROVE  ~Older(b, a)
    BY <2>4, <2>5, <1>3 DEF Older
  <2>6. \A e \in pruned' : e \in pruned \/ \E a \in Oldest : e \in lines[a.ino]
    BY <2>1
  <2>7. \A e \in pruned' : e < next
    BY <1>1, <1>3, <2>4, <2>6
  <2>8. \A a \in Oldest, i \in Named' : \A e \in lines[a.ino], f \in lines[i] : e < f
    <3> SUFFICES ASSUME NEW a \in Oldest, NEW i \in Named'
                 PROVE  \A e \in lines[a.ino], f \in lines[i] : e < f
      OBVIOUS
    <3>1. CASE i = active /\ active # None
      BY <1>1, <2>2, <2>4, <3>1
    <3>2. CASE \E b \in backups' : i = b.ino
      <4>1. PICK b \in backups' : i = b.ino
        BY <3>2
      <4>2. b \in backups /\ a # b
        BY <2>1
      <4> QED
        BY <1>1, <2>4, <2>5, <4>1, <4>2
    <3> QED
      BY <2>1, <3>1, <3>2 DEF Named
  <2>9. \A e \in pruned', i \in Named' : \A f \in lines[i] : e < f
    BY <1>1, <2>3, <2>6, <2>8
  <2> QED
    BY <1>1, <2>1, <2>7, <2>9 DEF OrderInv
<1> QED
  BY <1>5, <1>6, <1>7, <1>8, <1>9, <1>10, <1>11 DEF StepEffect

(* The persisted events after a step. *)
LEMMA KeptStep ==
  ASSUME TypeOK, DirInv, OrdInv, KeptInv, StepEffect
  PROVE  KeptInv'
<1>1. \A e \in acked \ (garbled \cup pruned) : \E i \in Named : e \in lines[i]
  BY DEF KeptInv
<1>2. \A b \in backups : b.ino \in Inodes /\ b.ino # None
  BY Numbers DEF TypeOK, Backup, None
<1>3. ASSUME UNCHANGED <<acked, garbled, pruned, lines>>, Named \subseteq Named'
      PROVE  KeptInv'
  BY <1>1, <1>3 DEF KeptInv
<1>4. CASE Stills
  BY <1>3, <1>4 DEF Stills, Named
<1>5. CASE Opens
  BY <1>3, <1>5 DEF Opens, Named
<1>6. CASE Appends
  <2>1. /\ acked' = acked \cup {next} /\ UNCHANGED <<active, backups, pruned>> /\ active # None
        /\ \/ garbled' = garbled \cup {next} /\ lines' = lines
           \/ lines' = [lines EXCEPT ![active] = @ \cup {next}] /\ garbled' = garbled
    BY <1>6 DEF Appends
  <2>2. Named' = Named /\ active \in Named
    BY <2>1 DEF Named
  <2>3. lines \in [Inodes -> SUBSET (1..MaxEvents)] /\ active \in Inodes
    BY <2>1 DEF TypeOK
  <2>4. \A i \in Named : i \in Inodes
    BY <1>2, <2>3 DEF Named
  <2>5. \A i \in Named : lines[i] \subseteq lines'[i]
    BY <2>1, <2>3, <2>4
  <2>6. next \in garbled' \/ next \in lines'[active]
    BY <2>1, <2>3
  <2>7. garbled \subseteq garbled'
    BY <2>1
  <2> QED
    BY <1>1, <2>1, <2>2, <2>5, <2>6, <2>7 DEF KeptInv
<1>7. CASE Links
  BY <1>3, <1>7 DEF Links, Named
<1>8. CASE Unlinks
  <2>1. PICK b \in backups : b.ino = active
    BY <1>8 DEF Unlinks, Alias
  <2>2. Named \subseteq Named'
    BY <1>8, <2>1 DEF Unlinks, Named
  <2> QED
    BY <1>3, <1>8, <2>2 DEF Unlinks
<1>9. CASE TakesBack
  <2>1. \A b \in backups : b \in backups' \/ b.ino = active
    BY <1>9 DEF TakesBack, Alias
  <2>2. active' = active
    BY <1>9 DEF TakesBack
  <2>3. Named \subseteq Named'
    <3> SUFFICES ASSUME NEW i \in Named
                 PROVE  i \in Named'
      OBVIOUS
    <3>1. CASE i = active /\ active # None
      BY <2>2, <3>1 DEF Named
    <3>2. CASE \E b \in backups : i = b.ino
      <4>1. PICK b \in backups : i = b.ino
        BY <3>2
      <4> QED
        BY <1>2, <2>1, <2>2, <4>1 DEF Named
    <3> QED
      BY <3>1, <3>2 DEF Named
  <2> QED
    BY <1>3, <1>9, <2>3 DEF TakesBack
<1>10. CASE Prunes
  <2>1. /\ backups' = backups \ Oldest /\ UNCHANGED <<active, lines, acked, garbled>>
        /\ pruned' = pruned \cup UNION {lines[b.ino] : b \in Oldest}
    BY <1>10 DEF Prunes
  <2>2. \A e \in acked \ (garbled \cup pruned') : \E i \in Named' : e \in lines[i]
    <3> SUFFICES ASSUME NEW e \in acked \ (garbled \cup pruned')
                 PROVE  \E i \in Named' : e \in lines[i]
      OBVIOUS
    <3>1. PICK i \in Named : e \in lines[i]
      BY <1>1, <2>1
    <3>2. \A b \in Oldest : i # b.ino
      BY <2>1, <3>1
    <3>3. i \in Named'
      BY <2>1, <3>2 DEF Named
    <3> QED
      BY <3>1, <3>3
  <2> QED
    BY <2>1, <2>2 DEF KeptInv
<1> QED
  BY <1>4, <1>5, <1>6, <1>7, <1>8, <1>9, <1>10 DEF StepEffect
(* After an open, or one that failed, of an audit.jsonl with no other name. *)
LEMMA OpenPhase ==
  ASSUME TypeOK, DirInv, PhaseInv, OpenActive \/ OpenFails,
         Alias = {}, pending = {}, pending' = {}, pc' \in {"idle", "pruning"},
         UNCHANGED <<clock, next, acked, garbled, pruned>>
  PROVE  PhaseInv'
<1>1. fresh \in Nat /\ next \in Nat /\ active < fresh /\ Cardinality(Legacy) \in Nat
  BY Numbers DEF TypeOK, DirInv
<1>2. \A b \in backups : b.ino < fresh /\ b.ino \in Nat
  BY Numbers DEF TypeOK, DirInv, Backup
<1>3. Alias' = {}
  <2>1. backups' = backups /\ (active' = active \/ active' = fresh)
    BY DEF OpenActive, OpenFails
  <2>2. \A b \in backups : b.ino # active
    BY DEF Alias
  <2>3. \A b \in backups : b.ino # fresh
    BY <1>1, <1>2
  <2> QED
    BY <2>1, <2>2, <2>3 DEF Alias
<1>4. fresh + Credit <= Cardinality(Legacy) + 1 + next
  BY DEF PhaseInv
<1>5. fresh' + Credit' <= Cardinality(Legacy) + 1 + next'
  <2>1. CASE OpenActive
    BY <1>1, <1>4, <2>1 DEF OpenActive, Credit, None
  <2>2. CASE OpenFails
    BY <1>1, <1>4, <2>2 DEF OpenFails, Credit, None
  <2> QED
    BY <2>1, <2>2
<1>6. file' # None => file' = active'
  BY DEF OpenActive, OpenFails
<1> QED
  BY <1>3, <1>5, <1>6 DEF PhaseInv

(* The phases after a step. *)
LEMMA PhaseStep ==
  ASSUME TypeOK, DirInv, OrdInv, PhaseInv, Next
  PROVE  PhaseInv'
<1>1. /\ pc = "closing" => file # None
      /\ pc \in {"linking", "removing"} => file = None /\ active # None
      /\ pc = "removing" => Alias # {}
      /\ pc \in {"closing", "linking"} => Cardinality(AtClock) < MaxBackups
      /\ pending # {} => pending = Alias /\ pc = "idle" /\ file = None
      /\ Alias # {} => pc \in {"removing", "cleaning"} \/ pending # {}
      /\ file # None => file = active /\ Alias = {}
      /\ fresh + Credit <= Cardinality(Legacy) + 1 + next
  BY DEF PhaseInv
<1>2. fresh \in Nat /\ next \in Nat /\ Cardinality(Legacy) \in Nat /\ Credit \in {0, 1} /\ Credit' \in {0, 1}
  BY Numbers DEF TypeOK, Credit
<1>3. \A b \in backups : b.ino # None
  BY Numbers DEF TypeOK, Backup, None
<1>4. ASSUME UNCHANGED <<active, backups>>
      PROVE  Alias' = Alias
  BY <1>4 DEF Alias
<1>5. ASSUME UNCHANGED <<clock, backups>>
      PROVE  AtClock' = AtClock
  BY <1>5 DEF AtClock
<1>6. CASE EnsureAvailable
  <2>1. pending = {} /\ Alias = {} /\ pending' = {} /\ pc' = "idle"
    BY <1>1, <1>6 DEF EnsureAvailable
  <2> QED
    BY <1>6, <2>1, OpenPhase DEF EnsureAvailable, histVars
<1>7. CASE DropPending
  <2>1. /\ pc = "idle" /\ pc' = pc /\ pending = Alias /\ pending # {} /\ file' = None
        /\ UNCHANGED <<active, fresh, next>>
    BY <1>1, <1>7 DEF DropPending, fileVars
  <2>2. Credit' = Credit
    BY <2>1 DEF Credit
  <2>3. CASE backups' = backups \ pending /\ pending' = {}
    <3>1. Alias' = {}
      BY <2>1, <2>3 DEF Alias
    <3> QED
      BY <1>1, <2>1, <2>2, <2>3, <3>1 DEF PhaseInv
  <2>4. CASE UNCHANGED <<backups, pending>>
    BY <1>1, <1>4, <2>1, <2>2, <2>4 DEF PhaseInv
  <2> QED
    BY <1>7, <2>3, <2>4 DEF DropPending
<1>8. CASE Write
  <2>1. /\ pc = "idle" /\ file # None /\ pc' \in {"closing", "idle"} /\ next' = next + 1
        /\ UNCHANGED <<active, backups, file, pending, fresh>> /\ clock' \in Instants
    BY <1>8 DEF Write
  <2>2. file = active /\ Alias = {} /\ pending = {} /\ Alias' = {}
    BY <1>1, <1>4, <2>1
  <2>3. Cardinality(AtClock') < MaxBackups
    <3>1. AtClock' = {b \in backups : b.time = clock'}
      BY <2>1 DEF AtClock
    <3> QED
      BY <2>1, <3>1 DEF Instants
  <2>4. fresh + 0 <= Cardinality(Legacy) + 1 + next
    BY <1>1, <2>1, <2>2 DEF Credit
  <2>5. fresh' + Credit' <= Cardinality(Legacy) + 1 + next'
    BY <1>2, <2>1, <2>4
  <2> QED
    BY <2>1, <2>2, <2>3, <2>5 DEF PhaseInv
<1>9. CASE WriteFails
  <2>1. /\ pc = "idle" /\ file # None /\ pc' = "idle" /\ next' = next + 1
        /\ UNCHANGED <<active, backups, file, pending, fresh>>
    BY <1>9 DEF WriteFails, fileVars
  <2>2. Credit' = Credit
    BY <2>1 DEF Credit
  <2>3. fresh' + Credit' <= Cardinality(Legacy) + 1 + next'
    BY <1>1, <1>2, <2>1, <2>2
  <2> QED
    BY <1>1, <1>4, <2>1, <2>3 DEF PhaseInv
<1>10. CASE CloseActive
  <2>1. pc = "closing" /\ file # None /\ pending = {} /\ Alias = {} /\ pending' = {} /\ file = active
    BY <1>1, <1>10 DEF CloseActive
  <2>2. CASE RecoverActive
    BY <1>10, <2>1, <2>2, OpenPhase DEF CloseActive, RecoverActive, histVars
  <2>3. CASE file' = None /\ pc' = "linking" /\ UNCHANGED <<active, backups, lines, torn, fresh>>
    <3>1. UNCHANGED <<clock, next>>
      BY <1>10 DEF CloseActive
    <3>2. Credit' = Credit
      BY <2>1, <2>3 DEF Credit
    <3>3. Alias' = {} /\ AtClock' = AtClock
      BY <1>4, <1>5, <2>1, <2>3, <3>1
    <3>4. Cardinality(AtClock') < MaxBackups
      BY <1>1, <2>1, <3>3
    <3> QED
      BY <1>1, <2>1, <2>3, <3>1, <3>2, <3>3, <3>4 DEF PhaseInv
  <2> QED
    BY <1>10, <2>2, <2>3 DEF CloseActive
<1>11. CASE LinkFails
  <2>1. pending = {} /\ Alias = {} /\ pending' = {} /\ pc' = "idle"
    BY <1>1, <1>11 DEF LinkFails, RecoverActive
  <2> QED
    BY <1>11, <2>1, OpenPhase DEF LinkFails, RecoverActive, histVars
<1>12. CASE Link
  <2>1. /\ pc = "linking" /\ pc' = "removing" /\ UNCHANGED <<file, active, pending, next, fresh>>
        /\ backups' = backups \cup {Candidate}
    BY <1>12 DEF Link, fileVars
  <2>2. pending = {} /\ file = None /\ active # None
    BY <1>1, <2>1
  <2>3. Candidate \in Alias'
    BY <2>1, <2>2, CandidateIsABackup DEF Alias
  <2>4. Credit' = Credit
    BY <2>1 DEF Credit
  <2> QED
    BY <1>1, <2>1, <2>2, <2>3, <2>4 DEF PhaseInv
<1>13. CASE RemoveActive
  <2>1. /\ pc = "removing" /\ pc' = "opening" /\ UNCHANGED <<file, backups, pending, next, fresh>>
        /\ active' = None
    BY <1>13 DEF RemoveActive, fileVars
  <2>2. Alias' = {}
    BY <1>3, <2>1 DEF Alias
  <2>3. Credit' = Credit
    BY <2>1 DEF Credit
  <2> QED
    BY <1>1, <2>1, <2>2, <2>3 DEF PhaseInv
<1>14. CASE Rollback
  <2>1. /\ pc = "removing" /\ pc' = "recovering" /\ UNCHANGED <<file, active, pending, next, fresh>>
        /\ backups' = backups \ Alias
    BY <1>14 DEF Rollback, fileVars
  <2>2. Alias' = {}
    BY <2>1 DEF Alias
  <2>3. fresh' + Credit' <= Cardinality(Legacy) + 1 + next'
    <3>1. Credit = 1
      BY <2>1 DEF Credit
    <3> QED
      BY <1>1, <1>2, <2>1, <3>1
  <2> QED
    BY <1>1, <2>1, <2>2, <2>3 DEF PhaseInv
<1>15. CASE RollbackFails
  <2>1. /\ pc = "removing" /\ pc' = "idle" /\ UNCHANGED <<file, active, backups, next, fresh>>
        /\ pending' = Alias
    BY <1>15 DEF RollbackFails, fileVars, dirVars
  <2>2. Alias' = Alias
    BY <1>4, <2>1
  <2>3. fresh' + Credit' <= Cardinality(Legacy) + 1 + next'
    <3>1. Credit = 1
      BY <2>1 DEF Credit
    <3> QED
      BY <1>1, <1>2, <2>1, <3>1
  <2> QED
    BY <1>1, <2>1, <2>2, <2>3 DEF PhaseInv
<1>16. CASE Recover
  <2>1. pending = {} /\ Alias = {} /\ pending' = {} /\ pc' = "idle"
    BY <1>1, <1>16 DEF Recover, RecoverActive
  <2> QED
    BY <1>16, <2>1, OpenPhase DEF Recover, RecoverActive, histVars
<1>17. CASE OpenReplacement
  <2>1. pending = {} /\ Alias = {} /\ pending' = {} /\ pc' \in {"idle", "pruning"}
    BY <1>1, <1>17 DEF OpenReplacement, RecoverActive
  <2> QED
    BY <1>17, <2>1, OpenPhase DEF OpenReplacement, RecoverActive, histVars
<1>18. CASE Prune
  <2>1. /\ pc = "pruning" /\ pc' = pc /\ UNCHANGED <<file, active, pending, next, fresh>>
        /\ backups' \subseteq backups
    BY <1>18 DEF Prune, fileVars
  <2>2. Alias = {} /\ pending = {}
    BY <1>1, <2>1
  <2>3. Alias' = {}
    BY <2>1, <2>2 DEF Alias
  <2>4. Credit' = Credit
    BY <2>1 DEF Credit
  <2> QED
    BY <1>1, <2>1, <2>2, <2>3, <2>4 DEF PhaseInv
<1>19. CASE PruneEnds
  <2>1. /\ pc = "pruning" /\ pc' = "idle" /\ UNCHANGED <<file, active, backups, pending, next, fresh>>
    BY <1>19 DEF PruneEnds, fileVars, dirVars
  <2>2. Credit' = Credit
    BY <2>1 DEF Credit
  <2> QED
    BY <1>1, <1>4, <2>1, <2>2 DEF PhaseInv
<1>20. CASE Close
  <2>1. /\ pc = "idle" /\ pc' = pc /\ UNCHANGED <<active, backups, pending, next, fresh>>
        /\ file # None /\ file' = None
    BY <1>20 DEF Close, dirVars
  <2>2. Credit' = Credit
    BY <2>1 DEF Credit
  <2> QED
    BY <1>1, <1>4, <2>1, <2>2 DEF PhaseInv
<1>21. CASE Crash
  <2>1. /\ pc' = "cleaning" /\ UNCHANGED <<active, backups, next, fresh>>
        /\ pending' = {} /\ file' = None
    BY <1>21 DEF Crash, dirVars
  <2>2. fresh' + Credit' <= Cardinality(Legacy) + 1 + next'
    <3>1. Credit' = 1 => Credit = 1
      BY <2>1 DEF Credit
    <3> QED
      BY <1>1, <1>2, <2>1, <3>1
  <2> QED
    BY <1>4, <2>1, <2>2 DEF PhaseInv
<1>22. CASE CleanupAliasedBackups
  <2>1. /\ pc = "cleaning" /\ pc' = "booting" /\ UNCHANGED <<file, active, pending, next, fresh>>
        /\ backups' = backups \ Alias
    BY <1>22 DEF CleanupAliasedBackups, fileVars
  <2>2. Alias' = {}
    BY <2>1 DEF Alias
  <2>3. Credit' = Credit
    BY <2>1 DEF Credit
  <2> QED
    BY <1>1, <2>1, <2>2, <2>3 DEF PhaseInv
<1>23. CASE Boot
  <2>1. pending = {} /\ Alias = {} /\ pending' = {} /\ pc' = "idle"
    BY <1>1, <1>23 DEF Boot
  <2> QED
    BY <1>23, <2>1, OpenPhase DEF Boot, histVars
<1> QED
  BY <1>6, <1>7, <1>8, <1>9, <1>10, <1>11, <1>12, <1>13, <1>14, <1>15, <1>16, <1>17, <1>18,
     <1>19, <1>20, <1>21, <1>22, <1>23 DEF Next, Rotate

-----------------------------------------------------------------------------
(* The first state: the backups of an earlier NRCC and an empty file. *)
LEMMA InitInv == Init => Inv
<1> SUFFICES ASSUME Init
             PROVE  Inv
  OBVIOUS
<1> DEFINE C == Cardinality(Legacy)
<1>1. /\ active = C + 1 /\ backups = Legacy /\ lines = [i \in Inodes |-> {}] /\ torn = {}
      /\ file = active /\ size = 0 /\ pending = {} /\ pc = "idle" /\ clock = 1 /\ next = 1
      /\ fresh = active + 1 /\ acked = {} /\ garbled = {} /\ pruned = {} /\ crashes = 0
  BY DEF Init
<1>2. /\ C \in Nat /\ IsFiniteSet(Legacy) /\ MaxEvents \in Nat /\ MaxCrashes \in Nat
      /\ MaxBackups \in Nat \ {0} /\ Inodes = 1..(MaxEvents + C + MaxCrashes + 2)
      /\ \A b \in Legacy : b \in Backup /\ b.time = 0 /\ b.gen = 0 /\ b.ord = 0 /\ b.ino <= C
  BY Numbers
<1>3. active \in Inodes /\ active \in Nat /\ active # None
  BY <1>1, <1>2 DEF None
<1>4. \A b \in backups : b.ino \in Nat /\ b.ino # active
  BY <1>1, <1>2 DEF Backup
<1>5. Alias = {} /\ AtClock = {}
  BY <1>1, <1>2, <1>4 DEF Alias, AtClock
<1>6. Cardinality(AtClock) = 0
  BY <1>5, FS_EmptySet
<1>7. TypeOK
  <2>1. up \in BOOLEAN
    BY Zenon DEF Init
  <2>2. /\ active \in Inodes \cup {None} /\ file \in Inodes \cup {None}
        /\ backups \subseteq Backup /\ pending \subseteq Backup /\ torn \subseteq Inodes
        /\ lines \in [Inodes -> SUBSET (1..MaxEvents)] /\ size \in Nat /\ pc \in Phases
        /\ clock \in Nat /\ next \in 1..(MaxEvents + 1) /\ fresh \in Nat
        /\ acked \subseteq 1..MaxEvents /\ garbled \subseteq 1..MaxEvents /\ pruned \subseteq 1..MaxEvents
        /\ crashes \in 0..MaxCrashes
    BY <1>1, <1>2, <1>3 DEF Phases
  <2> QED
    BY <2>1, <2>2, Zenon DEF TypeOK
<1>8. \A b \in backups : b.ino \in Inodes
  BY <1>7 DEF TypeOK, Backup
<1>9. DirInv
  BY <1>1, <1>2, <1>4, <1>8 DEF DirInv
<1>10. OrdInv
  BY <1>1, <1>2, <1>5, <1>6 DEF OrdInv
<1>11. PhaseInv
  <2>1. Credit = 0
    BY <1>1, <1>3 DEF Credit
  <2>2. fresh + Credit <= Cardinality(Legacy) + 1 + next
    BY <1>1, <1>2, <2>1
  <2> QED
    BY <1>1, <1>5, <2>2 DEF PhaseInv
<1>12. OrderInv
  BY <1>1, <1>3, <1>8 DEF OrderInv
<1>13. KeptInv
  BY <1>1 DEF KeptInv
<1> QED
  BY <1>7, <1>9, <1>10, <1>11, <1>12, <1>13 DEF Inv

(* Every step keeps the invariant. *)
LEMMA StepInv == Inv /\ [Next]_vars => Inv'
<1> SUFFICES ASSUME Inv, [Next]_vars
             PROVE  Inv'
  OBVIOUS
<1>1. TypeOK /\ DirInv /\ OrdInv /\ PhaseInv /\ OrderInv /\ KeptInv
  BY DEF Inv
<1>2. CASE Next
  <2>1. StepEffect
    BY <1>1, <1>2, NextEffect
  <2> QED
    BY <1>1, <1>2, <2>1, TypeStep, DirStep, OrdStep, PhaseStep, OrderStep, KeptStep DEF Inv
<1>3. CASE UNCHANGED vars
  <2>1. UNCHANGED <<up, active, backups, lines, torn, file, size, pending, pc, clock, next, fresh,
                    acked, garbled, pruned, crashes>>
    BY <1>3 DEF vars, fileVars, dirVars, histVars
  <2>2. AtClock' = AtClock /\ Alias' = Alias /\ Named' = Named /\ Credit' = Credit
    BY <2>1 DEF AtClock, Alias, Named, Credit
  <2>3. TypeOK'
    BY <1>1, <2>1, Zenon DEF TypeOK
  <2>4. DirInv' /\ OrderInv' /\ KeptInv'
    BY <1>1, <2>1, <2>2 DEF DirInv, OrderInv, KeptInv
  <2>5. OrdInv' /\ PhaseInv'
    BY <1>1, <2>1, <2>2 DEF OrdInv, PhaseInv
  <2> QED
    BY <2>3, <2>4, <2>5 DEF Inv
<1> QED
  BY <1>2, <1>3

(* TypeOK of audit.go's model: the variables have their types, and an      *)
(* inode is left for every file that a rotation or a start may create.     *)
THEOREM TypeCorrect == Spec => []TypeOK
<1>1. Inv => TypeOK
  BY DEF Inv
<1> QED
  BY <1>1, InitInv, StepInv, PTL DEF Spec

(* Every event that Log has reported as persisted is in a file of the      *)
(* directory until pruneOld removes the backup that holds it; pruneOld     *)
(* removes events in their order, and rotate never leaves the service      *)
(* appending to a file that has a backup name (PersistedIsKept).           *)
THEOREM EventsAreKept == Spec => []PersistedIsKept
<1>1. Inv => PersistedIsKept
  <2> SUFFICES ASSUME Inv
               PROVE  PersistedIsKept
    OBVIOUS
  <2>1. \A e \in acked \ (garbled \cup pruned) : \E i \in Named : e \in lines[i]
    BY DEF Inv, KeptInv
  <2>2. \A e \in pruned, i \in Named : \A f \in lines[i] : e < f
    BY DEF Inv, OrderInv
  <2>3. file # None => file = active /\ Alias = {}
    BY DEF Inv, PhaseInv
  <2>4. file # None => file = active /\ \A b \in backups : b.ino # file
    BY <2>3 DEF Alias
  <2> QED
    BY <2>1, <2>2, <2>4 DEF PersistedIsKept
<1> QED
  BY <1>1, InitInv, StepInv, PTL DEF Spec
=============================================================================
