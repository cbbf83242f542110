------------------------------ MODULE AuditLog ------------------------------
(***************************************************************************)
(* The audit log (audit/audit.go): events are appended to audit.jsonl;     *)
(* when it is full it is rotated by giving it a second name (link) and     *)
(* taking the first away (remove), and the oldest backups are pruned.  A   *)
(* mutex makes Log and Close atomic to each other, so the steps of one     *)
(* call are the only steps; any file system call may fail, and NRCC may    *)
(* crash between two of them.                                              *)
(*                                                                         *)
(* A file is its inode: what happens to one name of it happens to the      *)
(* other.  Events are numbered in the order of Log, 0 is no inode.         *)
(***************************************************************************)
EXTENDS Integers, Sequences, FiniteSets

CONSTANTS
  MaxEvents,  \* bound: calls of Log
  MaxSize,    \* events that fill audit.jsonl (10 MB in the code)
  MaxBackups, \* backups pruneOld keeps (5 in the code)
  Legacy,     \* backups of an earlier NRCC, whose names tell only the second
  MaxCrashes, \* bound: crashes of NRCC
  Faults      \* the calls that may fail: see AllFaults

AllFaults == {"open", "write", "short", "close", "stat", "link", "remove", "list"}
None == 0
Inodes == 1..(MaxEvents + Cardinality(Legacy) + MaxCrashes + 2)
(* A backup: the time and the ordinal its name holds and its generation,   *)
(* which is 0 for the names of earlier releases (parseBackup).             *)
Backup == [time: Nat, gen: {0, 1}, ord: Nat, ino: Inodes]

ASSUME ConstantsOK ==
  /\ MaxEvents \in Nat /\ MaxSize \in Nat \ {0} /\ MaxBackups \in Nat \ {0}
  /\ MaxCrashes \in Nat /\ Faults \subseteq AllFaults
  /\ IsFiniteSet(Legacy)
  /\ Legacy \subseteq [time: {0}, gen: {0}, ord: {0}, ino: 1..Cardinality(Legacy)]
  /\ \A a, b \in Legacy : a.ino = b.ino => a = b

VARIABLES
  up,      \* NRCC runs
  active,  \* the inode named audit.jsonl, None if there is none
  backups, \* the backup names
  lines,   \* the readable events of each inode
  torn,    \* inodes that end in a part of a line
  file,    \* the inode the service writes to, None when it has no file
  size,    \* Service.size, in events
  pending, \* pendingBackup: the name that could not be taken back, as a set
  pc,      \* the phase of the call that holds the mutex
  clock,   \* the time, which does not go back
  next,    \* the number of the next event
  fresh,   \* the next unused inode
  acked,   \* events whose Log has answered Persisted
  garbled, \* events appended behind a part of a line
  pruned,  \* events of the backups that pruneOld has removed
  crashes  \* crashes so far

fileVars == <<file, size>>
dirVars == <<active, backups, lines, torn>>
histVars == <<acked, garbled, pruned>>
vars == <<up, fileVars, dirVars, pending, pc, clock, next, fresh, histVars, crashes>>

May(fault) == fault \in Faults

Init ==
  /\ up = TRUE /\ active = Cardinality(Legacy) + 1 /\ backups = Legacy
  /\ lines = [i \in Inodes |-> {}] /\ torn = {}
  /\ file = active /\ size = 0 /\ pending = {} /\ pc = "idle"
  /\ clock = 1 /\ next = 1 /\ fresh = active + 1
  /\ acked = {} /\ garbled = {} /\ pruned = {} /\ crashes = 0

(* openActive: opens audit.jsonl or creates it, and takes its size. *)
OpenActive ==
  LET i == IF active = None THEN fresh ELSE active
  IN  /\ active' = i /\ file' = i /\ size' = Cardinality(lines[i])
      /\ fresh' = IF active = None THEN fresh + 1 ELSE fresh
      /\ UNCHANGED <<backups, lines, torn>>
OpenFails == May("open") /\ UNCHANGED <<active, backups, lines, torn, fresh>>
               /\ file' = None /\ size' = 0

(* The rest of a rotation failed: recoverActive tries to go on with the    *)
(* file there is; the call ends.                                           *)
RecoverActive == (OpenActive \/ OpenFails) /\ pc' = "idle"

-----------------------------------------------------------------------------
(* Log. *)

(* ensureAvailable: a name that a rotation could not take back is removed  *)
(* before the file is opened again.                                        *)
EnsureAvailable ==
  /\ up /\ pc = "idle" /\ file = None /\ pending = {} /\ next <= MaxEvents
  /\ (OpenActive \/ OpenFails)
  /\ UNCHANGED <<up, pending, pc, clock, next, histVars, crashes>>

DropPending ==
  /\ up /\ pc = "idle" /\ file = None /\ pending # {} /\ next <= MaxEvents
  /\ \/ backups' = backups \ pending /\ pending' = {}
     \/ May("remove") /\ UNCHANGED <<backups, pending>>
  /\ UNCHANGED <<up, fileVars, active, lines, torn, pc, clock, next, fresh, histVars, crashes>>

(* The clock reads nanoseconds: at most MaxBackups rotations, of 10 MB     *)
(* each, fall into one instant.                                            *)
Instants == {t \in {clock, clock + 1} : Cardinality({b \in backups : b.time = t}) < MaxBackups}

(* The event is appended.  Behind a part of a line it makes one unreadable *)
(* line together with it.                                                  *)
Write ==
  /\ up /\ pc = "idle" /\ file # None /\ next <= MaxEvents
  /\ next' = next + 1 /\ clock' \in Instants
  /\ IF file \in torn
       THEN garbled' = garbled \cup {next} /\ torn' = torn \ {file} /\ UNCHANGED lines
       ELSE lines' = [lines EXCEPT ![file] = @ \cup {next}] /\ UNCHANGED <<garbled, torn>>
  /\ acked' = acked \cup {next} /\ size' = size + 1
  /\ pc' = IF size' >= MaxSize THEN "closing" ELSE "idle"
  /\ UNCHANGED <<up, active, backups, file, pending, fresh, pruned, crashes>>

(* A write that fails leaves nothing or a part of the line. *)
WriteFails ==
  /\ up /\ pc = "idle" /\ file # None /\ next <= MaxEvents /\ next' = next + 1
  /\ \/ May("write") /\ UNCHANGED torn
     \/ May("short") /\ torn' = torn \cup {file}
  /\ UNCHANGED <<up, active, backups, lines, fileVars, pending, pc, clock, fresh, histVars, crashes>>

-----------------------------------------------------------------------------
(* rotate. *)

CloseActive ==
  /\ up /\ pc = "closing"
  /\ \/ file' = None /\ size' = 0 /\ pc' = "linking" /\ UNCHANGED <<active, backups, lines, torn, fresh>>
     \/ May("close") /\ RecoverActive
  /\ UNCHANGED <<up, pending, clock, next, histVars, crashes>>

(* selectBackupName: the first free ordinal of this instant. *)
FreeOrdinal == CHOOSE n \in 0..Cardinality(backups) :
  /\ ~\E b \in backups : b.time = clock /\ b.gen = 1 /\ b.ord = n
  /\ \A m \in 0..(n - 1) : \E b \in backups : b.time = clock /\ b.gen = 1 /\ b.ord = m
Candidate == [time |-> clock, gen |-> 1, ord |-> FreeOrdinal, ino |-> active]

(* A failed stat in selectBackupName and a failed link end the rotation. *)
LinkFails ==
  /\ up /\ pc = "linking" /\ (May("stat") \/ May("link")) /\ RecoverActive
  /\ UNCHANGED <<up, pending, clock, next, histVars, crashes>>

Link ==
  /\ up /\ pc = "linking" /\ backups' = backups \cup {Candidate} /\ pc' = "removing"
  /\ UNCHANGED <<up, fileVars, active, lines, torn, pending, clock, next, fresh, histVars, crashes>>

RemoveActive ==
  /\ up /\ pc = "removing" /\ active' = None /\ pc' = "opening"
  /\ UNCHANGED <<up, fileVars, backups, lines, torn, pending, clock, next, fresh, histVars, crashes>>

(* audit.jsonl cannot be removed: the new name is taken back, or is left   *)
(* pending, and then the service has no file.                              *)
Alias == {b \in backups : b.ino = active}
Rollback ==
  /\ up /\ pc = "removing" /\ May("remove") /\ backups' = backups \ Alias /\ pc' = "recovering"
  /\ UNCHANGED <<up, fileVars, active, lines, torn, pending, clock, next, fresh, histVars, crashes>>

(* Mutant: the service goes on with the file although it has two names. *)
RollbackForgotten ==
  /\ up /\ pc = "removing" /\ May("remove") /\ pc' = "recovering"
  /\ UNCHANGED <<up, fileVars, dirVars, pending, clock, next, fresh, histVars, crashes>>
RollbackFails ==
  /\ up /\ pc = "removing" /\ May("remove") /\ pending' = Alias /\ pc' = "idle"
  /\ UNCHANGED <<up, fileVars, dirVars, clock, next, fresh, histVars, crashes>>

Recover ==
  /\ up /\ pc = "recovering" /\ RecoverActive
  /\ UNCHANGED <<up, pending, clock, next, histVars, crashes>>

(* The replacement; if it cannot be opened, not even in the second try,    *)
(* the next Log tries again.                                               *)
OpenReplacement ==
  /\ up /\ pc = "opening"
  /\ \/ OpenActive /\ pc' = "pruning"
     \/ May("open") /\ RecoverActive
  /\ UNCHANGED <<up, pending, clock, next, histVars, crashes>>

(* listBackups orders by time, generation and ordinal; pruneOld removes    *)
(* the oldest of more than MaxBackups, one call at a time.                 *)
Older(a, b) ==
  \/ a.time < b.time
  \/ a.time = b.time /\ a.gen < b.gen
  \/ a.time = b.time /\ a.gen = b.gen /\ a.ord < b.ord
Oldest == {a \in backups : \A b \in backups : a = b \/ Older(a, b) \/ (~Older(b, a) /\ a.ino < b.ino)}

Prune ==
  /\ up /\ pc = "pruning" /\ Cardinality(backups) > MaxBackups
  /\ backups' = backups \ Oldest
  /\ pruned' = pruned \cup UNION {lines[b.ino] : b \in Oldest}
  /\ UNCHANGED <<up, fileVars, active, lines, torn, pending, pc, clock, next, fresh, acked, garbled,
                 crashes>>

PruneEnds ==
  /\ up /\ pc = "pruning" /\ (Cardinality(backups) <= MaxBackups \/ May("list") \/ May("remove"))
  /\ pc' = "idle"
  /\ UNCHANGED <<up, fileVars, dirVars, pending, clock, next, fresh, histVars, crashes>>

Rotate == CloseActive \/ LinkFails \/ Link \/ RemoveActive \/ Rollback \/ RollbackFails
            \/ Recover \/ OpenReplacement \/ Prune \/ PruneEnds

-----------------------------------------------------------------------------
(* Close: a later Log opens the file again. *)
Close ==
  /\ up /\ pc = "idle" /\ file # None /\ file' = None /\ size' = 0
  /\ UNCHANGED <<up, dirVars, pending, pc, clock, next, fresh, histVars, crashes>>

Crash ==
  /\ up /\ crashes < MaxCrashes /\ up' = FALSE /\ crashes' = crashes + 1
  /\ file' = None /\ size' = 0 /\ pending' = {} /\ pc' = "cleaning"
  /\ UNCHANGED <<dirVars, clock, next, fresh, histVars>>

(* newService: cleanupAliasedBackups removes names of audit.jsonl's inode, *)
(* then the file is opened; a failure of either ends NRCC, and it is       *)
(* started again.                                                          *)
CleanupAliasedBackups ==
  /\ ~up /\ pc = "cleaning" /\ backups' = backups \ Alias /\ pc' = "booting"
  /\ UNCHANGED <<up, fileVars, active, lines, torn, pending, clock, next, fresh, histVars, crashes>>

Boot ==
  /\ ~up /\ pc = "booting" /\ OpenActive /\ up' = TRUE /\ pc' = "idle"
  /\ UNCHANGED <<pending, clock, next, histVars, crashes>>

Next == EnsureAvailable \/ DropPending \/ Write \/ WriteFails \/ Rotate \/ Close
          \/ Crash \/ CleanupAliasedBackups \/ Boot

Spec == Init /\ [][Next]_vars

-----------------------------------------------------------------------------
Phases == {"idle", "closing", "linking", "removing", "recovering", "opening", "pruning",
           "cleaning", "booting"}

(* The types of the variables. *)
TypeOK ==
  /\ up \in BOOLEAN /\ active \in Inodes \cup {None} /\ file \in Inodes \cup {None}
  /\ backups \subseteq Backup /\ pending \subseteq Backup /\ torn \subseteq Inodes
  /\ lines \in [Inodes -> SUBSET (1..MaxEvents)] /\ size \in Nat /\ pc \in Phases
  /\ clock \in Nat /\ next \in 1..(MaxEvents + 1) /\ fresh \in Nat
  /\ acked \subseteq 1..MaxEvents /\ garbled \subseteq 1..MaxEvents /\ pruned \subseteq 1..MaxEvents
  /\ crashes \in 0..MaxCrashes

Named == {b.ino : b \in backups} \cup ({active} \ {None})

(* Every event that Log has reported as persisted is in a file of the      *)
(* directory, through every failed rotation and every crash, until         *)
(* pruneOld removes the backup that holds it; pruneOld has then removed    *)
(* all events before it, and the file the service appends to is never one  *)
(* that has a backup name.  The exception is an event behind a part of a   *)
(* line that a failed write has left.                                      *)
PersistedIsKept ==
  /\ \A e \in acked \ (garbled \cup pruned) : \E i \in Named : e \in lines[i]
  /\ \A e \in pruned, i \in Named : \A f \in lines[i] : e < f
  /\ file # None => file = active /\ \A b \in backups : b.ino # file
=============================================================================
