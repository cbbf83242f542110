------------------------------- MODULE Backup -------------------------------
(***************************************************************************)
(* The backup service (backup.go, backup_scheduler.go, handler/backup.go): *)
(* archives are written to a temporary file, published by a rename, pruned *)
(* by type, deleted through a marker and restored through a staging tree.  *)
(* The service has no lock of its own around these operations: HTTP        *)
(* handlers and the cron goroutine interleave between any two file system  *)
(* calls.  The archive directory, the data directory, the configuration    *)
(* file and Node-RED survive a crash of NRCC; the scheduler does not.      *)
(*                                                                         *)
(* An archive's id is its creation order.  Files are the entries of        *)
(* filesForBackup in their order, a content is a number and 0 is a missing *)
(* file.                                                                   *)
(***************************************************************************)
EXTENDS Integers, FiniteSets

CONSTANTS
  Requests,   \* handler and cron goroutines, one operation each
  Ops,        \* the operations each of them may perform
  Configs,    \* configurations a client may send
  Default,    \* defaultBackupConfig
  NFiles,     \* the files a backup covers
  MaxId,      \* bound: archives of one behaviour
  Initial,    \* types of the archives that exist at first
  Oversized,  \* contents larger than maxBackupEntrySize
  Stamp,      \* the rank of each archive's formatted createdAt among strings
  Faults,     \* the calls that may fail: see AllFaults
  MaxWrites,  \* bound: writes of Node-RED
  MaxCrashes  \* bound: crashes of NRCC

AllOps == {"manual", "other", "auto", "delete", "restore", "save", "reschedule", "retain"}

(* "create": a file of a new archive cannot be read or written; "prune"    *)
(* and "unlink": an archive cannot be removed; "quiesce" and "restart":    *)
(* Node-RED does not stop or start; "stage" and "swap": a restored file    *)
(* cannot be extracted or renamed; "config": backup_config.json cannot be  *)
(* written; "rot": the disk has damaged the oldest archive.                *)
AllFaults == {"create", "prune", "unlink", "quiesce", "restart", "stage", "swap", "config", "rot"}

Ids == 1..MaxId
Files == 1..NFiles
NoId == 0
Missing == 0
Absent == [f \in Files |-> Missing]
Types == {"manual", "auto", "pre-restore"}
(* The manifest holds the type the client sent, whatever it is. *)
RawTypes == Types \cup {"other"}
Contents == [Files -> 0..(2 + MaxWrites)]
Config == [on: BOOLEAN, schedule: {"disabled", "daily", "custom"},
           cron: {"none", "valid", "invalid"}, keep: [Types -> Nat], all: BOOLEAN]
(* backup_config.json after WriteFile has truncated it; otherwise the file *)
(* is the set of its one configuration.                                    *)
Truncated == {}

ASSUME ConstantsOK ==
  /\ Ops \in [Requests -> SUBSET AllOps]
  /\ Configs \subseteq Config /\ Default \in Config
  /\ \A t \in Types : Default.keep[t] >= 1
  /\ NFiles \in Nat \ {0} /\ MaxId \in Nat /\ MaxWrites \in Nat /\ MaxCrashes \in Nat
  /\ \E n \in 0..MaxId : Initial \in [1..n -> Types]
  /\ Stamp \in [Ids -> Nat]
  /\ \A i, j \in Ids : Stamp[i] = Stamp[j] => i = j
  /\ Faults \subseteq AllFaults
  /\ Oversized \subseteq Nat \ {0}

VARIABLES
  up,      \* NRCC runs
  arch,    \* the archives, by id
  next,    \* the id of the next archive
  data,    \* the data directory
  node,    \* Node-RED: running, stopped
  conf,    \* backup_config.json: {configuration} or Truncated
  sched,   \* the scheduler: the status and whether an entry is armed
  writes,  \* writes of Node-RED so far
  crashes, \* crashes so far
  pc,      \* the phase of each request
  job      \* the local variables of each request

vars == <<up, arch, next, data, node, conf, sched, writes, crashes, pc, job>>

-----------------------------------------------------------------------------
(* An archive: where it is in the directory (st), the type and the entries *)
(* of its manifest, and whether it still reads back: "ok", "bad" (an entry *)
(* fails its checksum) or "unreadable".                                    *)
NoArchive == [st |-> "none", type |-> "manual", files |-> Absent, manifest |-> {},
              health |-> "ok"]
NoJob == [op |-> "none", type |-> "manual", conf |-> Default, target |-> NoId, new |-> NoId,
          k |-> 0, prune |-> {}, staged |-> Absent, before |-> Absent, swapped |-> {},
          failed |-> FALSE]
(* A scheduler that has not been started. *)
Idle == [enabled |-> FALSE, spec |-> "", armed |-> FALSE, last |-> "none"]

-----------------------------------------------------------------------------
(* Pure parts. *)

(* normalizeBackupType: what describeBackup reports of a manifest's type. *)
NormalizeBackupType(t) == IF t \in Types THEN t ELSE "manual"

(* retentionForType *)
RetentionForType(c, t) == c.keep[NormalizeBackupType(t)]

(* filesForBackup, the entries that the include flags select; flows.json   *)
(* is the first one and is always there.                                   *)
FilesForBackup(c) == IF c.all THEN Files ELSE {1}

(* normalizeBackupConfig with maxInt. *)
NormalizeBackupConfig(c) ==
  [c EXCEPT !.keep = [t \in Types |-> IF c.keep[t] <= 0 THEN Default.keep[t] ELSE c.keep[t]],
            !.on = c.on /\ c.schedule # "disabled",
            !.cron = IF c.schedule = "custom" THEN c.cron ELSE "none"]

(* IsValidCron: an expression, and one that the cron library parses. *)
IsValidCron(e) == e # "none" /\ e # "invalid"

(* scheduleSpec: "" is no schedule, "invalid" is ErrInvalidBackupConfig. *)
ScheduleSpec(c) ==
  CASE ~c.on -> ""
    [] c.on /\ c.schedule = "daily" -> "daily"
    [] c.on /\ c.schedule = "custom" /\ IsValidCron(c.cron) -> "custom"
    [] OTHER -> "invalid"

(* describeBackup: an archive whose zip cannot be opened has no entry. *)
Described(i) == arch[i].health # "unreadable"

(* List: the files that end in .zip, neither .zip.tmp nor .zip.deleted. *)
Listed == {i \in Ids : arch[i].st = "zip" /\ Described(i)}

(* The newest `limit' of a set of archives stay; createdAt is compared as  *)
(* a string.                                                               *)
Newer(S, i) == {j \in S : Stamp[j] > Stamp[i]}
ExpiredOldestFirst(S, limit) ==
  {i \in S : Cardinality({j \in S : Stamp[j] < Stamp[i]}) >= limit}
Expired(S, limit) == {i \in S : Cardinality(Newer(S, i)) >= limit}

(* GetConfig: an error where the file does not parse. *)
GetConfig == {NormalizeBackupConfig(c) : c \in conf}

Init ==
  LET n == Cardinality(DOMAIN Initial)
  IN /\ up = TRUE
     /\ \E damage \in [1..n -> {"ok", "bad", "unreadable"}] :
          /\ \A i \in 1..n : damage[i] # "ok" => "rot" \in Faults /\ i = 1
          /\ arch = [i \in Ids |-> IF i <= n
                       THEN [st |-> "zip", type |-> Initial[i], health |-> damage[i],
                             files |-> [f \in Files |-> 2], manifest |-> Files]
                       ELSE NoArchive]
     /\ next = n + 1
     /\ data = [f \in Files |-> 1]
     /\ node = "running"
     /\ \E c \in {NormalizeBackupConfig(d) : d \in Configs \cup {Default}} :
          /\ ScheduleSpec(c) # "invalid"
          /\ conf = {c}
          /\ sched = [Idle EXCEPT !.enabled = c.on, !.spec = ScheduleSpec(c),
                                  !.armed = ScheduleSpec(c) # ""]
     /\ writes = 0
     /\ crashes = 0
     /\ pc = [r \in Requests |-> "idle"]
     /\ job = [r \in Requests |-> NoJob]

Goto(r, l) == pc' = [pc EXCEPT ![r] = l]
Return(r, failed) ==
  /\ Goto(r, "done")
  /\ job' = [job EXCEPT ![r] = [NoJob EXCEPT !.op = job[r].op, !.failed = failed]]

-----------------------------------------------------------------------------
(* Requests *)

(* A request r begins operation op with these locals. *)
Begin(r, op, phase, locals) ==
  /\ up /\ pc[r] = "idle" /\ op \in Ops[r]
  /\ Goto(r, phase)
  /\ job' = [job EXCEPT ![r] = locals]
  /\ UNCHANGED <<up, arch, next, data, node, conf, writes, crashes>>

(* The type of a new archive is the one the client sent. *)
PostBackup(r) ==
  /\ \E type \in {"manual", "other"} :
       Begin(r, type, "create", [NoJob EXCEPT !.op = type, !.type = type])
  /\ UNCHANGED sched

(* The cron entry fires. *)
RunAutomaticBackup(r) ==
  /\ sched.armed
  /\ sched' = [sched EXCEPT !.last = "none"]
  /\ Begin(r, "auto", "create", [NoJob EXCEPT !.op = "auto", !.type = "auto"])

DeleteBackup(r) ==
  /\ \E i \in 1..(next - 1) :
       Begin(r, "delete", "delete", [NoJob EXCEPT !.op = "delete", !.target = i])
  /\ UNCHANGED sched

RestoreBackup(r) ==
  /\ \E i \in 1..(next - 1) :
       Begin(r, "restore", "restore", [NoJob EXCEPT !.op = "restore", !.target = i])
  /\ UNCHANGED sched

PostBackupConfig(r) ==
  /\ \E c \in Configs :
       Begin(r, "save", "validate", [NoJob EXCEPT !.op = "save", !.conf = NormalizeBackupConfig(c)])
  /\ UNCHANGED sched

(* The next two read the configuration and change some of its fields; one  *)
(* that does not parse is an error.                                        *)
ConfigUnreadable(r, op) ==
  /\ conf = Truncated
  /\ Begin(r, op, "done", [NoJob EXCEPT !.op = op, !.failed = TRUE])

(* The schedule becomes the custom one of the client's expression. *)
PostSchedulerConfig(r) ==
  /\ \E e \in {"valid", "invalid"} :
       \/ /\ ~IsValidCron(e)
          /\ Begin(r, "reschedule", "done", [NoJob EXCEPT !.op = "reschedule", !.failed = TRUE])
       \/ /\ IsValidCron(e)
          /\ ConfigUnreadable(r, "reschedule")
       \/ /\ IsValidCron(e)
          /\ \E old \in GetConfig :
               Begin(r, "reschedule", "validate",
                 [NoJob EXCEPT !.op = "reschedule",
                               !.conf = NormalizeBackupConfig([old EXCEPT !.schedule = "custom",
                                                                          !.cron = e])])
  /\ UNCHANGED sched

(* One number, at least 1, becomes the limit of every type. *)
PatchStorageRetention(r) ==
  /\ \/ ConfigUnreadable(r, "retain")
     \/ \E old \in GetConfig, c \in Configs :
          /\ c.keep["manual"] >= 1
          /\ Begin(r, "retain", "validate",
               [NoJob EXCEPT !.op = "retain",
                             !.conf = NormalizeBackupConfig(
                               [old EXCEPT !.keep = [t \in Types |-> c.keep["manual"]]])])
  /\ UNCHANGED sched

Call(r) ==
  \/ PostBackup(r) \/ RunAutomaticBackup(r) \/ DeleteBackup(r) \/ RestoreBackup(r)
  \/ PostBackupConfig(r) \/ PostSchedulerConfig(r) \/ PatchStorageRetention(r)

-----------------------------------------------------------------------------
(* createBackup *)

(* The caller of createBackup gets an error: a restore goes on to its      *)
(* deferred restart, the scheduler notes it.                               *)
CreateFailedReturns(r) ==
  /\ Return(r, TRUE)
  /\ sched' = IF job[r].op = "auto" THEN [sched EXCEPT !.last = "error"] ELSE sched

CreateFailureIgnored(r) ==
  /\ Goto(r, IF job[r].op = "restore" THEN "verify" ELSE "done")
  /\ sched' = IF job[r].op = "auto" THEN [sched EXCEPT !.last = "error"] ELSE sched
  /\ UNCHANGED job

CreateFailed(r) ==
  /\ \/ /\ job[r].op = "restore"
        /\ Goto(r, "restart")
        /\ job' = [job EXCEPT ![r].failed = TRUE]
     \/ /\ job[r].op # "restore"
        /\ Return(r, TRUE)
  /\ sched' = IF job[r].op = "auto" THEN [sched EXCEPT !.last = "error"] ELSE sched

(* The configuration is read, with the defaults where that fails, and the  *)
(* temporary file is created.                                              *)
CreateBackup(r) ==
  /\ up /\ pc[r] = "create" /\ next <= MaxId
  /\ \/ /\ arch' = [arch EXCEPT ![next] = [NoArchive EXCEPT !.st = "tmp", !.type = job[r].type]]
        /\ job' = [job EXCEPT ![r].new = next, ![r].k = 1,
                     ![r].conf = IF GetConfig = {} THEN Default
                                 ELSE CHOOSE c \in GetConfig : TRUE]
        /\ next' = next + 1
        /\ Goto(r, "copy")
        /\ UNCHANGED sched
     \/ /\ "create" \in Faults
        /\ CreateFailed(r)
        /\ UNCHANGED <<arch, next>>
  /\ UNCHANGED <<up, data, node, conf, writes, crashes>>

CreateAborts(r) ==
  /\ "create" \in Faults
  /\ arch' = [arch EXCEPT ![job[r].new].st = "gone"]
  /\ CreateFailed(r)

(* addFileToZip, one file: a missing one is skipped, an error removes the  *)
(* temporary file.                                                         *)
AddFileToZip(r) ==
  /\ up /\ pc[r] = "copy" /\ job[r].k <= NFiles
  /\ LET k == job[r].k
     IN \/ /\ arch' = IF k \in FilesForBackup(job[r].conf)
                      THEN [arch EXCEPT ![job[r].new].files[k] = data[k]]
                      ELSE arch
           /\ job' = [job EXCEPT ![r].k = k + 1]
           /\ UNCHANGED <<pc, sched>>
        \/ CreateAborts(r)
  /\ UNCHANGED <<up, next, data, node, conf, writes, crashes>>

(* The archive is closed and flushed, and rewritten with a manifest that   *)
(* lists its entries and their checksums.                                  *)
PatchManifestChecksums(r) ==
  /\ up /\ pc[r] = "copy" /\ job[r].k > NFiles
  /\ \/ /\ arch' = [arch EXCEPT ![job[r].new].manifest =
                     {f \in Files : arch[job[r].new].files[f] # Missing}]
        /\ Goto(r, "publish")
        /\ UNCHANGED <<job, sched>>
     \/ CreateAborts(r)
  /\ UNCHANGED <<up, next, data, node, conf, writes, crashes>>

(* The rename to its name. *)
Publish(r) ==
  /\ up /\ pc[r] = "publish"
  /\ \/ /\ arch' = [arch EXCEPT ![job[r].new].st = "zip"]
        /\ Goto(r, "list")
        /\ UNCHANGED <<job, sched>>
     \/ CreateAborts(r)
  /\ UNCHANGED <<up, next, data, node, conf, writes, crashes>>

(* What pruneBackups is about to remove: the listed archives of this type  *)
(* past the limit, without the one just made.                              *)
ToPrune(r) ==
  Expired({i \in Listed : NormalizeBackupType(arch[i].type) = job[r].type},
          RetentionForType(job[r].conf, job[r].type)) \ {job[r].new}

(* pruneBackups reads the directory. *)
PruneBackups(r) ==
  /\ up /\ pc[r] = "list"
  /\ job' = [job EXCEPT ![r].prune = ToPrune(r)]
  /\ Goto(r, "prune")
  /\ UNCHANGED <<up, arch, next, data, node, conf, sched, writes, crashes>>

(* One os.Remove of pruneBackups, newest first; a file that is gone        *)
(* already is no error, and another error ends the loop.                   *)
PruneOne(r) ==
  /\ up /\ pc[r] = "prune" /\ job[r].prune # {}
  /\ LET i == CHOOSE x \in job[r].prune : \A y \in job[r].prune : Stamp[y] <= Stamp[x]
     IN \/ /\ arch' = IF arch[i].st = "zip" THEN [arch EXCEPT ![i].st = "gone"] ELSE arch
           /\ job' = [job EXCEPT ![r].prune = @ \ {i}]
           /\ UNCHANGED <<pc, sched>>
        \/ /\ "prune" \in Faults /\ arch[i].st = "zip"
           /\ CreateFailed(r)
           /\ UNCHANGED arch
  /\ UNCHANGED <<up, next, data, node, conf, writes, crashes>>

(* createBackup returns. *)
Created(r) ==
  /\ up /\ pc[r] = "prune" /\ job[r].prune = {}
  /\ \/ /\ job[r].op = "restore"
        /\ Goto(r, "verify")
        /\ UNCHANGED job
     \/ /\ job[r].op # "restore"
        /\ Return(r, FALSE)
  /\ sched' = IF job[r].op = "auto" THEN [sched EXCEPT !.last = "ok"] ELSE sched
  /\ UNCHANGED <<up, arch, next, data, node, conf, writes, crashes>>

-----------------------------------------------------------------------------
(* Delete *)

(* atomicRemove: the archive is renamed to its marker; a marker that an    *)
(* interrupted Delete left is removed instead.                             *)
DeleteMark(r) ==
  /\ up /\ pc[r] = "delete"
  /\ LET i == job[r].target
     IN \/ /\ arch[i].st = "marker"
           /\ arch' = [arch EXCEPT ![i].st = "gone"]
           /\ Return(r, FALSE)
        \/ /\ arch[i].st = "zip"
           /\ arch' = [arch EXCEPT ![i].st = "marker"]
           /\ Goto(r, "unlink")
           /\ UNCHANGED job
        \/ /\ arch[i].st \notin {"zip", "marker"}
           /\ Return(r, TRUE)
           /\ UNCHANGED arch
  /\ UNCHANGED <<up, next, data, node, conf, sched, writes, crashes>>

(* The marker is removed; somebody else may have done it. *)
DeleteUnlink(r) ==
  /\ up /\ pc[r] = "unlink"
  /\ LET i == job[r].target
     IN \/ /\ arch[i].st = "marker"
           /\ arch' = [arch EXCEPT ![i].st = "gone"]
           /\ Return(r, FALSE)
        \/ /\ arch[i].st # "marker" \/ "unlink" \in Faults
           /\ Return(r, TRUE)
           /\ UNCHANGED arch
  /\ UNCHANGED <<up, next, data, node, conf, sched, writes, crashes>>

-----------------------------------------------------------------------------
(* RestoreWithSafetyBackup *)

(* The archive must exist; nothing keeps it. *)
RestoreStat(r) ==
  /\ up /\ pc[r] = "restore"
  /\ \/ /\ arch[job[r].target].st = "zip"
        /\ Goto(r, "quiesce")
        /\ UNCHANGED job
     \/ /\ arch[job[r].target].st # "zip"
        /\ Return(r, TRUE)
  /\ UNCHANGED <<up, arch, next, data, node, conf, sched, writes, crashes>>

(* quiesceFunc, which is ProcessManager.Stop; then the safety backup. *)
QuiesceBestEffort(r) ==
  /\ up /\ pc[r] = "quiesce"
  /\ \/ /\ node' = "stopped"
        /\ Goto(r, "create")
        /\ job' = [job EXCEPT ![r].type = "pre-restore"]
     \/ /\ "quiesce" \in Faults
        /\ Goto(r, "create")
        /\ job' = [job EXCEPT ![r].type = "pre-restore"]
        /\ UNCHANGED node
  /\ UNCHANGED <<up, arch, next, data, conf, sched, writes, crashes>>

Quiesce(r) ==
  /\ up /\ pc[r] = "quiesce"
  /\ \/ /\ node' = "stopped"
        /\ Goto(r, "create")
        /\ job' = [job EXCEPT ![r].type = "pre-restore"]
     \/ /\ "quiesce" \in Faults
        /\ Return(r, TRUE)
        /\ UNCHANGED node
  /\ UNCHANGED <<up, arch, next, data, conf, sched, writes, crashes>>

RestoreFailed(r) ==
  /\ Goto(r, "restart")
  /\ job' = [job EXCEPT ![r].failed = TRUE]

(* verifyArchiveManifest: the manifest decodes, every entry of the archive *)
(* is in it and matches its checksum, and every one it lists is there.     *)
VerifyArchiveManifest(a) ==
  /\ a.health = "ok"
  /\ \A f \in Files : a.files[f] # Missing <=> f \in a.manifest

(* extractFileFromZip refuses an entry above the size limit, which         *)
(* addFileToZip does not apply; every entry the service writes is a plain  *)
(* file with a path below the directory, the other things it refuses.      *)
ExtractFileFromZip(a, f) == a.files[f] \notin Oversized

(* stageRestore extracts the entries that the manifest lists, and no       *)
(* others; one that is refused removes the staging tree.                   *)
Stageable(a) == \A f \in a.manifest : ExtractFileFromZip(a, f)
StageRestore(a) == [f \in Files |-> IF f \in a.manifest THEN a.files[f] ELSE Missing]

(* Restore up to the swap: the archive is opened, verified and extracted   *)
(* to the staging tree.                                                    *)
VerifyAndStage(r) ==
  /\ up /\ pc[r] = "verify"
  /\ LET a == arch[job[r].target]
     IN \/ /\ a.st = "zip" /\ VerifyArchiveManifest(a) /\ Stageable(a)
           /\ job' = [job EXCEPT ![r].staged = StageRestore(a), ![r].before = data, ![r].k = 1]
           /\ Goto(r, "swap")
        \/ /\ \/ a.st # "zip" \/ ~VerifyArchiveManifest(a) \/ ~Stageable(a)
              \/ "stage" \in Faults
           /\ RestoreFailed(r)
  /\ UNCHANGED <<up, arch, next, data, node, conf, sched, writes, crashes>>

(* swapStagingIntoDataDir: one rename per entry of the manifest; an error  *)
(* leaves the files that were renamed before it.                           *)
SwapOne(r) ==
  /\ up /\ pc[r] = "swap" /\ job[r].k <= NFiles
  /\ LET k == job[r].k
     IN \/ /\ job[r].staged[k] = Missing
           /\ job' = [job EXCEPT ![r].k = k + 1]
           /\ UNCHANGED <<data, pc>>
        \/ /\ job[r].staged[k] # Missing
           /\ data' = [data EXCEPT ![k] = job[r].staged[k]]
           /\ job' = [job EXCEPT ![r].k = k + 1, ![r].swapped = @ \cup {k}]
           /\ UNCHANGED pc
        \/ /\ job[r].staged[k] # Missing /\ "swap" \in Faults
           /\ RestoreFailed(r)
           /\ UNCHANGED data
  /\ UNCHANGED <<up, arch, next, node, conf, sched, writes, crashes>>

SwapEnds(r) ==
  /\ up /\ pc[r] = "swap" /\ job[r].k > NFiles
  /\ Goto(r, "restart")
  /\ UNCHANGED <<up, arch, next, data, node, conf, sched, writes, crashes, job>>

(* The deferred restartFunc, which is ProcessManager.Start. *)
Restart(r) ==
  /\ up /\ pc[r] = "restart"
  /\ \/ node' = "running"
     \/ "restart" \in Faults /\ UNCHANGED node
  /\ Goto(r, "done")
  /\ UNCHANGED <<up, arch, next, data, conf, sched, writes, crashes, job>>

-----------------------------------------------------------------------------
(* Configuration and scheduler *)

(* SaveConfig refuses a configuration whose schedule does not parse, then  *)
(* WriteFile truncates the file.                                           *)
SaveConfigUnchecked(r) ==
  /\ up /\ pc[r] = "validate"
  /\ conf' = Truncated
  /\ Goto(r, "write")
  /\ UNCHANGED <<up, arch, next, data, node, sched, writes, crashes, job>>

SaveConfig(r) ==
  /\ up /\ pc[r] = "validate"
  /\ \/ /\ ScheduleSpec(job[r].conf) = "invalid"
        /\ Return(r, TRUE)
        /\ UNCHANGED conf
     \/ /\ ScheduleSpec(job[r].conf) # "invalid"
        /\ conf' = Truncated
        /\ Goto(r, "write")
        /\ UNCHANGED job
  /\ UNCHANGED <<up, arch, next, data, node, sched, writes, crashes>>

WriteConfig(r) ==
  /\ up /\ pc[r] = "write"
  /\ \/ /\ conf' = {job[r].conf}
        /\ Goto(r, "apply")
        /\ UNCHANGED job
     \/ /\ "config" \in Faults
        /\ Return(r, TRUE)
        /\ UNCHANGED conf
  /\ UNCHANGED <<up, arch, next, data, node, sched, writes, crashes>>

(* backupScheduler.ApplyConfig: the entry is removed before anything else. *)
ApplyConfigTo(c) ==
  [sched EXCEPT !.enabled = c.on,
                !.spec = IF ScheduleSpec(c) = "invalid" THEN "" ELSE ScheduleSpec(c),
                !.armed = ScheduleSpec(c) \notin {"", "invalid"}]

ApplyConfig(r) ==
  /\ up /\ pc[r] = "apply"
  /\ sched' = ApplyConfigTo(job[r].conf)
  /\ Return(r, ScheduleSpec(job[r].conf) = "invalid")
  /\ UNCHANGED <<up, arch, next, data, node, conf, writes, crashes>>

-----------------------------------------------------------------------------
(* The environment *)

(* A running Node-RED saves one of its files. *)
NodeRedWrites ==
  /\ node = "running" /\ writes < MaxWrites
  /\ \E f \in Files : data' = [data EXCEPT ![f] = 3 + writes]
  /\ writes' = writes + 1
  /\ UNCHANGED <<up, arch, next, node, conf, sched, crashes, pc, job>>

(* NRCC dies with its requests and its child; temporary files, markers and *)
(* staging trees stay.                                                     *)
Crash ==
  /\ up /\ crashes < MaxCrashes
  /\ up' = FALSE
  /\ crashes' = crashes + 1
  /\ sched' = Idle
  /\ pc' = [r \in Requests |-> IF pc[r] \in {"idle", "done"} THEN pc[r] ELSE "dead"]
  /\ node' = "stopped"
  /\ UNCHANGED <<arch, next, data, conf, writes, job>>

(* backupScheduler.Start: without a readable configuration nothing is      *)
(* armed.  NRCC starts Node-RED as well.                                   *)
Boot ==
  /\ ~up
  /\ up' = TRUE
  /\ sched' = IF GetConfig = {} THEN Idle ELSE ApplyConfigTo(CHOOSE c \in GetConfig : TRUE)
  /\ node' = "running"
  /\ UNCHANGED <<arch, next, data, conf, writes, crashes, pc, job>>

-----------------------------------------------------------------------------
CreateStep(r) ==
  CreateBackup(r) \/ AddFileToZip(r) \/ PatchManifestChecksums(r) \/ Publish(r) \/ PruneBackups(r) \/ PruneOne(r) \/ Created(r)

RestoreStep(r) ==
  RestoreStat(r) \/ Quiesce(r) \/ VerifyAndStage(r) \/ SwapOne(r) \/ SwapEnds(r) \/ Restart(r)

Step(r) ==
  \/ CreateStep(r)
  \/ DeleteMark(r) \/ DeleteUnlink(r)
  \/ RestoreStep(r)
  \/ SaveConfig(r) \/ WriteConfig(r) \/ ApplyConfig(r)

Next ==
  \/ \E r \in Requests : Call(r) \/ Step(r)
  \/ NodeRedWrites
  \/ Crash
  \/ Boot

(* A handler that was called goes on, and NRCC is started again. *)
Fairness ==
  /\ \A r \in Requests : WF_vars(Step(r))
  /\ WF_vars(Boot)

Spec == Init /\ [][Next]_vars /\ Fairness

-----------------------------------------------------------------------------
(* Properties *)

Archive == [st: {"none", "tmp", "zip", "marker", "gone"}, type: RawTypes,
            files: Contents, manifest: SUBSET Files, health: {"ok", "bad", "unreadable"}]
Job == [op: AllOps \cup {"none"}, type: RawTypes, conf: Config, target: 0..MaxId,
        new: 0..MaxId, k: 0..(NFiles + 1), prune: SUBSET Ids, staged: Contents,
        before: Contents, swapped: SUBSET Files, failed: BOOLEAN]
Phases == {"idle", "create", "copy", "publish", "list", "prune", "delete", "unlink", "restore", "quiesce",
           "verify", "swap", "restart", "validate", "write", "apply", "done", "dead"}

(* Every variable keeps its type. *)
TypeOK ==
  /\ up \in BOOLEAN
  /\ arch \in [Ids -> Archive]
  /\ next \in 1..(MaxId + 1)
  /\ data \in Contents
  /\ node \in {"running", "stopped"}
  /\ conf \subseteq Config /\ \A c, d \in conf : c = d
  /\ sched \in [enabled: BOOLEAN, spec: {"", "daily", "custom"}, armed: BOOLEAN,
                last: {"none", "ok", "error"}]
  /\ writes \in 0..MaxWrites /\ crashes \in 0..MaxCrashes
  /\ pc \in [Requests -> Phases]
  /\ job \in [Requests -> Job]

(* A restore is reversible (docs/sections/recovery.md): as soon as a file  *)
(* has been replaced, the safety archive of that restore is published and  *)
(* holds what the file was, whatever happens to NRCC afterwards.           *)
RestoreIsReversible ==
  \A r \in Requests : \A f \in job[r].swapped :
    /\ arch[job[r].new].st = "zip"
    /\ arch[job[r].new].files[f] = job[r].before[f]

(* The part of it that one restore at a time guarantees: a replaced file   *)
(* that the configuration includes is in the safety archive, which was     *)
(* taken after Node-RED stopped and was not touched by the retention of    *)
(* that restore.  A failed swap and a crash in the middle are covered.     *)
SnapshotHoldsReplaced ==
  \A r \in Requests : \A f \in job[r].swapped \cap FilesForBackup(job[r].conf) :
    /\ job[r].new # NoId
    /\ arch[job[r].new].st \in {"zip", "marker", "gone"}
    /\ arch[job[r].new].st = "gone" =>
         \E q \in Requests \ {r} : job[q].op \in {"delete", "restore"}
    /\ arch[job[r].new].files[f] = job[r].before[f]

(* Files are replaced only while Node-RED is stopped (the comment in       *)
(* RestoreWithSafetyBackup), also when the stop or the snapshot fails.     *)
SwapsWhileStopped ==
  \A r \in Requests : pc[r] = "swap" => node = "stopped"

(* pruneBackups never takes one of the newest archives of a type: when it  *)
(* removes one, at least as many newer ones as the smallest limit in use   *)
(* were published, however creations, deletions and configuration changes  *)
(* interleave with its look at the directory.                              *)
Limits(t) == {NormalizeBackupConfig(c).keep[u] : c \in Configs \cup {Default}, u \in {t, "manual"}}
Floor(t) == CHOOSE n \in Limits(t) : \A m \in Limits(t) : n <= m
RetentionKeepsNewest ==
  [][\A i \in Ids :
       arch[i].st = "zip" /\ arch'[i].st = "gone" =>
         LET t == NormalizeBackupType(arch[i].type)
             ever == {j \in Ids : /\ arch[j].st \in {"zip", "marker", "gone"}
                                  /\ NormalizeBackupType(arch[j].type) = t}
         IN Cardinality(Newer(ever, i)) >= Floor(t)]_vars

(* A restore of an archive does not lose that archive: the retention that  *)
(* runs for the safety snapshot leaves the one to be restored.             *)
RestoreTargetIsKept ==
  [][\A r \in Requests :
       PruneOne(r) /\ job[r].op = "restore" =>
         arch'[job[r].target].st = arch[job[r].target].st]_vars

(* A published archive that nothing has damaged can be restored.  Not so:  *)
(* addFileToZip archives a file of any size.                               *)
ArchivesCanBeRestored ==
  \A i \in Ids : arch[i].st = "zip" /\ arch[i].health = "ok" => Stageable(arch[i])

(* While no save is under way the armed schedule is the one of the         *)
(* configuration on disk, also after a crash, a failed write or a refused  *)
(* configuration: ApplyConfig drops the old entry first, so a schedule     *)
(* that SaveConfig let through unparsed would leave none.                  *)
ScheduleFollowsConfig ==
  up /\ (\A r \in Requests : pc[r] \notin {"write", "apply"})
  => \A c \in GetConfig :
       /\ sched.spec = ScheduleSpec(c)
       /\ sched.armed <=> sched.spec # ""

(* A restore that has stopped Node-RED brings it back, whatever fails in   *)
(* between, as long as the start itself works.                             *)
RestoreBringsNodeRedBack ==
  \A r \in Requests :
    pc[r] \in {"create", "copy", "publish", "list", "prune", "verify", "swap", "restart"}
      /\ job[r].op = "restore" ~> node = "running"
=============================================================================
