---------------------------- MODULE BackupProofs ----------------------------
(* Theorems about Backup and BackupListing, for every set of requests,     *)
(* files, archives, configurations, faults and crashes.                    *)
EXTENDS BackupListing, FiniteSetTheorems, WellFoundedInduction, TLAPS

-----------------------------------------------------------------------------
(* Types.                                                                  *)

(* The status of the scheduler, as TypeOK has it.                          *)
Status == [enabled: BOOLEAN, spec: {"", "daily", "custom"}, armed: BOOLEAN,
           last: {"none", "ok", "error"}]

(* The contents and configurations that the constants name.                *)
LEMMA ConstantTypes ==
  /\ Absent \in Contents /\ [f \in Files |-> 1] \in Contents
  /\ [f \in Files |-> 2] \in Contents
  /\ NoArchive \in Archive /\ NoJob \in Job
<1>1. MaxWrites \in Nat /\ MaxId \in Nat /\ NFiles \in Nat /\ Default \in Config
  BY ConstantsOK
<1>2. {0, 1, 2} \subseteq 0..(2 + MaxWrites)
  BY <1>1
<1>3. /\ Absent \in Contents /\ [f \in Files |-> 1] \in Contents
      /\ [f \in Files |-> 2] \in Contents
  BY <1>2 DEF Absent, Contents, Missing
<1>4. NoArchive \in Archive
  BY <1>3 DEF NoArchive, Archive, RawTypes, Types
<1>5. NoJob \in Job
  <2>1. 0 \in 0..MaxId /\ 0 \in 0..(NFiles + 1)
    BY <1>1
  <2> QED
    BY <1>1, <1>3, <2>1 DEF NoJob, Job, RawTypes, Types, NoId
<1> QED
  BY <1>3, <1>4, <1>5

(* normalizeBackupConfig returns a configuration, with limits of at least  *)
(* one, a schedule when it is on, and an expression only for a custom one. *)
LEMMA NormalizeType ==
  ASSUME NEW c \in Config
  PROVE  /\ NormalizeBackupConfig(c) \in Config
         /\ NormalizeBackupConfig(c).schedule = c.schedule
         /\ NormalizeBackupConfig(c).on = (c.on /\ c.schedule # "disabled")
         /\ NormalizeBackupConfig(c).cron = IF c.schedule = "custom" THEN c.cron ELSE "none"
         /\ NormalizeBackupConfig(c).keep
              = [t \in Types |-> IF c.keep[t] <= 0 THEN Default.keep[t] ELSE c.keep[t]]
<1> DEFINE keep == [t \in Types |-> IF c.keep[t] <= 0 THEN Default.keep[t] ELSE c.keep[t]]
           on == c.on /\ c.schedule # "disabled"
           cron == IF c.schedule = "custom" THEN c.cron ELSE "none"
<1>1. keep \in [Types -> Nat]
  BY ConstantsOK DEF Config
<1>2. on \in BOOLEAN
  BY Zenon
<1>3. cron \in {"none", "valid", "invalid"}
  BY DEF Config
<1>4. NormalizeBackupConfig(c) = [c EXCEPT !.keep = keep, !.on = on, !.cron = cron]
  BY Zenon DEF NormalizeBackupConfig
<1> HIDE DEF keep, on, cron
<1>5. /\ NormalizeBackupConfig(c) \in Config
      /\ NormalizeBackupConfig(c).schedule = c.schedule
      /\ NormalizeBackupConfig(c).on = on
      /\ NormalizeBackupConfig(c).cron = cron
      /\ NormalizeBackupConfig(c).keep = keep
  BY <1>1, <1>2, <1>3, <1>4 DEF Config
<1> QED
  BY <1>5 DEF keep, on, cron

(* Pieces of the state with one field replaced keep their types.           *)
LEMMA JobUpdates ==
  ASSUME NEW j \in Job
  PROVE  /\ \A x \in BOOLEAN : [j EXCEPT !.failed = x] \in Job
         /\ \A x \in 0..(NFiles + 1) : [j EXCEPT !.k = x] \in Job
         /\ \A x \in RawTypes : [j EXCEPT !.type = x] \in Job
         /\ \A x \in SUBSET Ids : [j EXCEPT !.prune = x] \in Job
         /\ \A x \in 0..(NFiles + 1), y \in SUBSET Files :
              [j EXCEPT !.k = x, !.swapped = y] \in Job
         /\ \A x \in 0..MaxId, y \in 0..(NFiles + 1), c \in Config :
              [j EXCEPT !.new = x, !.k = y, !.conf = c] \in Job
         /\ \A x, y \in Contents, k \in 0..(NFiles + 1) :
              [j EXCEPT !.staged = x, !.before = y, !.k = k] \in Job
         /\ \A op \in AllOps \cup {"none"} : \A x \in BOOLEAN :
              [NoJob EXCEPT !.op = op, !.failed = x] \in Job
         /\ \A op \in AllOps : \A x \in RawTypes :
              [NoJob EXCEPT !.op = op, !.type = x] \in Job
         /\ \A op \in AllOps : \A x \in 0..MaxId :
              [NoJob EXCEPT !.op = op, !.target = x] \in Job
         /\ \A op \in AllOps : \A x \in Config :
              [NoJob EXCEPT !.op = op, !.conf = x] \in Job
  BY ConstantTypes DEF Job

(* The locals that Return leaves are those of an empty call.               *)
LEMMA ReturnType ==
  ASSUME TypeOK, NEW r \in Requests, NEW failed \in BOOLEAN, Return(r, failed)
  PROVE  job' \in [Requests -> Job] /\ pc' \in [Requests -> Phases]
<1> DEFINE j == [NoJob EXCEPT !.op = job[r].op, !.failed = failed]
<1>1. job[r] \in Job
  BY DEF TypeOK
<1>2. j \in Job
  <2>1. job[r].op \in AllOps \cup {"none"}
    BY <1>1 DEF Job
  <2> QED
    BY <1>1, <2>1, JobUpdates
<1>3. job' = [job EXCEPT ![r] = j]
  BY DEF Return
<1>4. pc' = [pc EXCEPT ![r] = "done"]
  BY DEF Return, Goto
<1> HIDE DEF j
<1>5. job' \in [Requests -> Job]
  BY <1>2, <1>3 DEF TypeOK
<1>6. pc' \in [Requests -> Phases]
  BY <1>4 DEF TypeOK, Phases
<1> QED
  BY <1>5, <1>6

(* A call that begins keeps every type.                                    *)
LEMMA BeginType ==
  ASSUME TypeOK, NEW r \in Requests, NEW op, NEW phase \in Phases,
         NEW locals \in Job, Begin(r, op, phase, locals)
  PROVE  /\ job' \in [Requests -> Job] /\ pc' \in [Requests -> Phases]
         /\ UNCHANGED <<up, arch, next, data, node, conf, writes, crashes>>
  BY DEF Begin, Goto, TypeOK

(* The same for a createBackup that fails.                                 *)
LEMMA CreateFailedType ==
  ASSUME TypeOK, NEW r \in Requests, CreateFailed(r)
  PROVE  /\ job' \in [Requests -> Job] /\ pc' \in [Requests -> Phases]
         /\ sched' \in Status
<1>1. sched' \in Status
  BY DEF CreateFailed, TypeOK, Status
<1>2. CASE Goto(r, "restart") /\ job' = [job EXCEPT ![r].failed = TRUE]
  BY <1>1, <1>2, JobUpdates DEF Goto, TypeOK, Phases
<1>3. CASE Return(r, TRUE)
  BY <1>1, <1>3, ReturnType
<1> QED
  BY <1>2, <1>3 DEF CreateFailed

(* GetConfig returns configurations.                                       *)
LEMMA GetConfigType ==
  ASSUME TypeOK
  PROVE  GetConfig \subseteq Config
<1>1. conf \subseteq Config
  BY DEF TypeOK
<1>2. \A c \in Config : NormalizeBackupConfig(c) \in Config
  BY NormalizeType
<1> QED
  BY <1>1, <1>2 DEF GetConfig

(* ApplyConfig leaves a status, whatever the configuration.                *)
LEMMA ApplyConfigType ==
  ASSUME TypeOK, NEW c \in Config
  PROVE  ApplyConfigTo(c) \in Status
<1> DEFINE spec == IF ScheduleSpec(c) = "invalid" THEN "" ELSE ScheduleSpec(c)
           armed == ScheduleSpec(c) \notin {"", "invalid"}
<1>1. spec \in {"", "daily", "custom"}
  BY DEF ScheduleSpec
<1>2. armed \in BOOLEAN
  BY Zenon
<1>3. ApplyConfigTo(c) = [sched EXCEPT !.enabled = c.on, !.spec = spec, !.armed = armed]
  BY Zenon DEF ApplyConfigTo
<1>4. c.on \in BOOLEAN
  BY DEF Config
<1> HIDE DEF spec, armed
<1> QED
  BY <1>1, <1>2, <1>3, <1>4 DEF TypeOK, Status

(* Every call keeps the types.                                             *)
LEMMA CallType ==
  ASSUME TypeOK, NEW r \in Requests, Call(r)
  PROVE  TypeOK'
<1>0. SUFFICES /\ job' \in [Requests -> Job] /\ pc' \in [Requests -> Phases]
               /\ UNCHANGED <<up, arch, next, data, node, conf, writes, crashes>>
               /\ sched' \in Status
  BY DEF TypeOK, Status
<1>1. ASSUME NEW op, NEW phase \in Phases, NEW locals \in Job,
             Begin(r, op, phase, locals), UNCHANGED sched
      PROVE  /\ job' \in [Requests -> Job] /\ pc' \in [Requests -> Phases]
             /\ UNCHANGED <<up, arch, next, data, node, conf, writes, crashes>>
             /\ sched' \in Status
  BY <1>1, BeginType DEF TypeOK, Status
<1>2. \A i \in 1..(next - 1) : i \in 0..MaxId
  <2>1. MaxId \in Nat /\ next \in 1..(MaxId + 1)
    BY ConstantsOK DEF TypeOK
  <2> QED
    BY <2>1
<1>j. job[r] \in Job
  BY DEF TypeOK
<1>3. CASE PostBackup(r)
  <2>1. PICK type \in {"manual", "other"} :
          Begin(r, type, "create", [NoJob EXCEPT !.op = type, !.type = type])
    BY <1>3 DEF PostBackup
  <2>2. [NoJob EXCEPT !.op = type, !.type = type] \in Job
    BY <1>j, JobUpdates DEF AllOps, RawTypes, Types
  <2>3. UNCHANGED sched /\ "create" \in Phases
    BY <1>3 DEF PostBackup, Phases
  <2> QED
    BY <1>1, <2>1, <2>2, <2>3
<1>4. CASE RunAutomaticBackup(r)
  <2>1. Begin(r, "auto", "create", [NoJob EXCEPT !.op = "auto", !.type = "auto"])
    BY <1>4 DEF RunAutomaticBackup
  <2>2. [NoJob EXCEPT !.op = "auto", !.type = "auto"] \in Job
    BY <1>j, JobUpdates DEF AllOps, RawTypes, Types
  <2>3. "create" \in Phases
    BY DEF Phases
  <2>4. sched' \in Status
    BY <1>4 DEF RunAutomaticBackup, TypeOK, Status
  <2> QED
    BY <2>1, <2>2, <2>3, <2>4, BeginType
<1>5. CASE DeleteBackup(r)
  <2>1. PICK i \in 1..(next - 1) :
          Begin(r, "delete", "delete", [NoJob EXCEPT !.op = "delete", !.target = i])
    BY <1>5 DEF DeleteBackup
  <2>2. [NoJob EXCEPT !.op = "delete", !.target = i] \in Job
    BY <1>j, <1>2, JobUpdates DEF AllOps
  <2>3. UNCHANGED sched /\ "delete" \in Phases
    BY <1>5 DEF DeleteBackup, Phases
  <2> QED
    BY <1>1, <2>1, <2>2, <2>3
<1>6. CASE RestoreBackup(r)
  <2>1. PICK i \in 1..(next - 1) :
          Begin(r, "restore", "restore", [NoJob EXCEPT !.op = "restore", !.target = i])
    BY <1>6 DEF RestoreBackup
  <2>2. [NoJob EXCEPT !.op = "restore", !.target = i] \in Job
    BY <1>j, <1>2, JobUpdates DEF AllOps
  <2>3. UNCHANGED sched /\ "restore" \in Phases
    BY <1>6 DEF RestoreBackup, Phases
  <2> QED
    BY <1>1, <2>1, <2>2, <2>3
<1>7. ASSUME NEW op \in AllOps, NEW c \in Config,
             Begin(r, op, "validate", [NoJob EXCEPT !.op = op, !.conf = NormalizeBackupConfig(c)]),
             UNCHANGED sched
      PROVE  /\ job' \in [Requests -> Job] /\ pc' \in [Requests -> Phases]
             /\ UNCHANGED <<up, arch, next, data, node, conf, writes, crashes>>
             /\ sched' \in Status
  <2>1. NormalizeBackupConfig(c) \in Config /\ "validate" \in Phases
    BY NormalizeType DEF Phases
  <2>2. [NoJob EXCEPT !.op = op, !.conf = NormalizeBackupConfig(c)] \in Job
    BY <1>j, <2>1, JobUpdates
  <2> QED
    BY <1>1, <1>7, <2>1, <2>2
<1>8. ASSUME NEW op \in AllOps, UNCHANGED sched,
             Begin(r, op, "done", [NoJob EXCEPT !.op = op, !.failed = TRUE])
      PROVE  /\ job' \in [Requests -> Job] /\ pc' \in [Requests -> Phases]
             /\ UNCHANGED <<up, arch, next, data, node, conf, writes, crashes>>
             /\ sched' \in Status
  <2>1. [NoJob EXCEPT !.op = op, !.failed = TRUE] \in Job /\ "done" \in Phases
    BY <1>j, JobUpdates DEF Phases
  <2> QED
    BY <1>1, <1>8, <2>1
<1>9. CASE PostBackupConfig(r)
  <2>1. PICK c \in Configs :
          Begin(r, "save", "validate", [NoJob EXCEPT !.op = "save", !.conf = NormalizeBackupConfig(c)])
    BY <1>9 DEF PostBackupConfig
  <2>2. c \in Config /\ UNCHANGED sched /\ "save" \in AllOps
    BY <1>9, ConstantsOK DEF PostBackupConfig, AllOps
  <2> QED
    BY <1>7, <2>1, <2>2
<1>10. CASE PostSchedulerConfig(r)
  <2>1. "reschedule" \in AllOps /\ UNCHANGED sched
    BY <1>10 DEF AllOps, PostSchedulerConfig
  <2>2. CASE Begin(r, "reschedule", "done", [NoJob EXCEPT !.op = "reschedule", !.failed = TRUE])
    BY <1>8, <2>1, <2>2
  <2>3. ASSUME NEW e \in {"valid", "invalid"}, NEW old \in GetConfig,
               Begin(r, "reschedule", "validate",
                 [NoJob EXCEPT !.op = "reschedule",
                               !.conf = NormalizeBackupConfig([old EXCEPT !.schedule = "custom",
                                                                          !.cron = e])])
        PROVE  /\ job' \in [Requests -> Job] /\ pc' \in [Requests -> Phases]
               /\ UNCHANGED <<up, arch, next, data, node, conf, writes, crashes>>
               /\ sched' \in Status
    <3>1. [old EXCEPT !.schedule = "custom", !.cron = e] \in Config
      BY <2>3, GetConfigType DEF Config
    <3> QED
      BY <1>7, <2>1, <2>3, <3>1
  <2> QED
    BY <1>10, <2>2, <2>3 DEF PostSchedulerConfig, ConfigUnreadable
<1>11. CASE PatchStorageRetention(r)
  <2>1. "retain" \in AllOps /\ UNCHANGED sched
    BY <1>11 DEF AllOps, PatchStorageRetention
  <2>2. CASE ConfigUnreadable(r, "retain")
    BY <1>8, <2>1, <2>2 DEF ConfigUnreadable
  <2>3. ASSUME NEW old \in GetConfig, NEW c \in Configs,
               Begin(r, "retain", "validate",
                 [NoJob EXCEPT !.op = "retain",
                               !.conf = NormalizeBackupConfig(
                                 [old EXCEPT !.keep = [t \in Types |-> c.keep["manual"]]])])
        PROVE  /\ job' \in [Requests -> Job] /\ pc' \in [Requests -> Phases]
               /\ UNCHANGED <<up, arch, next, data, node, conf, writes, crashes>>
               /\ sched' \in Status
    <3>1. c.keep["manual"] \in Nat
      BY ConstantsOK DEF Config, Types
    <3>2. [old EXCEPT !.keep = [t \in Types |-> c.keep["manual"]]] \in Config
      BY <3>1, GetConfigType DEF Config
    <3> QED
      BY <1>7, <2>1, <2>3, <3>2
  <2> QED
    BY <1>11, <2>2, <2>3 DEF PatchStorageRetention
<1> QED
  BY <1>3, <1>4, <1>5, <1>6, <1>9, <1>10, <1>11 DEF Call

-----------------------------------------------------------------------------
(* What the locals of a request hold in each phase.                        *)

Creating == {"create", "copy", "publish", "list", "prune"}

(* The phases of a restore in which Node-RED must not run.                 *)
Guarding == Creating \cup {"verify", "swap"}

JobOK(r) ==
  /\ pc[r] = "idle" => job[r] = NoJob
  /\ ~up => pc[r] \in {"idle", "done", "dead"}
  /\ job[r].op \in Ops[r] \cup {"none"}
  /\ job[r].new < next
  /\ pc[r] \in {"delete", "unlink"} => job[r].op = "delete" /\ job[r].target \in Ids
  /\ pc[r] \in {"restore", "quiesce", "verify", "swap", "restart"} => job[r].op = "restore"
  /\ job[r].op = "restore" /\ pc[r] \notin {"idle", "done"} => job[r].target \in Ids
  /\ pc[r] \in {"copy", "publish", "list", "prune", "verify", "swap"} => job[r].new # NoId
  /\ pc[r] \in {"copy", "swap"} => job[r].k >= 1
  /\ pc[r] \in Creating => (job[r].op = "restore" <=> job[r].type = "pre-restore")
  /\ job[r].swapped # {} => /\ pc[r] \in {"swap", "restart", "done", "dead"}
                            /\ job[r].op = "restore" /\ job[r].new # NoId

JobInv == \A r \in Requests : JobOK(r)

(* Every step of a request keeps the types.                                *)
LEMMA StepType ==
  ASSUME TypeOK, NEW r \in Requests, JobOK(r), Step(r)
  PROVE  TypeOK'
<1>j. job[r] \in Job /\ job \in [Requests -> Job] /\ pc \in [Requests -> Phases]
  BY DEF TypeOK
<1>n. NFiles \in Nat /\ MaxId \in Nat /\ next \in 1..(MaxId + 1)
  BY ConstantsOK DEF TypeOK
<1>k. job[r].k \in 0..(NFiles + 1)
  BY <1>j DEF Job
<1>s. sched \in Status
  BY DEF TypeOK, Status
<1>a. ASSUME NEW x \in {"none", "tmp", "zip", "marker", "gone"}, NEW i
      PROVE  [arch EXCEPT ![i].st = x] \in [Ids -> Archive]
  BY <1>a DEF TypeOK, Archive
<1>b. ASSUME job' \in [Requests -> Job], pc' \in [Requests -> Phases], sched' \in Status,
             arch' \in [Ids -> Archive], next' \in 1..(MaxId + 1), data' \in Contents,
             node' \in {"running", "stopped"},
             conf' \subseteq Config /\ \A c, d \in conf' : c = d,
             UNCHANGED <<up, writes, crashes>>
      PROVE  TypeOK'
  BY <1>b DEF TypeOK, Status
<1>u. /\ next \in 1..(MaxId + 1) /\ data \in Contents /\ node \in {"running", "stopped"}
      /\ conf \subseteq Config /\ (\A c, d \in conf : c = d)
      /\ arch \in [Ids -> Archive]
  BY DEF TypeOK
<1>c. ASSUME CreateAborts(r), UNCHANGED <<up, next, data, node, conf, writes, crashes>>
      PROVE  TypeOK'
  <2>1. arch' \in [Ids -> Archive]
    BY <1>a, <1>c DEF CreateAborts
  <2> QED
    BY <1>b, <1>c, <1>u, <2>1, CreateFailedType DEF CreateAborts
<1>1. CASE CreateBackup(r)
  <2>1. CASE UNCHANGED <<arch, next>> /\ CreateFailed(r)
    BY <1>1, <1>b, <1>u, <2>1, CreateFailedType DEF CreateBackup
  <2>2. CASE ~(UNCHANGED <<arch, next>> /\ CreateFailed(r))
    <3> DEFINE c == IF GetConfig = {} THEN Default ELSE CHOOSE c \in GetConfig : TRUE
               a == [NoArchive EXCEPT !.st = "tmp", !.type = job[r].type]
               j == [job[r] EXCEPT !.new = next, !.k = 1, !.conf = c]
    <3>1. c \in Config
      BY GetConfigType, ConstantsOK
    <3>2. a \in Archive
      BY <1>j, ConstantTypes DEF Archive, Job
    <3>3. /\ arch' = [arch EXCEPT ![next] = a] /\ job' = [job EXCEPT ![r] = j]
          /\ next' = next + 1 /\ pc' = [pc EXCEPT ![r] = "copy"] /\ next <= MaxId
          /\ UNCHANGED <<up, data, node, conf, sched, writes, crashes>>
      BY <1>1, <2>2 DEF CreateBackup, Goto
    <3>4. 1 \in 0..(NFiles + 1) /\ next \in 0..MaxId /\ next' \in 1..(MaxId + 1)
      BY <1>n, <3>3
    <3>5. j \in Job
      <4> HIDE DEF c
      <4> QED
        BY <1>j, <3>1, <3>4, JobUpdates
    <3> HIDE DEF a, j
    <3>6. arch' \in [Ids -> Archive] /\ job' \in [Requests -> Job]
      BY <1>j, <1>u, <3>2, <3>3, <3>5
    <3>7. pc' \in [Requests -> Phases]
      BY <1>j, <3>3 DEF Phases
    <3> QED
      BY <1>b, <1>s, <1>u, <3>3, <3>4, <3>6, <3>7
  <2> QED
    BY <2>1, <2>2
<1>2. CASE AddFileToZip(r)
  <2>1. CASE CreateAborts(r)
    BY <1>2, <1>c, <2>1 DEF AddFileToZip
  <2>2. CASE ~CreateAborts(r)
    <3> DEFINE k == job[r].k
               j == [job[r] EXCEPT !.k = k + 1]
               added == [arch EXCEPT ![job[r].new].files[k] = data[k]]
    <3>1. /\ arch' = (IF k \in FilesForBackup(job[r].conf) THEN added ELSE arch)
          /\ job' = [job EXCEPT ![r] = j] /\ k <= NFiles
          /\ UNCHANGED <<up, pc, sched, next, data, node, conf, writes, crashes>>
      BY <1>2, <2>2 DEF AddFileToZip
    <3>2. k + 1 \in 0..(NFiles + 1)
      BY <1>k, <1>n, <3>1
    <3>3. j \in Job
      BY <1>j, <3>2, JobUpdates
    <3>4. added \in [Ids -> Archive]
      <4>1. \A i \in Ids : arch[i] \in Archive /\ arch[i].files \in Contents
        BY <1>u DEF Archive
      <4>2. \A i \in Ids : [arch[i].files EXCEPT ![k] = data[k]] \in Contents
        BY <1>u, <4>1 DEF Contents
      <4> QED
        BY <1>u, <4>1, <4>2 DEF Archive
    <3> HIDE DEF j, added, k
    <3>5. arch' \in [Ids -> Archive] /\ job' \in [Requests -> Job]
      BY <1>j, <1>u, <3>1, <3>3, <3>4
    <3> QED
      BY <1>b, <1>j, <1>s, <1>u, <3>1, <3>5
  <2> QED
    BY <2>1, <2>2
<1>3. CASE PatchManifestChecksums(r)
  <2>1. CASE CreateAborts(r)
    BY <1>3, <1>c, <2>1 DEF PatchManifestChecksums
  <2>2. CASE ~CreateAborts(r)
    <3> DEFINE m == {f \in Files : arch[job[r].new].files[f] # Missing}
    <3>1. /\ arch' = [arch EXCEPT ![job[r].new].manifest = m]
          /\ pc' = [pc EXCEPT ![r] = "publish"]
          /\ UNCHANGED <<up, job, sched, next, data, node, conf, writes, crashes>>
      BY <1>3, <2>2 DEF PatchManifestChecksums, Goto
    <3>2. m \in SUBSET Files
      OBVIOUS
    <3> HIDE DEF m
    <3>3. arch' \in [Ids -> Archive]
      BY <1>u, <3>1, <3>2 DEF Archive
    <3>4. pc' \in [Requests -> Phases]
      BY <1>j, <3>1 DEF Phases
    <3> QED
      BY <1>b, <1>j, <1>s, <1>u, <3>1, <3>3, <3>4
  <2> QED
    BY <2>1, <2>2
<1>4. CASE Publish(r)
  <2>1. CASE CreateAborts(r)
    BY <1>4, <1>c, <2>1 DEF Publish
  <2>2. CASE ~CreateAborts(r)
    <3>1. arch' \in [Ids -> Archive]
      BY <1>4, <1>a, <2>2 DEF Publish
    <3>2. pc' \in [Requests -> Phases]
      BY <1>4, <1>j, <2>2 DEF Publish, Goto, Phases
    <3> QED
      BY <1>4, <1>b, <1>j, <1>s, <1>u, <2>2, <3>1, <3>2 DEF Publish
  <2> QED
    BY <2>1, <2>2
<1>5. CASE PruneBackups(r)
  <2>1. ToPrune(r) \in SUBSET Ids
    BY DEF ToPrune, Expired, Listed
  <2>2. job' \in [Requests -> Job]
    <3> DEFINE j == [job[r] EXCEPT !.prune = ToPrune(r)]
    <3>1. j \in Job
      BY <1>j, <2>1, JobUpdates
    <3>2. job' = [job EXCEPT ![r] = j]
      BY <1>5 DEF PruneBackups
    <3> HIDE DEF j
    <3> QED
      BY <1>j, <3>1, <3>2
  <2>3. pc' \in [Requests -> Phases]
    BY <1>5, <1>j DEF PruneBackups, Goto, Phases
  <2> QED
    BY <1>5, <1>b, <1>s, <1>u, <2>2, <2>3 DEF PruneBackups
<1>6. CASE PruneOne(r)
  <2>1. CASE CreateFailed(r) /\ UNCHANGED arch
    BY <1>6, <1>b, <1>u, <2>1, CreateFailedType DEF PruneOne
  <2>2. CASE ~(CreateFailed(r) /\ UNCHANGED arch)
    <3> DEFINE i == CHOOSE x \in job[r].prune : \A y \in job[r].prune : Stamp[y] <= Stamp[x]
               j == [job[r] EXCEPT !.prune = @ \ {i}]
               gone == [arch EXCEPT ![i].st = "gone"]
    <3>1. /\ arch' = (IF arch[i].st = "zip" THEN gone ELSE arch)
          /\ job' = [job EXCEPT ![r] = j]
          /\ UNCHANGED <<up, pc, sched, next, data, node, conf, writes, crashes>>
      BY <1>6, <2>2 DEF PruneOne
    <3> HIDE DEF i
    <3>2. gone \in [Ids -> Archive]
      BY <1>a
    <3>3. j \in Job
      BY <1>j DEF Job
    <3> HIDE DEF j, gone
    <3>4. arch' \in [Ids -> Archive] /\ job' \in [Requests -> Job]
      BY <1>j, <1>u, <3>1, <3>2, <3>3
    <3> QED
      BY <1>b, <1>j, <1>s, <1>u, <3>1, <3>4
  <2> QED
    BY <2>1, <2>2
<1>7. CASE Created(r)
  <2>1. sched' \in Status
    BY <1>7, <1>s DEF Created, Status
  <2>2. job' \in [Requests -> Job] /\ pc' \in [Requests -> Phases]
    <3>1. CASE Goto(r, "verify") /\ UNCHANGED job
      BY <1>j, <3>1 DEF Goto, Phases
    <3>2. CASE Return(r, FALSE)
      BY <3>2, ReturnType
    <3> QED
      BY <1>7, <3>1, <3>2 DEF Created
  <2> QED
    BY <1>7, <1>b, <1>u, <2>1, <2>2 DEF Created
<1>8. CASE DeleteMark(r) \/ DeleteUnlink(r)
  <2>1. job' \in [Requests -> Job] /\ pc' \in [Requests -> Phases]
    <3>1. CASE Goto(r, "unlink") /\ UNCHANGED job
      BY <1>j, <3>1 DEF Goto, Phases
    <3>2. CASE Return(r, FALSE) \/ Return(r, TRUE)
      BY <3>2, ReturnType
    <3> QED
      BY <1>8, <3>1, <3>2 DEF DeleteMark, DeleteUnlink
  <2>2. arch' \in [Ids -> Archive]
    <3> DEFINE i == job[r].target
    <3>1. /\ [arch EXCEPT ![i].st = "gone"] \in [Ids -> Archive]
          /\ [arch EXCEPT ![i].st = "marker"] \in [Ids -> Archive]
      BY <1>a
    <3>2. arch' \in {arch, [arch EXCEPT ![i].st = "gone"], [arch EXCEPT ![i].st = "marker"]}
      BY <1>8 DEF DeleteMark, DeleteUnlink
    <3> QED
      BY <1>u, <3>1, <3>2
  <2>3. UNCHANGED <<up, next, data, node, conf, sched, writes, crashes>>
    BY <1>8 DEF DeleteMark, DeleteUnlink
  <2> QED
    BY <1>b, <1>s, <1>u, <2>1, <2>2, <2>3
<1>9. CASE RestoreStat(r)
  <2>1. job' \in [Requests -> Job] /\ pc' \in [Requests -> Phases]
    <3>1. CASE Goto(r, "quiesce") /\ UNCHANGED job
      BY <1>j, <3>1 DEF Goto, Phases
    <3>2. CASE Return(r, TRUE)
      BY <3>2, ReturnType
    <3> QED
      BY <1>9, <3>1, <3>2 DEF RestoreStat
  <2> QED
    BY <1>9, <1>b, <1>s, <1>u, <2>1 DEF RestoreStat
<1>10. CASE Quiesce(r)
  <2>1. job' \in [Requests -> Job] /\ pc' \in [Requests -> Phases]
    <3>1. CASE Goto(r, "create") /\ job' = [job EXCEPT ![r].type = "pre-restore"]
      <4>1. "pre-restore" \in RawTypes
        BY DEF RawTypes, Types
      <4> QED
        BY <1>j, <3>1, <4>1, JobUpdates DEF Goto, Phases
    <3>2. CASE Return(r, TRUE)
      BY <3>2, ReturnType
    <3> QED
      BY <1>10, <3>1, <3>2 DEF Quiesce
  <2>2. node' \in {"running", "stopped"}
    BY <1>10, <1>u DEF Quiesce
  <2> QED
    BY <1>10, <1>b, <1>s, <1>u, <2>1, <2>2 DEF Quiesce
<1>11. ASSUME RestoreFailed(r)
       PROVE  job' \in [Requests -> Job] /\ pc' \in [Requests -> Phases]
  BY <1>11, <1>j, JobUpdates DEF RestoreFailed, Goto, Phases
<1>12. CASE VerifyAndStage(r)
  <2> DEFINE a == arch[job[r].target]
             j == [job[r] EXCEPT !.staged = StageRestore(a), !.before = data, !.k = 1]
  <2>1. job' \in [Requests -> Job] /\ pc' \in [Requests -> Phases]
    <3>1. CASE RestoreFailed(r)
      BY <1>11, <3>1
    <3>2. CASE ~RestoreFailed(r)
      <4>1. /\ a.st = "zip" /\ VerifyArchiveManifest(a)
            /\ job' = [job EXCEPT ![r] = j] /\ pc' = [pc EXCEPT ![r] = "swap"]
        BY <1>12, <3>2 DEF VerifyAndStage, Goto
      <4>2. 1 \in 0..(NFiles + 1)
        BY <1>n
      <4>3. StageRestore(a) \in Contents
        <5>1. a \in Archive
          BY <1>12, <1>u DEF VerifyAndStage, JobOK
        <5>2. 0 \in 0..(2 + MaxWrites)
          BY ConstantsOK
        <5> QED
          BY <5>1, <5>2 DEF StageRestore, Archive, Contents, Missing
      <4>4. j \in Job
        BY <1>j, <1>u, <4>2, <4>3, JobUpdates
      <4> HIDE DEF j
      <4> QED
        BY <1>j, <4>1, <4>4 DEF Phases
    <3> QED
      BY <3>1, <3>2
  <2> QED
    BY <1>12, <1>b, <1>s, <1>u, <2>1 DEF VerifyAndStage
<1>13. CASE SwapOne(r)
  <2> DEFINE k == job[r].k
  <2>1. k <= NFiles /\ k >= 1 /\ k \in Files /\ k + 1 \in 0..(NFiles + 1)
    BY <1>13, <1>k, <1>n DEF SwapOne, JobOK, Files
  <2>2. CASE RestoreFailed(r) /\ UNCHANGED data
    BY <1>11, <1>13, <1>b, <1>s, <1>u, <2>2 DEF SwapOne
  <2>3. CASE job' = [job EXCEPT ![r].k = k + 1] /\ UNCHANGED <<data, pc>>
    <3>1. job' \in [Requests -> Job]
      BY <1>j, <2>1, <2>3, JobUpdates
    <3> QED
      BY <1>13, <1>b, <1>j, <1>s, <1>u, <2>3, <3>1 DEF SwapOne
  <2>4. CASE /\ data' = [data EXCEPT ![k] = job[r].staged[k]]
             /\ job' = [job EXCEPT ![r].k = k + 1, ![r].swapped = @ \cup {k}]
             /\ UNCHANGED pc
    <3> DEFINE j == [job[r] EXCEPT !.k = k + 1, !.swapped = job[r].swapped \cup {k}]
    <3>1. job[r].swapped \cup {k} \in SUBSET Files /\ job[r].staged \in Contents
      BY <1>j, <2>1 DEF Job
    <3>2. j \in Job
      BY <1>j, <2>1, <3>1, JobUpdates
    <3>3. job' = [job EXCEPT ![r] = j]
      BY <1>j, <2>4
    <3> HIDE DEF j
    <3>4. job' \in [Requests -> Job]
      BY <1>j, <3>2, <3>3
    <3>5. data' \in Contents
      BY <1>u, <2>1, <2>4, <3>1 DEF Contents
    <3> QED
      BY <1>13, <1>b, <1>j, <1>s, <1>u, <2>4, <3>4, <3>5 DEF SwapOne
  <2> QED
    BY <1>13, <2>2, <2>3, <2>4 DEF SwapOne
<1>14. CASE SwapEnds(r) \/ Restart(r)
  <2>1. pc' \in [Requests -> Phases] /\ node' \in {"running", "stopped"}
    BY <1>14, <1>j, <1>u DEF SwapEnds, Restart, Goto, Phases
  <2>2. UNCHANGED <<up, arch, next, data, conf, sched, writes, crashes, job>>
    BY <1>14 DEF SwapEnds, Restart
  <2> QED
    BY <1>b, <1>j, <1>s, <1>u, <2>1, <2>2
<1>15. CASE SaveConfig(r) \/ WriteConfig(r)
  <2>1. job' \in [Requests -> Job] /\ pc' \in [Requests -> Phases]
    <3>1. CASE (Goto(r, "write") \/ Goto(r, "apply")) /\ UNCHANGED job
      BY <1>j, <3>1 DEF Goto, Phases
    <3>2. CASE Return(r, TRUE)
      BY <3>2, ReturnType
    <3> QED
      BY <1>15, <3>1, <3>2 DEF SaveConfig, WriteConfig
  <2>2. conf' \subseteq Config /\ \A c, d \in conf' : c = d
    <3>1. job[r].conf \in Config
      BY <1>j DEF Job
    <3>2. conf' \in {conf, {}, {job[r].conf}}
      BY <1>15 DEF SaveConfig, WriteConfig, Truncated
    <3> QED
      BY <1>u, <3>1, <3>2
  <2>3. UNCHANGED <<up, arch, next, data, node, sched, writes, crashes>>
    BY <1>15 DEF SaveConfig, WriteConfig
  <2> QED
    BY <1>b, <1>s, <1>u, <2>1, <2>2, <2>3
<1>16. CASE ApplyConfig(r)
  <2>1. sched' \in Status
    <3>1. job[r].conf \in Config
      BY <1>j DEF Job
    <3> QED
      BY <1>16, <3>1, ApplyConfigType DEF ApplyConfig
  <2> DEFINE failed == ScheduleSpec(job[r].conf) = "invalid"
  <2>2. failed \in BOOLEAN /\ Return(r, failed)
    BY <1>16 DEF ApplyConfig
  <2> HIDE DEF failed
  <2>3. job' \in [Requests -> Job] /\ pc' \in [Requests -> Phases]
    BY <2>2, ReturnType
  <2> QED
    BY <1>16, <1>b, <1>u, <2>1, <2>3 DEF ApplyConfig
<1> QED
  BY <1>1, <1>2, <1>3, <1>4, <1>5, <1>6, <1>7, <1>8, <1>9, <1>10, <1>12, <1>13,
     <1>14, <1>15, <1>16
  DEF Step, CreateStep, RestoreStep

(* The environment keeps the types.                                        *)
LEMMA EnvironmentType ==
  ASSUME TypeOK, NodeRedWrites \/ Crash \/ Boot
  PROVE  TypeOK'
<1>1. CASE NodeRedWrites
  <2>1. writes' \in 0..MaxWrites /\ 3 + writes \in 0..(2 + MaxWrites)
    <3>1. MaxWrites \in Nat /\ writes \in 0..MaxWrites /\ writes < MaxWrites
          /\ writes' = writes + 1
      BY <1>1, ConstantsOK DEF NodeRedWrites, TypeOK
    <3> QED
      BY <3>1
  <2>2. data' \in Contents
    BY <1>1, <2>1 DEF NodeRedWrites, TypeOK, Contents
  <2> QED
    BY <1>1, <2>1, <2>2 DEF NodeRedWrites, TypeOK
<1>2. CASE Crash
  <2>1. crashes' \in 0..MaxCrashes
    <3>1. MaxCrashes \in Nat /\ crashes \in 0..MaxCrashes /\ crashes < MaxCrashes
          /\ crashes' = crashes + 1
      BY <1>2, ConstantsOK DEF Crash, TypeOK
    <3> QED
      BY <3>1
  <2>2. pc' \in [Requests -> Phases]
    BY <1>2 DEF Crash, TypeOK, Phases
  <2>3. sched' \in Status
    BY <1>2 DEF Crash, Idle, Status
  <2> QED
    BY <1>2, <2>1, <2>2, <2>3 DEF Crash, TypeOK, Status
<1>3. CASE Boot
  <2>1. sched' \in Status
    <3>1. CASE GetConfig = {}
      BY <1>3, <3>1 DEF Boot, Idle, Status
    <3>2. CASE GetConfig # {}
      <4>1. (CHOOSE c \in GetConfig : TRUE) \in Config
        BY <3>2, GetConfigType
      <4> QED
        BY <1>3, <3>2, <4>1, ApplyConfigType DEF Boot
    <3> QED
      BY <3>1, <3>2
  <2> QED
    BY <1>3, <2>1 DEF Boot, TypeOK, Status
<1> QED
  BY <1>1, <1>2, <1>3

(* The number of archives that exist at first.                             *)
LEMMA InitialCount ==
  /\ Cardinality(DOMAIN Initial) \in 0..MaxId
  /\ Initial \in [1..Cardinality(DOMAIN Initial) -> Types]
<1>1. PICK n \in 0..MaxId : Initial \in [1..n -> Types]
  BY ConstantsOK
<1>2. MaxId \in Nat
  BY ConstantsOK
<1>3. Cardinality(1..n) = n
  BY <1>2, FS_Interval
<1> QED
  BY <1>1, <1>3

(* The first states are well typed and no request has begun.               *)
LEMMA InitType == Init => TypeOK /\ JobInv
<1> SUFFICES ASSUME Init PROVE TypeOK /\ JobInv
  OBVIOUS
<1> DEFINE n == Cardinality(DOMAIN Initial)
<1>1. n \in 0..MaxId /\ Initial \in [1..n -> Types] /\ MaxId \in Nat
  BY InitialCount, ConstantsOK
<1>2. arch \in [Ids -> Archive]
  <2>1. PICK damage \in [1..n -> {"ok", "bad", "unreadable"}] :
          arch = [i \in Ids |-> IF i <= n
                    THEN [st |-> "zip", type |-> Initial[i], health |-> damage[i],
                          files |-> [f \in Files |-> 2], manifest |-> Files]
                    ELSE NoArchive]
    BY DEF Init
  <2>2. ASSUME NEW i \in Ids, i <= n
        PROVE  [st |-> "zip", type |-> Initial[i], health |-> damage[i],
                files |-> [f \in Files |-> 2], manifest |-> Files] \in Archive
    <3>1. i \in 1..n
      BY <1>1, <2>2 DEF Ids
    <3> QED
      BY <1>1, <3>1, ConstantTypes DEF Archive, RawTypes
  <2> QED
    BY <2>1, <2>2, ConstantTypes
<1>3. PICK c \in {NormalizeBackupConfig(d) : d \in Configs \cup {Default}} :
        /\ ScheduleSpec(c) # "invalid"
        /\ conf = {c}
        /\ sched = [Idle EXCEPT !.enabled = c.on, !.spec = ScheduleSpec(c),
                                !.armed = ScheduleSpec(c) # ""]
  BY Zenon DEF Init
<1> DEFINE armed == ScheduleSpec(c) # ""
<1>4. c \in Config
  <2>1. \A d \in Configs \cup {Default} : d \in Config
    BY ConstantsOK
  <2>2. \A d \in Config : NormalizeBackupConfig(d) \in Config
    BY NormalizeType
  <2> QED
    BY <2>1, <2>2
<1>5. sched \in Status
  <2>1. armed \in BOOLEAN
    BY Zenon
  <2>2. ScheduleSpec(c) \in {"", "daily", "custom"} /\ c.on \in BOOLEAN
    BY <1>3, <1>4 DEF ScheduleSpec, Config
  <2>3. sched = [Idle EXCEPT !.enabled = c.on, !.spec = ScheduleSpec(c), !.armed = armed]
    BY <1>3
  <2> HIDE DEF armed
  <2> QED
    BY <2>1, <2>2, <2>3 DEF Idle, Status
<1>6. next \in 1..(MaxId + 1) /\ writes \in 0..MaxWrites /\ crashes \in 0..MaxCrashes
  BY <1>1, ConstantsOK DEF Init
<1>7. conf \subseteq Config /\ \A x, y \in conf : x = y
  BY <1>3, <1>4
<1>8. TypeOK
  BY <1>2, <1>5, <1>6, <1>7, ConstantTypes DEF Init, TypeOK, Phases, Status
<1>9. \A r \in Requests : pc[r] = "idle" /\ job[r] = NoJob /\ up /\ 0 < next
  BY <1>1, <1>6 DEF Init
<1>10. JobInv
  <2>1. NoJob.op = "none" /\ NoJob.new = 0 /\ NoJob.swapped = {}
    BY DEF NoJob, NoId
  <2> QED
    BY <1>9, <2>1 DEF JobInv, JobOK, Creating
<1> QED
  BY <1>8, <1>10

(* Every call is the beginning of an operation.                            *)
LEMMA CallBegins ==
  ASSUME NEW r \in Requests, Call(r)
  PROVE  \E op, phase, locals : Begin(r, op, phase, locals)
  BY Zenon DEF Call, PostBackup, RunAutomaticBackup, DeleteBackup, RestoreBackup,
    PostBackupConfig, PostSchedulerConfig, PatchStorageRetention, ConfigUnreadable

(* A request changes nothing of the others, and ids are never taken back.  *)
LEMMA RequestFrame ==
  ASSUME TypeOK, NEW r \in Requests, Call(r) \/ Step(r)
  PROVE  /\ \A q \in Requests \ {r} : pc'[q] = pc[q] /\ job'[q] = job[q]
         /\ up /\ up' = up /\ next' \in {next, next + 1} /\ next' >= next
<1>0. next \in Nat /\ pc \in [Requests -> Phases] /\ job \in [Requests -> Job]
  <2>1. MaxId \in Nat /\ next \in 1..(MaxId + 1)
    BY ConstantsOK DEF TypeOK
  <2>2. next \in Nat
    BY <2>1
  <2> QED
    BY <2>2 DEF TypeOK
<1> USE <1>0 DEF Goto, Return, CreateFailed, RestoreFailed, CreateAborts
<1>1. CASE Call(r)
  <2>1. PICK op, phase, locals : Begin(r, op, phase, locals)
    BY <1>1, CallBegins
  <2> QED
    BY <2>1 DEF Begin
<1>2. CASE CreateBackup(r)
  BY <1>2 DEF CreateBackup
<1>3. CASE AddFileToZip(r)
  BY <1>3 DEF AddFileToZip
<1>4. CASE PatchManifestChecksums(r)
  BY <1>4 DEF PatchManifestChecksums
<1>5. CASE Publish(r)
  BY <1>5 DEF Publish
<1>6. CASE PruneBackups(r)
  BY <1>6 DEF PruneBackups
<1>7. CASE PruneOne(r)
  BY <1>7 DEF PruneOne
<1>8. CASE Created(r)
  BY <1>8 DEF Created
<1>9. CASE DeleteMark(r)
  BY <1>9 DEF DeleteMark
<1>10. CASE DeleteUnlink(r)
  BY <1>10 DEF DeleteUnlink
<1>11. CASE RestoreStat(r)
  BY <1>11 DEF RestoreStat
<1>12. CASE Quiesce(r)
  BY <1>12 DEF Quiesce
<1>13. CASE VerifyAndStage(r)
  BY <1>13 DEF VerifyAndStage
<1>14. CASE SwapOne(r)
  BY <1>14 DEF SwapOne
<1>15. CASE SwapEnds(r)
  BY <1>15 DEF SwapEnds
<1>16. CASE Restart(r)
  BY <1>16 DEF Restart
<1>17. CASE SaveConfig(r)
  BY <1>17 DEF SaveConfig
<1>18. CASE WriteConfig(r)
  BY <1>18 DEF WriteConfig
<1>19. CASE ApplyConfig(r)
  BY <1>19 DEF ApplyConfig
<1> QED
  BY <1>1, <1>2, <1>3, <1>4, <1>5, <1>6, <1>7, <1>8, <1>9, <1>10, <1>11,
      <1>12, <1>13, <1>14, <1>15, <1>16, <1>17, <1>18, <1>19 DEF Step, CreateStep, RestoreStep

(* The locals after Return are those of an empty call.                     *)
LEMMA ReturnedJob ==
  ASSUME TypeOK, NEW r \in Requests, NEW failed \in BOOLEAN, Return(r, failed)
  PROVE  /\ pc'[r] = "done" /\ job'[r].op = job[r].op
         /\ job'[r].new = NoId /\ job'[r].swapped = {}
         /\ job'[r].conf = Default /\ job'[r].prune = {}
<1>1. /\ pc' = [pc EXCEPT ![r] = "done"]
      /\ job' = [job EXCEPT ![r] = [NoJob EXCEPT !.op = job[r].op, !.failed = failed]]
  BY DEF Return, Goto
<1> DEFINE j == [NoJob EXCEPT !.op = job[r].op, !.failed = failed]
<1>2. /\ j.op = job[r].op /\ j.new = NoId /\ j.swapped = {} /\ j.conf = Default
      /\ j.prune = {}
  BY DEF NoJob
<1> HIDE DEF j
<1>3. job' = [job EXCEPT ![r] = j]
  BY <1>1 DEF j
<1> QED
  BY <1>1, <1>2, <1>3 DEF TypeOK

(* A call starts from empty locals with an operation of its own.           *)
LEMMA CallJob ==
  ASSUME TypeOK, NEW r \in Requests, Call(r)
  PROVE  /\ pc[r] = "idle" /\ up
         /\ job'[r].op \in Ops[r] /\ job'[r].new = NoId /\ job'[r].swapped = {}
         /\ job'[r].prune = {}
         /\ pc'[r] \in {"create", "delete", "restore", "validate", "done"}
         /\ pc'[r] = "create" =>
              /\ job'[r].op # "restore" /\ job'[r].type # "pre-restore"
         /\ pc'[r] \in {"delete", "restore"} =>
              job'[r].op = pc'[r] /\ job'[r].target \in Ids
         /\ job'[r].op = "restore" => pc'[r] = "restore"
<1>t. pc \in [Requests -> Phases] /\ job \in [Requests -> Job]
  BY DEF TypeOK
<1>i. \A i \in 1..(next - 1) : i \in Ids
  <2>1. MaxId \in Nat /\ next \in 1..(MaxId + 1)
    BY ConstantsOK DEF TypeOK
  <2> QED
    BY <2>1 DEF Ids
<1>b. ASSUME NEW op, NEW phase, NEW locals, Begin(r, op, phase, locals)
      PROVE  /\ pc[r] = "idle" /\ up /\ op \in Ops[r]
             /\ pc'[r] = phase /\ job'[r] = locals
  BY <1>b, <1>t DEF Begin, Goto
<1>n. NoJob.new = NoId /\ NoJob.swapped = {} /\ NoJob.prune = {}
  BY DEF NoJob
<1>1. CASE PostBackup(r) \/ RunAutomaticBackup(r)
  <2>1. PICK type \in {"manual", "other", "auto"} :
          Begin(r, type, "create", [NoJob EXCEPT !.op = type, !.type = type])
    BY <1>1, Zenon DEF PostBackup, RunAutomaticBackup
  <2> DEFINE j == [NoJob EXCEPT !.op = type, !.type = type]
  <2>2. j.op = type /\ j.type = type /\ j.new = NoId /\ j.swapped = {} /\ j.prune = {}
    BY DEF NoJob
  <2>3. Begin(r, type, "create", j)
    BY <2>1
  <2> HIDE DEF j
  <2> QED
    BY <1>b, <2>2, <2>3
<1>2. CASE DeleteBackup(r) \/ RestoreBackup(r)
  <2>1. PICK op \in {"delete", "restore"}, i \in 1..(next - 1) :
          Begin(r, op, op, [NoJob EXCEPT !.op = op, !.target = i])
    BY <1>2, Zenon DEF DeleteBackup, RestoreBackup
  <2> DEFINE j == [NoJob EXCEPT !.op = op, !.target = i]
  <2>2. j.op = op /\ j.target = i /\ j.new = NoId /\ j.swapped = {} /\ j.prune = {}
    BY DEF NoJob
  <2>3. Begin(r, op, op, j)
    BY <2>1
  <2> HIDE DEF j
  <2> QED
    BY <1>b, <1>i, <2>2, <2>3
<1>3. CASE PostBackupConfig(r) \/ PostSchedulerConfig(r) \/ PatchStorageRetention(r)
  <2>1. PICK op, phase, locals :
          /\ op \in {"save", "reschedule", "retain"} /\ phase \in {"validate", "done"}
          /\ Begin(r, op, phase, locals)
          /\ \/ \E c : locals = [NoJob EXCEPT !.op = op, !.conf = c]
             \/ locals = [NoJob EXCEPT !.op = op, !.failed = TRUE]
    BY <1>3, Zenon DEF PostBackupConfig, PostSchedulerConfig, PatchStorageRetention,
                       ConfigUnreadable
  <2>2. /\ locals.op = op /\ locals.new = NoId /\ locals.swapped = {}
        /\ locals.prune = {}
    BY <2>1 DEF NoJob
  <2>3. Begin(r, op, phase, locals)
    BY <2>1
  <2>4. /\ pc[r] = "idle" /\ up /\ op \in Ops[r]
        /\ pc'[r] = phase /\ job'[r] = locals
    BY <1>b, <2>3
  <2> QED
    BY <2>1, <2>2, <2>4
<1> QED
  BY <1>1, <1>2, <1>3 DEF Call

(* A set of naturals has a least member.                                   *)
LEMMA LeastExists ==
  ASSUME NEW T, T \subseteq Nat, T # {}
  PROVE  \E x \in T : \A y \in T : x <= y
<1>1. PICK x \in T : \A y \in T : ~(<<y, x>> \in OpToRel(<, Nat))
  BY WFMin, NatLessThanWellFounded
<1>2. \A y \in T : ~(y < x)
  BY <1>1 DEF OpToRel
<1> QED
  BY <1>2

(* Of some archives one is the newest.                                     *)
LEMMA NewestExists ==
  ASSUME NEW S, S \subseteq Ids, S # {}
  PROVE  \E x \in S : \A y \in S : Stamp[y] <= Stamp[x]
<1>1. MaxId \in Nat /\ Stamp \in [Ids -> Nat]
  BY ConstantsOK
<1>2. IsFiniteSet(Ids)
  BY <1>1, FS_Interval DEF Ids
<1>3. \A x \in S : IsFiniteSet(Newer(S, x)) /\ Cardinality(Newer(S, x)) \in Nat
  <2>1. \A x \in S : Newer(S, x) \subseteq Ids
    BY DEF Newer
  <2> QED
    BY <1>2, <2>1, FS_Subset, FS_CardinalityType
<1> DEFINE T == {Cardinality(Newer(S, x)) : x \in S}
<1>4. PICK m \in T : \A n \in T : m <= n
  <2>1. T \subseteq Nat /\ T # {}
    BY <1>3
  <2> HIDE DEF T
  <2> QED
    BY <2>1, LeastExists
<1>5. PICK x \in S : \A y \in S : Cardinality(Newer(S, x)) <= Cardinality(Newer(S, y))
  BY <1>4
<1>6. ASSUME NEW y \in S, ~(Stamp[y] <= Stamp[x])
      PROVE  FALSE
  <2>1. Newer(S, y) \subseteq Newer(S, x) /\ y \in Newer(S, x) /\ y \notin Newer(S, y)
    BY <1>1, <1>6 DEF Newer
  <2>2. Cardinality(Newer(S, y)) <= Cardinality(Newer(S, x))
        /\ Cardinality(Newer(S, y)) # Cardinality(Newer(S, x))
    BY <1>3, <2>1, FS_Subset
  <2> QED
    BY <1>3, <1>5, <2>2
<1> QED
  BY <1>6

(* A backup covers some of the files.                                      *)
LEMMA FilesOfBackup ==
  ASSUME NEW c
  PROVE  FilesForBackup(c) \subseteq Files
<1>1. NFiles \in Nat /\ NFiles # 0
  BY ConstantsOK
<1>2. 1 \in Files
  BY <1>1 DEF Files
<1> QED
  BY <1>2 DEF FilesForBackup

-----------------------------------------------------------------------------
(* What each step does, field by field: the proofs below are about these   *)
(* effects and never look into a record again.                             *)

(* The locals that outlast the step unchanged, in three groups.            *)
SameCall(r) == job'[r].op = job[r].op /\ job'[r].type = job[r].type
                 /\ job'[r].target = job[r].target
SameArchive(r) == job'[r].new = job[r].new /\ job'[r].conf = job[r].conf
SameRestore(r) == job'[r].before = job[r].before /\ job'[r].swapped = job[r].swapped
SameLocals(r) == /\ SameCall(r) /\ SameArchive(r) /\ SameRestore(r)
                 /\ job'[r].k = job[r].k /\ job'[r].prune = job[r].prune
Returned(r) == /\ pc'[r] = "done" /\ job'[r].op = job[r].op
               /\ job'[r].new = NoId /\ job'[r].swapped = {}
               /\ job'[r].conf = Default /\ job'[r].prune = {}

(* Every archive but the ones of S stays; one archive only changes its     *)
(* place in the directory.                                                 *)
OthersStay(S) == \A i \in Ids \ S : arch'[i] = arch[i]
Moves(i, st) == /\ arch'[i].st = st /\ arch'[i].type = arch[i].type
                /\ arch'[i].files = arch[i].files /\ OthersStay({i})

Creates(r) ==
  /\ pc[r] = "create" /\ pc'[r] = "copy" /\ next \in Ids /\ next' = next + 1
  /\ SameCall(r) /\ SameRestore(r) /\ job'[r].prune = job[r].prune
  /\ job'[r].new = next /\ job'[r].k = 1 /\ job'[r].conf \in GetConfig \cup {Default}
  /\ OthersStay({next}) /\ arch'[next].st = "tmp" /\ arch'[next].type = job[r].type
  /\ UNCHANGED <<data, node, conf>>

Copies(r) ==
  /\ pc[r] = "copy" /\ pc'[r] = "copy" /\ job[r].k <= NFiles /\ job'[r].k = job[r].k + 1
  /\ SameCall(r) /\ SameArchive(r) /\ SameRestore(r) /\ job'[r].prune = job[r].prune
  /\ arch'[job[r].new].st = arch[job[r].new].st
  /\ arch'[job[r].new].type = arch[job[r].new].type
  /\ \A f \in Files : f # job[r].k => arch'[job[r].new].files[f] = arch[job[r].new].files[f]
  /\ job[r].k \in FilesForBackup(job[r].conf) =>
       arch'[job[r].new].files[job[r].k] = data[job[r].k]
  /\ OthersStay({job[r].new})
  /\ UNCHANGED <<next, data, node, conf>>

Closes(r) ==
  /\ pc[r] = "copy" /\ pc'[r] = "publish" /\ job[r].k > NFiles /\ SameLocals(r)
  /\ Moves(job[r].new, arch[job[r].new].st)
  /\ UNCHANGED <<next, data, node, conf>>

Publishes(r) ==
  /\ pc[r] = "publish" /\ pc'[r] = "list" /\ SameLocals(r)
  /\ Moves(job[r].new, "zip")
  /\ UNCHANGED <<next, data, node, conf>>

Lists(r) ==
  /\ pc[r] = "list" /\ pc'[r] = "prune" /\ job'[r].prune = ToPrune(r)
  /\ SameCall(r) /\ SameArchive(r) /\ SameRestore(r) /\ job'[r].k = job[r].k
  /\ UNCHANGED <<arch, next, data, node, conf>>

Prunes(r) ==
  /\ pc[r] = "prune" /\ pc'[r] = "prune"
  /\ SameCall(r) /\ SameArchive(r) /\ SameRestore(r) /\ job'[r].k = job[r].k
  /\ \E i \in job[r].prune :
       /\ job'[r].prune = job[r].prune \ {i}
       /\ arch' = arch \/ (arch[i].st = "zip" /\ Moves(i, "gone"))
  /\ UNCHANGED <<next, data, node, conf>>

(* createBackup returns, with an error or without.                         *)
EndsCreation(r) ==
  /\ pc[r] \in Creating
  /\ \/ job[r].op = "restore" /\ pc'[r] = "restart" /\ SameLocals(r)
     \/ job[r].op = "restore" /\ pc'[r] = "verify" /\ SameLocals(r) /\ pc[r] = "prune"
     \/ job[r].op # "restore" /\ Returned(r)
  /\ \/ arch' = arch
     \/ pc[r] \in {"copy", "publish"} /\ pc'[r] # "verify" /\ Moves(job[r].new, "gone")
  /\ UNCHANGED <<next, data, node, conf>>

Deletes(r) ==
  /\ pc[r] \in {"delete", "unlink"}
  /\ \/ Returned(r) /\ arch' = arch
     \/ Returned(r) /\ arch[job[r].target].st = "marker" /\ Moves(job[r].target, "gone")
     \/ /\ pc'[r] = "unlink" /\ SameLocals(r)
        /\ arch[job[r].target].st = "zip" /\ Moves(job[r].target, "marker")
  /\ UNCHANGED <<next, data, node, conf>>

BeginsRestore(r) ==
  /\ \/ pc[r] = "restore" /\ pc'[r] = "quiesce" /\ SameLocals(r) /\ UNCHANGED node
     \/ pc[r] \in {"restore", "quiesce"} /\ Returned(r) /\ UNCHANGED node
     \/ /\ pc[r] = "quiesce" /\ pc'[r] = "create" /\ node' = "stopped"
        /\ job'[r].op = job[r].op /\ job'[r].target = job[r].target
        /\ job'[r].type = "pre-restore"
        /\ SameArchive(r) /\ SameRestore(r) /\ job'[r].k = job[r].k
        /\ job'[r].prune = job[r].prune
  /\ UNCHANGED <<arch, next, data, conf>>

Swaps(r) ==
  /\ \/ /\ pc[r] = "verify" /\ pc'[r] = "swap" /\ job'[r].k = 1 /\ job'[r].before = data
        /\ SameCall(r) /\ SameArchive(r) /\ job'[r].swapped = job[r].swapped
        /\ UNCHANGED data
     \/ /\ pc[r] = "swap" /\ pc'[r] = "swap" /\ job[r].k <= NFiles
        /\ job'[r].k = job[r].k + 1
        /\ SameCall(r) /\ SameArchive(r) /\ job'[r].before = job[r].before
     \/ /\ pc[r] \in {"verify", "swap"} /\ pc'[r] = "restart" /\ SameCall(r)
        /\ SameArchive(r) /\ SameRestore(r) /\ job'[r].k = job[r].k
        /\ UNCHANGED data
  /\ job'[r].prune = job[r].prune
  /\ UNCHANGED <<arch, next, node, conf>>

Restarts(r) ==
  /\ pc[r] = "restart" /\ pc'[r] = "done" /\ SameLocals(r)
  /\ UNCHANGED <<arch, next, data, conf>>

Saves(r) ==
  /\ \/ /\ pc[r] = "validate" /\ pc'[r] = "write" /\ SameLocals(r)
        /\ conf' = Truncated /\ ScheduleSpec(job[r].conf) # "invalid"
     \/ /\ pc[r] = "write" /\ pc'[r] = "apply" /\ SameLocals(r)
        /\ conf' = {job[r].conf}
     \/ pc[r] \in {"validate", "write", "apply"} /\ Returned(r) /\ UNCHANGED conf
  /\ UNCHANGED <<arch, next, data, node>>

(* The effect of the steps of createBackup.                                *)
LEMMA CreateEffect ==
  ASSUME TypeOK, NEW r \in Requests, JobOK(r), CreateStep(r)
  PROVE  \/ Creates(r) \/ Copies(r) \/ Closes(r) \/ Publishes(r) \/ Lists(r)
         \/ Prunes(r) \/ EndsCreation(r)
<1>j. /\ job[r] \in Job /\ job \in [Requests -> Job] /\ pc \in [Requests -> Phases]
      /\ arch \in [Ids -> Archive]
  BY DEF TypeOK
<1>n. NFiles \in Nat /\ MaxId \in Nat /\ next \in 1..(MaxId + 1)
  BY ConstantsOK DEF TypeOK
<1>r. ASSUME Return(r, TRUE) \/ Return(r, FALSE)
      PROVE  Returned(r)
  BY <1>r, ReturnedJob DEF Returned
<1>f. ASSUME CreateFailed(r)
      PROVE  \/ job[r].op = "restore" /\ pc'[r] = "restart" /\ SameLocals(r)
             \/ job[r].op # "restore" /\ Returned(r)
  <2>1. CASE job[r].op # "restore"
    BY <1>f, <1>r, <2>1 DEF CreateFailed
  <2>2. CASE job[r].op = "restore"
    <3>1. pc' = [pc EXCEPT ![r] = "restart"] /\ job' = [job EXCEPT ![r].failed = TRUE]
      BY <1>f, <2>2 DEF CreateFailed, Goto
    <3> QED
      BY <1>j, <2>2, <3>1 DEF SameLocals, SameCall, SameArchive, SameRestore, Job
  <2> QED
    BY <2>1, <2>2
<1>m. ASSUME NEW st, NEW i \in Ids, arch' = [arch EXCEPT ![i].st = st]
      PROVE  Moves(i, st)
  BY <1>j, <1>m DEF Moves, OthersStay, Archive
<1>i. pc[r] \in {"copy", "publish", "list", "prune"} => job[r].new \in Ids
  <2>1. job[r].new \in 0..MaxId
    BY <1>j DEF Job
  <2>2. pc[r] \in {"copy", "publish", "list", "prune"} => job[r].new # 0
    BY DEF JobOK, NoId
  <2> QED
    BY <1>n, <2>1, <2>2 DEF Ids
<1>a. ASSUME CreateAborts(r), pc[r] \in {"copy", "publish"},
             UNCHANGED <<up, next, data, node, conf, writes, crashes>>
      PROVE  EndsCreation(r)
  <2>1. Moves(job[r].new, "gone") /\ CreateFailed(r)
    BY <1>a, <1>i, <1>m DEF CreateAborts
  <2> QED
    BY <1>a, <1>f, <2>1 DEF EndsCreation, Creating, Returned
<1>1. CASE CreateBackup(r)
  <2>1. CASE UNCHANGED <<arch, next>> /\ CreateFailed(r)
    BY <1>1, <1>f, <2>1 DEF CreateBackup, EndsCreation, Creating
  <2>2. CASE ~(UNCHANGED <<arch, next>> /\ CreateFailed(r))
    <3> DEFINE c == IF GetConfig = {} THEN Default ELSE CHOOSE c \in GetConfig : TRUE
               a == [NoArchive EXCEPT !.st = "tmp", !.type = job[r].type]
               j == [job[r] EXCEPT !.new = next, !.k = 1, !.conf = c]
    <3>1. c \in GetConfig \cup {Default}
      OBVIOUS
    <3>2. a.st = "tmp" /\ a.type = job[r].type
      BY DEF NoArchive
    <3>3. /\ arch' = [arch EXCEPT ![next] = a] /\ job' = [job EXCEPT ![r] = j]
          /\ next' = next + 1 /\ pc' = [pc EXCEPT ![r] = "copy"] /\ next <= MaxId
          /\ pc[r] = "create"
          /\ UNCHANGED <<up, data, node, conf, sched, writes, crashes>>
      BY <1>1, <2>2 DEF CreateBackup, Goto
    <3>4. next \in Ids
      BY <1>n, <3>3 DEF Ids
    <3> HIDE DEF c
    <3>5. /\ j.op = job[r].op /\ j.type = job[r].type /\ j.target = job[r].target
          /\ j.before = job[r].before /\ j.swapped = job[r].swapped
          /\ j.prune = job[r].prune /\ j.new = next /\ j.k = 1 /\ j.conf = c
      BY <1>j DEF Job
    <3> HIDE DEF a, j
    <3>6. job'[r] = j /\ pc'[r] = "copy" /\ arch'[next] = a
      BY <1>j, <3>3, <3>4
    <3>7. OthersStay({next})
      BY <1>j, <3>3 DEF OthersStay
    <3>8. Creates(r)
      BY <3>1, <3>2, <3>3, <3>4, <3>5, <3>6, <3>7 DEF Creates, SameCall, SameRestore
    <3> QED
      BY <3>8
  <2> QED
    BY <2>1, <2>2
<1>2. CASE AddFileToZip(r)
  <2>1. CASE CreateAborts(r)
    BY <1>2, <1>a, <2>1 DEF AddFileToZip
  <2>2. CASE ~CreateAborts(r)
    <3> DEFINE k == job[r].k
               j == [job[r] EXCEPT !.k = k + 1]
               n == job[r].new
               added == [arch[n] EXCEPT !.files = [arch[n].files EXCEPT ![k] = data[k]]]
    <3>1. /\ arch' = (IF k \in FilesForBackup(job[r].conf)
                        THEN [arch EXCEPT ![n].files[k] = data[k]] ELSE arch)
          /\ job' = [job EXCEPT ![r] = j] /\ k <= NFiles /\ pc[r] = "copy"
          /\ UNCHANGED <<up, pc, sched, next, data, node, conf, writes, crashes>>
      BY <1>2, <2>2 DEF AddFileToZip
    <3>2. n \in Ids
      BY <1>i, <3>1
    <3>3. /\ j.op = job[r].op /\ j.type = job[r].type /\ j.target = job[r].target
          /\ j.before = job[r].before /\ j.swapped = job[r].swapped /\ j.conf = job[r].conf
          /\ j.prune = job[r].prune /\ j.new = job[r].new /\ j.k = k + 1
      BY <1>j DEF Job
    <3>4. arch[n] \in Archive /\ arch[n].files \in Contents
      BY <1>j, <3>2 DEF Archive
    <3>5. k \in FilesForBackup(job[r].conf) => k \in Files
      BY FilesOfBackup
    <3>6. /\ added.st = arch[n].st /\ added.type = arch[n].type
          /\ \A f \in Files : f # k => added.files[f] = arch[n].files[f]
          /\ k \in Files => added.files[k] = data[k]
      BY <3>4 DEF Archive, Contents
    <3>7. arch' = (IF k \in FilesForBackup(job[r].conf)
                   THEN [arch EXCEPT ![n] = added] ELSE arch)
      BY <3>1
    <3> HIDE DEF j, added
    <3>8. job'[r] = j
      BY <1>j, <3>1
    <3>9. OthersStay({n})
      BY <1>j, <3>7 DEF OthersStay
    <3>10. /\ arch'[n].st = arch[n].st /\ arch'[n].type = arch[n].type
           /\ \A f \in Files : f # k => arch'[n].files[f] = arch[n].files[f]
           /\ k \in FilesForBackup(job[r].conf) => arch'[n].files[k] = data[k]
      BY <1>j, <3>2, <3>5, <3>6, <3>7
    <3>11. Copies(r)
      BY <3>1, <3>3, <3>8, <3>9, <3>10 DEF Copies, SameCall, SameArchive, SameRestore
    <3> QED
      BY <3>11
  <2> QED
    BY <2>1, <2>2
<1>3. CASE PatchManifestChecksums(r)
  <2>1. CASE CreateAborts(r)
    BY <1>3, <1>a, <2>1 DEF PatchManifestChecksums
  <2>2. CASE ~CreateAborts(r)
    <3> DEFINE m == {f \in Files : arch[job[r].new].files[f] # Missing}
    <3>1. /\ arch' = [arch EXCEPT ![job[r].new].manifest = m]
          /\ pc' = [pc EXCEPT ![r] = "publish"] /\ pc[r] = "copy" /\ job[r].k > NFiles
          /\ UNCHANGED <<up, job, sched, next, data, node, conf, writes, crashes>>
      BY <1>3, <2>2 DEF PatchManifestChecksums, Goto
    <3>2. job[r].new \in Ids
      BY <1>i, <3>1
    <3> HIDE DEF m
    <3>3. Moves(job[r].new, arch[job[r].new].st)
      BY <1>j, <3>1, <3>2 DEF Moves, OthersStay, Archive
    <3>4. Closes(r)
      BY <1>j, <3>1, <3>3 DEF Closes, SameLocals, SameCall, SameArchive, SameRestore
    <3> QED
      BY <3>4
  <2> QED
    BY <2>1, <2>2
<1>4. CASE Publish(r)
  <2>1. CASE CreateAborts(r)
    BY <1>4, <1>a, <2>1 DEF Publish
  <2>2. CASE ~CreateAborts(r)
    <3>1. /\ arch' = [arch EXCEPT ![job[r].new].st = "zip"]
          /\ pc' = [pc EXCEPT ![r] = "list"] /\ pc[r] = "publish"
          /\ UNCHANGED <<up, job, sched, next, data, node, conf, writes, crashes>>
      BY <1>4, <2>2 DEF Publish, Goto
    <3>2. Moves(job[r].new, "zip")
      BY <1>i, <1>m, <3>1
    <3>3. Publishes(r)
      BY <1>j, <3>1, <3>2 DEF Publishes, SameLocals, SameCall, SameArchive, SameRestore
    <3> QED
      BY <3>3
  <2> QED
    BY <2>1, <2>2
<1>5. CASE PruneBackups(r)
  <2>1. /\ job' = [job EXCEPT ![r].prune = ToPrune(r)] /\ pc' = [pc EXCEPT ![r] = "prune"]
        /\ pc[r] = "list" /\ UNCHANGED <<up, arch, next, data, node, conf, sched, writes, crashes>>
    BY <1>5 DEF PruneBackups, Goto
  <2>2. Lists(r)
    BY <1>j, <2>1 DEF Lists, SameCall, SameArchive, SameRestore, Job
  <2> QED
    BY <2>2
<1>6. CASE PruneOne(r)
  <2> DEFINE i == CHOOSE x \in job[r].prune : \A y \in job[r].prune : Stamp[y] <= Stamp[x]
  <2>1. CASE CreateFailed(r) /\ UNCHANGED arch
    BY <1>6, <1>f, <2>1 DEF PruneOne, EndsCreation, Creating
  <2>2. CASE ~(CreateFailed(r) /\ UNCHANGED arch)
    <3>1. /\ arch' = IF arch[i].st = "zip" THEN [arch EXCEPT ![i].st = "gone"] ELSE arch
          /\ job' = [job EXCEPT ![r].prune = job[r].prune \ {i}]
          /\ pc[r] = "prune" /\ job[r].prune # {}
          /\ UNCHANGED <<up, pc, sched, next, data, node, conf, writes, crashes>>
      BY <1>6, <2>2 DEF PruneOne
    <3> DEFINE j == [job[r] EXCEPT !.prune = job[r].prune \ {i}]
    <3>2. i \in job[r].prune
      <4>1. job[r].prune \subseteq Ids /\ IsFiniteSet(Ids)
        BY <1>j, <1>n, FS_Interval DEF Job, Ids
      <4> QED
        BY <1>6, <2>2, <3>1, <4>1, NewestExists
    <3> HIDE DEF i
    <3>3. i \in Ids
      BY <1>j, <3>2 DEF Job
    <3>4. arch' = arch \/ (arch[i].st = "zip" /\ Moves(i, "gone"))
      BY <1>m, <3>1, <3>3
    <3>5. Prunes(r)
      BY <1>j, <3>1, <3>2, <3>4 DEF Prunes, SameCall, SameArchive, SameRestore, Job
    <3> QED
      BY <3>5
  <2> QED
    BY <2>1, <2>2
<1>7. CASE Created(r)
  <2>1. CASE job[r].op = "restore"
    <3>1. /\ pc' = [pc EXCEPT ![r] = "verify"] /\ pc[r] = "prune"
          /\ UNCHANGED <<arch, job, next, data, node, conf>>
      BY <1>7, <2>1 DEF Created, Goto
    <3> QED
      BY <1>j, <2>1, <3>1 DEF EndsCreation, Creating, SameLocals, SameCall, SameArchive,
                              SameRestore
  <2>2. CASE job[r].op # "restore"
    <3>1. Return(r, FALSE) /\ pc[r] = "prune" /\ UNCHANGED <<arch, next, data, node, conf>>
      BY <1>7, <2>2 DEF Created
    <3> QED
      BY <1>r, <2>2, <3>1 DEF EndsCreation, Creating
  <2> QED
    BY <2>1, <2>2
<1> QED
  BY <1>1, <1>2, <1>3, <1>4, <1>5, <1>6, <1>7 DEF CreateStep

(* The effect of every other step of a request.                            *)
LEMMA OtherEffect ==
  ASSUME TypeOK, NEW r \in Requests, JobOK(r), Step(r), ~CreateStep(r)
  PROVE  \/ Deletes(r) \/ BeginsRestore(r) \/ Swaps(r) \/ Restarts(r) \/ Saves(r)
<1>j. /\ job[r] \in Job /\ job \in [Requests -> Job] /\ pc \in [Requests -> Phases]
      /\ arch \in [Ids -> Archive]
  BY DEF TypeOK
<1>r. ASSUME Return(r, TRUE) \/ Return(r, FALSE)
      PROVE  Returned(r)
  BY <1>r, ReturnedJob DEF Returned
<1>m. ASSUME NEW st, NEW i \in Ids, arch' = [arch EXCEPT ![i].st = st]
      PROVE  Moves(i, st)
  BY <1>j, <1>m DEF Moves, OthersStay, Archive
<1>s. ASSUME NEW l, pc' = [pc EXCEPT ![r] = l], job' = job
      PROVE  pc'[r] = l /\ SameLocals(r)
  BY <1>j, <1>s DEF SameLocals, SameCall, SameArchive, SameRestore
<1>f. ASSUME RestoreFailed(r)
      PROVE  pc'[r] = "restart" /\ SameLocals(r)
  <2>1. pc' = [pc EXCEPT ![r] = "restart"] /\ job' = [job EXCEPT ![r].failed = TRUE]
    BY <1>f DEF RestoreFailed, Goto
  <2> QED
    BY <1>j, <2>1 DEF SameLocals, SameCall, SameArchive, SameRestore, Job
<1>1. CASE DeleteMark(r)
  <2>0. /\ pc[r] = "delete" /\ job[r].target \in Ids
        /\ UNCHANGED <<next, data, node, conf>>
    BY <1>1 DEF DeleteMark, JobOK
  <2>1. CASE /\ arch[job[r].target].st = "marker" /\ Return(r, FALSE)
             /\ arch' = [arch EXCEPT ![job[r].target].st = "gone"]
    BY <1>m, <1>r, <2>0, <2>1 DEF Deletes
  <2>2. CASE /\ arch[job[r].target].st = "zip" /\ Goto(r, "unlink") /\ UNCHANGED job
             /\ arch' = [arch EXCEPT ![job[r].target].st = "marker"]
    BY <1>m, <1>s, <2>0, <2>2 DEF Deletes, Goto
  <2>3. CASE Return(r, TRUE) /\ UNCHANGED arch
    BY <1>r, <2>0, <2>3 DEF Deletes
  <2> QED
    BY <1>1, <2>1, <2>2, <2>3 DEF DeleteMark
<1>2. CASE DeleteUnlink(r)
  <2>0. /\ pc[r] = "unlink" /\ job[r].target \in Ids
        /\ UNCHANGED <<next, data, node, conf>>
    BY <1>2 DEF DeleteUnlink, JobOK
  <2>1. CASE /\ arch[job[r].target].st = "marker" /\ Return(r, FALSE)
             /\ arch' = [arch EXCEPT ![job[r].target].st = "gone"]
    BY <1>m, <1>r, <2>0, <2>1 DEF Deletes
  <2>2. CASE Return(r, TRUE) /\ UNCHANGED arch
    BY <1>r, <2>0, <2>2 DEF Deletes
  <2> QED
    BY <1>2, <2>1, <2>2 DEF DeleteUnlink
<1>3. CASE RestoreStat(r)
  <2>0. pc[r] = "restore" /\ UNCHANGED <<arch, next, data, node, conf>>
    BY <1>3 DEF RestoreStat
  <2>1. CASE Goto(r, "quiesce") /\ UNCHANGED job
    BY <1>s, <2>0, <2>1 DEF BeginsRestore, Goto
  <2>2. CASE Return(r, TRUE)
    BY <1>r, <2>0, <2>2 DEF BeginsRestore
  <2> QED
    BY <1>3, <2>1, <2>2 DEF RestoreStat
<1>4. CASE Quiesce(r)
  <2>0. pc[r] = "quiesce" /\ UNCHANGED <<arch, next, data, conf>>
    BY <1>4 DEF Quiesce
  <2>1. CASE /\ node' = "stopped" /\ pc' = [pc EXCEPT ![r] = "create"]
             /\ job' = [job EXCEPT ![r].type = "pre-restore"]
    BY <1>j, <2>0, <2>1 DEF BeginsRestore, SameArchive, SameRestore, Job
  <2>2. CASE Return(r, TRUE) /\ UNCHANGED node
    BY <1>r, <2>0, <2>2 DEF BeginsRestore
  <2> QED
    BY <1>4, <2>1, <2>2 DEF Quiesce, Goto
<1>5. CASE VerifyAndStage(r)
  <2>0. pc[r] = "verify" /\ UNCHANGED <<arch, next, data, node, conf>>
    BY <1>5 DEF VerifyAndStage
  <2>1. CASE RestoreFailed(r)
    BY <1>f, <2>0, <2>1 DEF Swaps, SameLocals
  <2>2. CASE ~RestoreFailed(r)
    <3> DEFINE s == StageRestore(arch[job[r].target])
               j == [job[r] EXCEPT !.staged = s, !.before = data, !.k = 1]
    <3>1. job' = [job EXCEPT ![r] = j] /\ pc' = [pc EXCEPT ![r] = "swap"]
      BY <1>5, <2>2 DEF VerifyAndStage, Goto
    <3> HIDE DEF s
    <3>2. /\ j.op = job[r].op /\ j.type = job[r].type /\ j.target = job[r].target
          /\ j.before = data /\ j.swapped = job[r].swapped /\ j.conf = job[r].conf
          /\ j.prune = job[r].prune /\ j.new = job[r].new /\ j.k = 1
      BY <1>j DEF Job
    <3> HIDE DEF j
    <3>3. job'[r] = j /\ pc'[r] = "swap"
      BY <1>j, <3>1
    <3> QED
      BY <2>0, <3>2, <3>3 DEF Swaps, SameCall, SameArchive
  <2> QED
    BY <2>1, <2>2
<1>6. CASE SwapOne(r)
  <2>0. pc[r] = "swap" /\ job[r].k <= NFiles /\ UNCHANGED <<arch, next, node, conf>>
    BY <1>6 DEF SwapOne
  <2> DEFINE k == job[r].k
             both == [job[r] EXCEPT !.k = k + 1, !.swapped = job[r].swapped \cup {k}]
  <2>1. CASE RestoreFailed(r) /\ UNCHANGED data
    BY <1>f, <2>0, <2>1 DEF Swaps, SameLocals
  <2>2. CASE job' = [job EXCEPT ![r].k = k + 1] /\ UNCHANGED <<data, pc>>
    BY <1>j, <2>0, <2>2 DEF Swaps, SameCall, SameArchive, Job
  <2>3. CASE /\ UNCHANGED pc
             /\ job' = [job EXCEPT ![r].k = k + 1, ![r].swapped = @ \cup {k}]
    <3>1. job' = [job EXCEPT ![r] = both]
      BY <2>3
    <3>2. /\ both.op = job[r].op /\ both.type = job[r].type /\ both.target = job[r].target
          /\ both.before = job[r].before /\ both.conf = job[r].conf
          /\ both.prune = job[r].prune /\ both.new = job[r].new /\ both.k = k + 1
      BY <1>j DEF Job
    <3> HIDE DEF both
    <3>3. job'[r] = both
      BY <1>j, <3>1
    <3> QED
      BY <2>0, <2>3, <3>2, <3>3 DEF Swaps, SameCall, SameArchive
  <2> QED
    BY <1>6, <2>1, <2>2, <2>3 DEF SwapOne
<1>7. CASE SwapEnds(r)
  BY <1>7, <1>s DEF SwapEnds, Swaps, Goto, SameLocals
<1>8. CASE Restart(r)
  BY <1>8, <1>s DEF Restart, Restarts, Goto
<1>9. CASE SaveConfig(r)
  <2>0. pc[r] = "validate" /\ UNCHANGED <<arch, next, data, node>>
    BY <1>9 DEF SaveConfig
  <2>1. CASE Return(r, TRUE) /\ UNCHANGED conf
    BY <1>r, <2>0, <2>1 DEF Saves
  <2>2. CASE /\ ScheduleSpec(job[r].conf) # "invalid" /\ conf' = Truncated
             /\ Goto(r, "write") /\ UNCHANGED job
    BY <1>s, <2>0, <2>2 DEF Saves, Goto
  <2> QED
    BY <1>9, <2>1, <2>2 DEF SaveConfig
<1>10. CASE WriteConfig(r)
  <2>0. pc[r] = "write" /\ UNCHANGED <<arch, next, data, node>>
    BY <1>10 DEF WriteConfig
  <2>1. CASE Return(r, TRUE) /\ UNCHANGED conf
    BY <1>r, <2>0, <2>1 DEF Saves
  <2>2. CASE conf' = {job[r].conf} /\ Goto(r, "apply") /\ UNCHANGED job
    BY <1>s, <2>0, <2>2 DEF Saves, Goto
  <2> QED
    BY <1>10, <2>1, <2>2 DEF WriteConfig
<1>11. CASE ApplyConfig(r)
  <2> DEFINE failed == ScheduleSpec(job[r].conf) = "invalid"
  <2>1. failed \in BOOLEAN /\ Return(r, failed)
    BY <1>11 DEF ApplyConfig
  <2> HIDE DEF failed
  <2>2. Returned(r)
    BY <2>1, ReturnedJob DEF Returned
  <2> QED
    BY <1>11, <2>2 DEF ApplyConfig, Saves
<1> QED
  BY <1>1, <1>2, <1>3, <1>4, <1>5, <1>6, <1>7, <1>8, <1>9, <1>10, <1>11 DEF Step, RestoreStep

Effect(r) ==
  \/ Creates(r) \/ Copies(r) \/ Closes(r) \/ Publishes(r) \/ Lists(r)
  \/ Prunes(r) \/ EndsCreation(r)
  \/ Deletes(r) \/ BeginsRestore(r) \/ Swaps(r) \/ Restarts(r) \/ Saves(r)

(* Every step of a request has one of these effects.                       *)
LEMMA StepEffect ==
  ASSUME TypeOK, NEW r \in Requests, JobOK(r), Step(r)
  PROVE  Effect(r)
  BY CreateEffect, OtherEffect DEF Effect

(* A request keeps what its own locals say.                                *)
LEMMA JobStep ==
  ASSUME TypeOK, TypeOK', NEW r \in Requests, JobOK(r), Call(r) \/ Step(r)
  PROVE  JobOK(r)'
<1>0. next \in Nat /\ next' \in Nat /\ next' >= next /\ up /\ up' = up /\ 0 < next'
  <2>1. MaxId \in Nat /\ next \in 1..(MaxId + 1) /\ next' \in 1..(MaxId + 1)
    BY ConstantsOK DEF TypeOK
  <2>2. next \in Nat /\ next' \in Nat /\ 0 < next'
    BY <2>1
  <2> QED
    BY <2>2, RequestFrame
<1>t. /\ pc \in [Requests -> Phases] /\ job'[r].new \in Nat
      /\ job[r].new \in Nat /\ job[r].k \in Nat /\ NFiles \in Nat
  <2>1. pc \in [Requests -> Phases] /\ job \in [Requests -> Job] /\ job' \in [Requests -> Job]
    BY DEF TypeOK
  <2>2. job'[r].new \in 0..MaxId /\ job[r].new \in 0..MaxId /\ job[r].k \in 0..(NFiles + 1)
    BY <2>1 DEF Job
  <2>3. MaxId \in Nat /\ NFiles \in Nat
    BY ConstantsOK
  <2> QED
    BY <2>1, <2>2, <2>3
<1>c. CASE Call(r)
  BY <1>0, <1>c, CallJob DEF JobOK, NoId, Creating
<1>e. Effect(r) \/ Call(r)
  BY StepEffect
<1> USE <1>0, <1>t DEF JobOK, SameLocals, SameCall, SameArchive, SameRestore, Returned, NoId
<1>1. CASE Creates(r)
  <2>1. next \in 1..MaxId
    BY <1>1 DEF Creates, Ids
  <2>2. MaxId \in Nat
    BY ConstantsOK
  <2>3. next # 0 /\ next < next'
    BY <1>1, <2>1, <2>2 DEF Creates
  <2> QED
    BY <1>1, <2>3 DEF Creates, Creating
<1>2. CASE Copies(r)
  BY <1>2 DEF Copies, Creating
<1>3. CASE Closes(r) \/ Publishes(r)
  BY <1>3 DEF Closes, Publishes, Creating
<1>4. CASE Lists(r) \/ Prunes(r)
  BY <1>4 DEF Lists, Prunes, Creating
<1>5. CASE EndsCreation(r)
  BY <1>5 DEF EndsCreation, Creating
<1>6. CASE Deletes(r)
  BY <1>6 DEF Deletes, Creating
<1>7. CASE BeginsRestore(r)
  BY <1>7 DEF BeginsRestore, Creating
<1>8. CASE Swaps(r)
  BY <1>8 DEF Swaps, Creating
<1>9. CASE Restarts(r)
  BY <1>9 DEF Restarts, Creating
<1>10. CASE Saves(r)
  BY <1>10 DEF Saves, Creating
<1> QED
  BY <1>c, <1>e, <1>1, <1>2, <1>3, <1>4, <1>5, <1>6, <1>7, <1>8, <1>9, <1>10 DEF Effect

(* The locals of every request stay as they are described, whoever steps.  *)
LEMMA JobNext ==
  ASSUME TypeOK, TypeOK', JobInv, [Next]_vars
  PROVE  JobInv'
<1>n. next \in Nat /\ next' \in Nat
  <2>1. MaxId \in Nat /\ next \in 1..(MaxId + 1) /\ next' \in 1..(MaxId + 1)
    BY ConstantsOK DEF TypeOK
  <2> QED
    BY <2>1
<1>t. \A q \in Requests : job[q].new \in Nat
  <2>1. \A q \in Requests : job[q].new \in 0..MaxId
    BY DEF TypeOK, Job
  <2>2. MaxId \in Nat
    BY ConstantsOK
  <2> QED
    BY <2>1, <2>2
<1>1. ASSUME NEW r \in Requests, Call(r) \/ Step(r)
      PROVE  JobInv'
  <2>1. /\ \A q \in Requests \ {r} : pc'[q] = pc[q] /\ job'[q] = job[q]
        /\ up /\ up' = up /\ next' >= next
    BY <1>1, RequestFrame
  <2>2. JobOK(r)'
    BY <1>1, JobStep DEF JobInv
  <2>3. ASSUME NEW q \in Requests \ {r}
        PROVE  JobOK(q)'
    BY <1>n, <1>t, <2>1 DEF JobInv, JobOK
  <2> QED
    BY <2>2, <2>3 DEF JobInv
<1>2. CASE NodeRedWrites \/ UNCHANGED vars
  BY <1>2 DEF NodeRedWrites, vars, JobInv, JobOK
<1>3. CASE Crash
  <2>1. ASSUME NEW q \in Requests
        PROVE  JobOK(q)'
    <3>1. /\ pc'[q] = IF pc[q] \in {"idle", "done"} THEN pc[q] ELSE "dead"
          /\ job'[q] = job[q] /\ next' = next /\ up' = FALSE
      BY <1>3 DEF Crash
    <3> QED
      BY <3>1 DEF JobInv, JobOK, Creating
  <2> QED
    BY <2>1 DEF JobInv
<1>4. CASE Boot
  <2>1. pc' = pc /\ job' = job /\ next' = next /\ up' = TRUE
    BY <1>4 DEF Boot
  <2> QED
    BY <2>1 DEF JobInv, JobOK
<1> QED
  BY <1>1, <1>2, <1>3, <1>4 DEF Next

(* Every step keeps the types.                                             *)
LEMMA TypeNext ==
  ASSUME TypeOK, JobInv, [Next]_vars
  PROVE  TypeOK'
<1>1. ASSUME NEW r \in Requests, Call(r) \/ Step(r)
      PROVE  TypeOK'
  BY <1>1, CallType, StepType DEF JobInv
<1>2. CASE UNCHANGED vars
  BY <1>2 DEF vars, TypeOK
<1>3. CASE NodeRedWrites \/ Crash \/ Boot
  BY <1>3, EnvironmentType
<1> QED
  BY <1>1, <1>2, <1>3 DEF Next

(* The files, archives, configurations and locals of the backup service    *)
(* keep their types under every interleaving of its handlers, the cron     *)
(* goroutine, Node-RED and crashes.                                        *)
THEOREM TypeCorrect == Spec => []TypeOK
<1>1. Init => TypeOK /\ JobInv
  BY InitType
<1>2. TypeOK /\ JobInv /\ [Next]_vars => (TypeOK /\ JobInv)'
  BY TypeNext, JobNext
<1> QED
  BY <1>1, <1>2, PTL DEF Spec

-----------------------------------------------------------------------------
(* Archives: who may touch which.                                          *)

Published == {"zip", "marker", "gone"}

(* A restore whose safety archive has been published.                      *)
Holding(r) ==
  /\ job[r].op = "restore"
  /\ pc[r] \in {"list", "prune", "verify", "swap"} \/ job[r].swapped # {}

Removers == {"delete", "restore"}

(* Ids that are not given out yet have no file; an archive has one maker.  *)
FreshOK == \A i \in Ids : i >= next => arch[i].st = "none"
OwnOK == \A q, r \in Requests : q # r /\ job[q].new = job[r].new => job[r].new = NoId

(* The archive that r makes is its temporary file until it publishes it;   *)
(* the safety archive of a restore can only be removed by somebody else;   *)
(* what r is about to prune is of its own type and not the new one.        *)
ArchiveOK(r) ==
  /\ pc[r] \in {"copy", "publish"} => arch[job[r].new].st = "tmp"
  /\ pc[r] \in {"copy", "publish"} => arch[job[r].new].type = job[r].type
  /\ Holding(r) =>
       /\ arch[job[r].new].type = "pre-restore"
       /\ arch[job[r].new].st \in Published
       /\ arch[job[r].new].st = "gone" =>
            \E q \in Requests \ {r} : job[q].op \in Removers
  /\ pc[r] = "prune" =>
       \A i \in job[r].prune :
         /\ i < next /\ i # job[r].new
         /\ NormalizeBackupType(arch[i].type) = job[r].type

ArchInv == FreshOK /\ OwnOK /\ \A r \in Requests : ArchiveOK(r)

(* What a step may do to an archive i.                                     *)
Fate(r, i) ==
  /\ i < next => arch'[i].type = arch[i].type
  /\ arch[i].st \in Published => arch'[i].st \in Published
  /\ arch[i].st \in Published /\ arch'[i].st = "gone" =>
       \/ arch[i].st = "gone"
       \/ job[r].op = "delete" /\ arch[i].st = "marker"
       \/ pc[r] = "prune" /\ i \in job[r].prune
  /\ i < next /\ (i # job[r].new \/ pc[r] # "copy") => arch'[i].files = arch[i].files
  /\ i < next /\ arch[i].st = "tmp" /\ i # job[r].new => arch'[i].st = "tmp"
  /\ i >= next' => arch'[i].st = "none"

(* The id of the archive being made, and the types of the numbers.         *)
LEMMA Numbers ==
  ASSUME TypeOK, JobInv
  PROVE  /\ next \in Nat /\ MaxId \in Nat /\ Ids \subseteq Nat /\ NFiles \in Nat
         /\ \A r \in Requests :
              /\ job[r].new \in Nat /\ job[r].k \in Nat /\ job[r].new < next
              /\ job[r].new # NoId => job[r].new \in Ids
              /\ job[r].prune \subseteq Ids
<1>1. MaxId \in Nat /\ next \in 1..(MaxId + 1) /\ NFiles \in Nat
  BY ConstantsOK DEF TypeOK
<1>2. next \in Nat /\ Ids \subseteq Nat
  BY <1>1 DEF Ids
<1>3. ASSUME NEW r \in Requests
      PROVE  /\ job[r].new \in 0..MaxId /\ job[r].k \in 0..(NFiles + 1)
             /\ job[r].new < next /\ job[r].prune \subseteq Ids
  BY DEF TypeOK, Job, JobInv, JobOK
<1>4. ASSUME NEW r \in Requests
      PROVE  /\ job[r].new \in Nat /\ job[r].k \in Nat
             /\ job[r].new # NoId => job[r].new \in Ids
  BY <1>1, <1>3 DEF Ids, NoId
<1> QED
  BY <1>1, <1>2, <1>3, <1>4

(* A step of a request leaves the archives of the others their fate.       *)
LEMMA StepFate ==
  ASSUME TypeOK, JobInv, ArchInv, NEW r \in Requests, Step(r), NEW i \in Ids
  PROVE  Fate(r, i)
<1>0. /\ next \in Nat /\ i \in Nat /\ job[r].new \in Nat /\ job[r].new < next
      /\ job[r].prune \subseteq Ids
  BY Numbers
<1>1. Effect(r) /\ JobOK(r) /\ ArchiveOK(r) /\ next' \in {next, next + 1}
      /\ (i >= next => arch[i].st = "none")
  BY StepEffect, RequestFrame DEF JobInv, ArchInv, FreshOK
<1> USE <1>0, <1>1 DEF Fate, Moves, OthersStay, Published
<1>2. CASE Creates(r)
  BY <1>2 DEF Creates
<1>3. CASE Copies(r)
  BY <1>3 DEF Copies, ArchiveOK
<1>4. CASE Closes(r) \/ Publishes(r)
  BY <1>4 DEF Closes, Publishes, ArchiveOK
<1>5. CASE Lists(r) \/ BeginsRestore(r) \/ Swaps(r) \/ Restarts(r) \/ Saves(r)
  BY <1>5 DEF Lists, BeginsRestore, Swaps, Restarts, Saves
<1>6. CASE Prunes(r)
  BY <1>6 DEF Prunes, ArchiveOK
<1>7. CASE EndsCreation(r)
  BY <1>7 DEF EndsCreation, ArchiveOK
<1>8. CASE Deletes(r)
  BY <1>8 DEF Deletes, JobOK
<1> QED
  BY <1>2, <1>3, <1>4, <1>5, <1>6, <1>7, <1>8 DEF Effect

(* A step keeps the operation of its request; a call starts from none.     *)
LEMMA OperationStays ==
  ASSUME TypeOK, JobInv, NEW r \in Requests, Call(r) \/ Step(r), NEW q \in Requests
  PROVE  job[q].op # "none" => job'[q].op = job[q].op
<1>1. CASE q # r
  BY <1>1, RequestFrame
<1>2. CASE q = r /\ Call(r)
  <2>1. job[r] = NoJob
    BY <1>2, CallJob DEF JobInv, JobOK
  <2> QED
    BY <1>2, <2>1 DEF NoJob
<1>3. CASE q = r /\ Step(r)
  <2>1. Effect(r)
    BY <1>3, StepEffect DEF JobInv
  <2> QED
    BY <1>3, <2>1 DEF Effect, Creates, Copies, Closes, Publishes, Lists, Prunes, EndsCreation,
      Deletes, BeginsRestore, Swaps, Restarts, Saves, SameLocals, SameCall, Returned
<1> QED
  BY <1>1, <1>2, <1>3

(* Of another request's archive a step of r makes nothing but a removal    *)
(* that a delete or a restore is responsible for.                          *)
LEMMA OthersArchive ==
  ASSUME TypeOK, JobInv, ArchInv, NEW r \in Requests, Call(r) \/ Step(r),
         NEW q \in Requests \ {r}
  PROVE  ArchiveOK(q)'
<1>0. /\ next \in Nat /\ next' \in {next, next + 1} /\ job[q].new \in Nat /\ job[q].new < next
      /\ (job[q].new # NoId => job[q].new \in Ids)
      /\ job[q].prune \subseteq Ids /\ Ids \subseteq Nat
  BY Numbers, RequestFrame
<1>1. /\ pc'[q] = pc[q] /\ job'[q] = job[q] /\ ArchiveOK(q) /\ JobOK(q) /\ JobOK(r)
      /\ ArchiveOK(r)
  BY RequestFrame DEF ArchInv, JobInv
<1>2. \A p \in Requests : job[p].op \in Removers => job'[p].op \in Removers
  BY OperationStays DEF Removers
<1>3. CASE Call(r)
  <2>1. arch' = arch /\ next' = next
    <3>1. PICK op, phase, locals : Begin(r, op, phase, locals)
      BY <1>3, CallBegins
    <3> QED
      BY <3>1 DEF Begin
  <2> QED
    BY <1>1, <1>2, <2>1 DEF ArchiveOK, Holding
<1>4. CASE Step(r)
  <2>1. \A i \in Ids : Fate(r, i)
    BY <1>4, StepFate
  <2>2. job[q].new # NoId => job[q].new # job[r].new
    BY DEF ArchInv, OwnOK
  <2>3. ASSUME pc[q] \in {"copy", "publish"}
        PROVE  arch'[job[q].new].st = "tmp" /\ arch'[job[q].new].type = job[q].type
    BY <1>0, <1>1, <2>1, <2>2, <2>3 DEF ArchiveOK, Fate, JobOK
  <2>4. ASSUME pc[q] = "prune", NEW i \in job[q].prune
        PROVE  /\ i < next' /\ i # job[q].new
               /\ NormalizeBackupType(arch'[i].type) = job[q].type
    <3>1. /\ i \in Ids /\ i \in Nat /\ i < next /\ i # job[q].new
          /\ NormalizeBackupType(arch[i].type) = job[q].type
      BY <1>0, <1>1, <2>4 DEF ArchiveOK
    <3>2. arch'[i].type = arch[i].type
      BY <2>1, <3>1 DEF Fate
    <3>3. i < next'
      BY <1>0, <3>1
    <3> QED
      BY <3>1, <3>2, <3>3
  <2>5. ASSUME Holding(q)
        PROVE  /\ arch'[job[q].new].type = "pre-restore"
               /\ arch'[job[q].new].st \in Published
               /\ arch'[job[q].new].st = "gone" =>
                    \E p \in Requests \ {q} : job'[p].op \in Removers
    <3>1. job[q].new \in Ids
      BY <1>0, <1>1, <2>5 DEF JobOK, Holding
    <3>2. /\ arch'[job[q].new].type = "pre-restore" /\ arch[job[q].new].type = "pre-restore"
          /\ arch'[job[q].new].st \in Published /\ arch[job[q].new].st \in Published
      BY <1>0, <1>1, <2>1, <2>5, <3>1 DEF ArchiveOK, Fate
    <3>3. CASE arch[job[q].new].st = "gone"
      BY <1>1, <1>2, <2>5, <3>2, <3>3 DEF ArchiveOK
    <3>4. CASE arch[job[q].new].st # "gone" /\ arch'[job[q].new].st = "gone"
      <4>1. \/ job[r].op = "delete"
            \/ pc[r] = "prune" /\ job[q].new \in job[r].prune
        BY <2>1, <3>1, <3>2, <3>4 DEF Fate
      <4>2. pc[r] = "prune" /\ job[q].new \in job[r].prune => job[r].op = "restore"
        BY <1>1, <3>2 DEF ArchiveOK, JobOK, NormalizeBackupType, Types, Creating
      <4> QED
        BY <1>2, <3>2, <4>1, <4>2 DEF Removers
    <3> QED
      BY <3>2, <3>3, <3>4
  <2> QED
    BY <1>1, <2>3, <2>4, <2>5 DEF ArchiveOK, Holding
<1> QED
  BY <1>3, <1>4

(* What pruneBackups picks: archives of this type, never the new one.      *)
LEMMA ToPruneSafe ==
  ASSUME TypeOK, ArchInv, NEW r \in Requests, NEW i \in ToPrune(r)
  PROVE  /\ i \in Ids /\ i # job[r].new /\ arch[i].st = "zip"
         /\ NormalizeBackupType(arch[i].type) = job[r].type
         /\ ~(i >= next)
  BY DEF ToPrune, Expired, Listed, ArchInv, FreshOK

(* A request keeps its own archive.                                        *)
LEMMA OwnArchive ==
  ASSUME TypeOK, TypeOK', JobInv, JobInv', ArchInv, NEW r \in Requests, Call(r) \/ Step(r)
  PROVE  ArchiveOK(r)'
<1>0. /\ next \in Nat /\ next' \in {next, next + 1} /\ job[r].new \in Nat /\ job[r].new < next
      /\ (job[r].new # NoId => job[r].new \in Ids)
      /\ job[r].prune \subseteq Ids /\ Ids \subseteq Nat
  BY Numbers, RequestFrame
<1>1. ArchiveOK(r) /\ JobOK(r)
  BY DEF ArchInv, JobInv
<1>2. \A p \in Requests : job[p].op \in Removers => job'[p].op \in Removers
  BY OperationStays DEF Removers
<1>c. CASE Call(r)
  BY <1>c, CallJob DEF ArchiveOK, Holding
<1>s. ASSUME Step(r)
      PROVE  \A i \in Ids : Fate(r, i)
  BY <1>s, StepFate
<1>e. Effect(r) \/ Call(r)
  BY <1>1, StepEffect
<1>g. ASSUME Step(r), Holding(r), job'[r].new = job[r].new
      PROVE  /\ arch'[job'[r].new].type = "pre-restore"
             /\ arch'[job'[r].new].st \in Published
             /\ arch'[job'[r].new].st = "gone" =>
                  \E q \in Requests \ {r} : job'[q].op \in Removers
  <2>1. job[r].new \in Ids /\ job[r].op = "restore"
    BY <1>0, <1>1, <1>g DEF JobOK, Holding
  <2>2. /\ arch'[job[r].new].type = "pre-restore" /\ arch'[job[r].new].st \in Published
    BY <1>0, <1>1, <1>g, <1>s, <2>1 DEF Fate, ArchiveOK
  <2>3. arch'[job[r].new].st = "gone" => arch[job[r].new].st = "gone"
    BY <1>0, <1>1, <1>g, <1>s, <2>1 DEF Fate, ArchiveOK
  <2> QED
    BY <1>1, <1>2, <1>g, <2>2, <2>3 DEF ArchiveOK
<1> USE DEF SameLocals, SameCall, SameArchive, SameRestore, Returned, Moves
<1>3. CASE Creates(r)
  BY <1>0, <1>1, <1>3 DEF Creates, ArchiveOK, JobOK, Holding
<1>4. CASE Copies(r) \/ Closes(r)
  BY <1>0, <1>1, <1>4 DEF Copies, Closes, ArchiveOK, JobOK, Holding
<1>5. CASE Publishes(r)
  BY <1>0, <1>1, <1>5 DEF Publishes, ArchiveOK, JobOK, Holding, Published, Creating
<1>6. CASE Lists(r) /\ Step(r)
  <2>1. \A i \in ToPrune(r) : /\ i # job[r].new /\ i < next'
                              /\ NormalizeBackupType(arch[i].type) = job[r].type
    <3> SUFFICES ASSUME NEW i \in ToPrune(r)
                 PROVE  /\ i # job[r].new /\ i < next'
                        /\ NormalizeBackupType(arch[i].type) = job[r].type
      OBVIOUS
    <3>1. i \in Ids /\ ~(i >= next) /\ i # job[r].new
          /\ NormalizeBackupType(arch[i].type) = job[r].type
      BY ToPruneSafe
    <3>2. i \in Nat
      BY <1>0, <3>1
    <3>3. i < next'
      BY <1>0, <3>1, <3>2
    <3> QED
      BY <3>1, <3>3
  <2>2. Holding(r)' => Holding(r)
    BY <1>6 DEF Lists, Holding
  <2> QED
    BY <1>6, <1>g, <2>1, <2>2 DEF Lists, ArchiveOK
<1>7. CASE Prunes(r) /\ Step(r)
  <2>1. Holding(r)' => Holding(r)
    BY <1>7 DEF Prunes, Holding
  <2>2. job'[r].prune \subseteq job[r].prune
    BY <1>7 DEF Prunes
  <2>3. \A i \in job[r].prune : arch'[i].type = arch[i].type /\ i < next'
    BY <1>0, <1>1, <1>7, <1>s DEF Fate, ArchiveOK, Prunes
  <2> QED
    BY <1>1, <1>7, <1>g, <2>1, <2>2, <2>3 DEF Prunes, ArchiveOK
<1>8. CASE EndsCreation(r) /\ Step(r)
  <2>1. Holding(r)' => Holding(r) /\ job'[r].new = job[r].new
    BY <1>1, <1>8 DEF EndsCreation, Holding, JobOK, Creating
  <2>2. pc'[r] \notin {"copy", "publish", "prune"}
    BY <1>8 DEF EndsCreation
  <2> QED
    BY <1>8, <1>g, <2>1, <2>2 DEF ArchiveOK
<1>9. CASE (Deletes(r) \/ BeginsRestore(r) \/ Saves(r)) /\ Step(r)
  <2>1. ~Holding(r)'
    BY <1>1, <1>9 DEF Deletes, BeginsRestore, Saves, Holding, JobOK
  <2>2. pc'[r] \notin {"copy", "publish", "prune"}
    BY <1>9 DEF Deletes, BeginsRestore, Saves
  <2> QED
    BY <2>1, <2>2 DEF ArchiveOK
<1>10. CASE (Swaps(r) \/ Restarts(r)) /\ Step(r)
  <2>1. Holding(r)' => Holding(r) /\ job'[r].new = job[r].new
    BY <1>1, <1>10 DEF Swaps, Restarts, Holding, JobOK
  <2>2. pc'[r] \notin {"copy", "publish", "prune"}
    BY <1>10 DEF Swaps, Restarts
  <2> QED
    BY <1>10, <1>g, <2>1, <2>2 DEF ArchiveOK
<1> QED
  BY <1>c, <1>e, <1>3, <1>4, <1>5, <1>6, <1>7, <1>8, <1>9, <1>10 DEF Effect

(* The archives stay in order, whoever steps.                              *)
LEMMA ArchNext ==
  ASSUME TypeOK, TypeOK', JobInv, JobInv', ArchInv, [Next]_vars
  PROVE  ArchInv'
<1>1. ASSUME NEW r \in Requests, Call(r) \/ Step(r)
      PROVE  ArchInv'
  <2>1. \A q \in Requests : ArchiveOK(q)'
    BY <1>1, OwnArchive, OthersArchive
  <2>c. Call(r) => arch' = arch /\ next' = next
    <3>1. ASSUME Call(r) PROVE \E op, phase, locals : Begin(r, op, phase, locals)
      BY <3>1, CallBegins
    <3> QED
      BY <3>1 DEF Begin
  <2>2. FreshOK'
    BY <1>1, <2>c, StepFate DEF ArchInv, FreshOK, Fate
  <2>3. job'[r].new \in {NoId, job[r].new, next}
    <3>1. Effect(r) \/ job'[r].new = NoId
      BY <1>1, StepEffect, CallJob DEF JobInv
    <3> QED
      BY <3>1 DEF Effect, Creates, Copies, Closes, Publishes, Lists, Prunes, EndsCreation,
        Deletes, BeginsRestore, Swaps, Restarts, Saves, SameLocals, SameArchive, Returned
  <2>4. \A q \in Requests \ {r} : job'[q].new = job[q].new /\ job[q].new # next
    BY <1>1, RequestFrame, Numbers
  <2>5. OwnOK'
    BY <2>3, <2>4 DEF ArchInv, OwnOK
  <2> QED
    BY <2>1, <2>2, <2>5 DEF ArchInv
<1>2. CASE NodeRedWrites \/ UNCHANGED vars \/ Boot
  <2>1. arch' = arch /\ next' = next /\ job' = job /\ pc' = pc
    BY <1>2 DEF NodeRedWrites, vars, Boot
  <2> QED
    BY <2>1 DEF ArchInv, FreshOK, OwnOK, ArchiveOK, Holding
<1>3. CASE Crash
  <2>1. /\ arch' = arch /\ next' = next /\ job' = job
        /\ \A q \in Requests : pc'[q] = pc[q] \/ pc'[q] = "dead"
    BY <1>3 DEF Crash
  <2>2. ASSUME NEW q \in Requests
        PROVE  ArchiveOK(q)'
    BY <2>1 DEF ArchInv, ArchiveOK, Holding
  <2> QED
    BY <2>1, <2>2 DEF ArchInv, FreshOK, OwnOK
<1> QED
  BY <1>1, <1>2, <1>3 DEF Next

(* At first every archive is published and no request has one.             *)
LEMMA ArchInit == Init => ArchInv
<1> SUFFICES ASSUME Init PROVE ArchInv
  OBVIOUS
<1> DEFINE n == Cardinality(DOMAIN Initial)
<1>1. n \in 0..MaxId /\ MaxId \in Nat
  BY InitialCount, ConstantsOK
<1>2. FreshOK
  <2>1. PICK damage \in [1..n -> {"ok", "bad", "unreadable"}] :
          arch = [i \in Ids |-> IF i <= n
                    THEN [st |-> "zip", type |-> Initial[i], health |-> damage[i],
                          files |-> [f \in Files |-> 2], manifest |-> Files]
                    ELSE NoArchive]
    BY DEF Init
  <2>2. next = n + 1
    BY DEF Init
  <2>3. \A i \in Ids : i >= next => ~(i <= n)
    BY <1>1, <2>2 DEF Ids
  <2>4. \A i \in Ids : i >= next => arch[i] = NoArchive
    BY <2>1, <2>3
  <2> QED
    BY <2>4 DEF FreshOK, NoArchive
<1>3. \A r \in Requests : pc[r] = "idle" /\ job[r].new = NoId /\ job[r].swapped = {}
  BY DEF Init, NoJob
<1> QED
  BY <1>2, <1>3 DEF ArchInv, OwnOK, ArchiveOK, Holding

-----------------------------------------------------------------------------
(* Restores.                                                               *)

(* A restore that has stopped Node-RED and not started it again.           *)
Restoring(r) == job[r].op = "restore" /\ pc[r] \in Guarding \cup {"restart"}

(* What the service does not see to itself: two restores do not overlap.   *)
OneRestoreAtATime == \A q, r \in Requests : Restoring(q) /\ Restoring(r) => q = r

StoppedOK(r) == job[r].op = "restore" /\ pc[r] \in Guarding => node = "stopped"

(* The safety archive holds the files as they are until the swap begins,   *)
(* and as they were from then on.                                          *)
CopyOK(r) ==
  job[r].op = "restore" =>
  \A f \in FilesForBackup(job[r].conf) :
    /\ pc[r] = "copy" /\ f < job[r].k => arch[job[r].new].files[f] = data[f]
    /\ pc[r] \in {"publish", "list", "prune", "verify"} =>
         arch[job[r].new].files[f] = data[f]
    /\ pc[r] = "swap" \/ job[r].swapped # {} =>
         arch[job[r].new].files[f] = job[r].before[f]

RestoreInv == \A r \in Requests : StoppedOK(r) /\ CopyOK(r)

(* A restore's own steps keep Node-RED stopped and the copy true.          *)
LEMMA OwnRestore ==
  ASSUME TypeOK, JobInv, ArchInv, RestoreInv, NEW r \in Requests, Call(r) \/ Step(r)
  PROVE  StoppedOK(r)' /\ CopyOK(r)'
<1>0. /\ next \in Nat /\ job[r].new \in Nat /\ job[r].new < next /\ job[r].k \in Nat
      /\ (job[r].new # NoId => job[r].new \in Ids) /\ NFiles \in Nat
  BY Numbers
<1>1. JobOK(r) /\ StoppedOK(r) /\ CopyOK(r) /\ (Effect(r) \/ Call(r))
  BY StepEffect DEF JobInv, RestoreInv
<1>f. \A c : \A f \in FilesForBackup(c) : f \in Files /\ f \in Nat /\ f >= 1 /\ f <= NFiles
  <2>1. \A f \in Files : f \in Nat /\ f >= 1 /\ f <= NFiles
    BY <1>0 DEF Files
  <2> QED
    BY <2>1, FilesOfBackup
<1>s. Step(r) => \A i \in Ids : Fate(r, i)
  BY StepFate
<1>c. CASE Call(r)
  BY <1>c, CallJob DEF StoppedOK, CopyOK, Guarding, Creating
<1> USE DEF SameLocals, SameCall, SameArchive, SameRestore, Returned, Moves
<1>2. CASE Creates(r)
  <2>1. StoppedOK(r)'
    BY <1>1, <1>2 DEF Creates, StoppedOK, Guarding, Creating
  <2>2. pc'[r] = "copy" /\ job'[r].k = 1 /\ job'[r].swapped = {}
    BY <1>1, <1>2 DEF Creates, JobOK
  <2>3. \A f \in FilesForBackup(job'[r].conf) : ~(f < 1)
    BY <1>f
  <2> QED
    BY <2>1, <2>2, <2>3 DEF CopyOK
<1>3. CASE Copies(r)
  <2>1. StoppedOK(r)' /\ job'[r].swapped = {}
    BY <1>1, <1>3 DEF Copies, StoppedOK, Guarding, Creating, JobOK
  <2>2. ASSUME job[r].op = "restore", NEW f \in FilesForBackup(job[r].conf), f < job[r].k + 1
        PROVE  arch'[job[r].new].files[f] = data[f]
    <3>1. f \in Files /\ (f = job[r].k \/ f < job[r].k)
      BY <1>0, <1>f, <2>2
    <3>2. CASE f = job[r].k
      BY <1>3, <2>2, <3>2 DEF Copies
    <3>3. CASE f < job[r].k /\ f # job[r].k
      BY <1>1, <1>3, <2>2, <3>1, <3>3 DEF Copies, CopyOK
    <3> QED
      BY <3>1, <3>2, <3>3
  <2> QED
    BY <1>3, <2>1, <2>2 DEF Copies, CopyOK
<1>4. CASE Closes(r)
  <2>1. StoppedOK(r)' /\ job'[r].swapped = {}
    BY <1>1, <1>4 DEF Closes, StoppedOK, Guarding, Creating, JobOK
  <2>2. \A f \in FilesForBackup(job[r].conf) : f < job[r].k
    BY <1>0, <1>4, <1>f DEF Closes
  <2> QED
    BY <1>1, <1>4, <2>1, <2>2 DEF Closes, CopyOK
<1>5. CASE Publishes(r) \/ Lists(r)
  BY <1>1, <1>5 DEF Publishes, Lists, StoppedOK, CopyOK, Guarding, Creating, JobOK
<1>6. CASE (Prunes(r) \/ EndsCreation(r)) /\ Step(r)
  <2>1. StoppedOK(r)'
    BY <1>1, <1>6 DEF Prunes, EndsCreation, StoppedOK, Guarding, Creating
  <2>2. pc[r] = "prune" => arch'[job[r].new].files = arch[job[r].new].files
    BY <1>0, <1>1, <1>6, <1>s DEF Fate, JobOK
  <2>3. job[r].swapped = {} /\ job'[r].swapped = {}
    BY <1>1, <1>6 DEF Prunes, EndsCreation, JobOK, Creating
  <2>4. pc'[r] \in {"prune", "verify"} => pc[r] = "prune" /\ job'[r].conf = job[r].conf
                                            /\ job'[r].new = job[r].new /\ job'[r].op = job[r].op
    BY <1>6 DEF Prunes, EndsCreation
  <2>5. pc'[r] \in {"prune", "verify", "restart", "done"} /\ data' = data
    BY <1>6 DEF Prunes, EndsCreation
  <2> QED
    BY <1>1, <2>1, <2>2, <2>3, <2>4, <2>5 DEF CopyOK
<1>7. CASE Deletes(r) \/ BeginsRestore(r) \/ Saves(r)
  <2>1. /\ pc'[r] \in {"unlink", "done", "quiesce", "create", "write", "apply"}
        /\ job'[r].swapped = {}
        /\ pc'[r] = "create" => node' = "stopped"
    BY <1>1, <1>7 DEF Deletes, BeginsRestore, Saves, JobOK
  <2> QED
    BY <2>1 DEF StoppedOK, CopyOK, Guarding, Creating
<1>8. CASE Swaps(r)
  <2>1. StoppedOK(r)'
    BY <1>1, <1>8 DEF Swaps, StoppedOK, Guarding, Creating
  <2>2. CASE pc[r] = "verify" /\ pc'[r] = "swap"
    BY <1>1, <1>8, <2>1, <2>2 DEF Swaps, CopyOK
  <2>3. CASE pc[r] = "swap" /\ pc'[r] = "swap"
    BY <1>1, <1>8, <2>1, <2>3 DEF Swaps, CopyOK
  <2>4. CASE pc'[r] = "restart"
    BY <1>1, <1>8, <2>1, <2>4 DEF Swaps, CopyOK, JobOK
  <2> QED
    BY <1>8, <2>2, <2>3, <2>4 DEF Swaps
<1>9. CASE Restarts(r)
  BY <1>1, <1>9 DEF Restarts, StoppedOK, CopyOK, Guarding, Creating
<1> QED
  BY <1>1, <1>c, <1>2, <1>3, <1>4, <1>5, <1>6, <1>7, <1>8, <1>9 DEF Effect

(* The steps of the others do too, when they are not restores as well.     *)
LEMMA OthersRestore ==
  ASSUME TypeOK, JobInv, ArchInv, RestoreInv, OneRestoreAtATime,
         NEW q \in Requests, Call(q) \/ Step(q), NEW r \in Requests \ {q}
  PROVE  StoppedOK(r)' /\ CopyOK(r)'
<1>1. /\ pc'[r] = pc[r] /\ job'[r] = job[r] /\ StoppedOK(r) /\ CopyOK(r)
      /\ JobOK(q) /\ JobOK(r)
  BY RequestFrame DEF RestoreInv, JobInv
<1>2. job[r].op = "restore" /\ pc[r] \in Guarding =>
        (node' = "stopped" \/ node' = node) /\ data' = data
  <2>1. CASE Call(q)
    <3>1. PICK op, phase, locals : Begin(q, op, phase, locals)
      BY <2>1, CallBegins
    <3> QED
      BY <3>1 DEF Begin
  <2>2. CASE Step(q)
    <3>1. Effect(q)
      BY <1>1, <2>2, StepEffect
    <3>2. job[r].op = "restore" /\ pc[r] \in Guarding => ~Restoring(q)
      BY DEF OneRestoreAtATime, Restoring
    <3>3. Swaps(q) \/ Restarts(q) => Restoring(q)
      BY <1>1 DEF Swaps, Restarts, Restoring, JobOK, Guarding
    <3> QED
      BY <3>1, <3>2, <3>3 DEF Effect, Creates, Copies, Closes, Publishes, Lists, Prunes,
        EndsCreation, Deletes, BeginsRestore, Saves
  <2> QED
    BY <2>1, <2>2
<1>3. StoppedOK(r)'
  BY <1>1, <1>2 DEF StoppedOK
<1>4. job[r].new # NoId => arch'[job[r].new].files = arch[job[r].new].files
  <2>1. CASE Call(q)
    <3>1. PICK op, phase, locals : Begin(q, op, phase, locals)
      BY <2>1, CallBegins
    <3> QED
      BY <3>1 DEF Begin
  <2>2. CASE Step(q) /\ job[r].new # NoId
    <3>1. job[r].new \in Ids /\ job[r].new < next /\ job[r].new # job[q].new
      BY <2>2, Numbers DEF ArchInv, OwnOK
    <3>2. Fate(q, job[r].new)
      BY <2>2, <3>1, StepFate
    <3> QED
      BY <3>1, <3>2 DEF Fate
  <2> QED
    BY <2>1, <2>2
<1>5. CopyOK(r)'
  <2>1. job[r].op = "restore" /\ pc[r] \in {"copy", "publish", "list", "prune", "verify"} =>
          data' = data /\ job[r].new # NoId
    BY <1>1, <1>2 DEF JobOK, Guarding, Creating
  <2>2. pc[r] = "swap" \/ job[r].swapped # {} => job[r].new # NoId
    BY <1>1 DEF JobOK
  <2> QED
    BY <1>1, <1>4, <2>1, <2>2 DEF CopyOK
<1> QED
  BY <1>3, <1>5

(* So does everything else: a running Node-RED is not under a restore.     *)
LEMMA RestoreNext ==
  ASSUME TypeOK, JobInv, ArchInv, RestoreInv, OneRestoreAtATime, [Next]_vars
  PROVE  RestoreInv'
<1>1. ASSUME NEW r \in Requests, Call(r) \/ Step(r)
      PROVE  RestoreInv'
  BY <1>1, OwnRestore, OthersRestore DEF RestoreInv
<1>2. CASE NodeRedWrites
  <2>1. ASSUME NEW r \in Requests
        PROVE  StoppedOK(r)' /\ CopyOK(r)'
    <3>1. /\ pc' = pc /\ job' = job /\ arch' = arch /\ node = "running"
          /\ node' = node /\ StoppedOK(r) /\ CopyOK(r)
      BY <1>2 DEF NodeRedWrites, RestoreInv
    <3> QED
      BY <3>1 DEF StoppedOK, CopyOK, Guarding, Creating
  <2> QED
    BY <2>1 DEF RestoreInv
<1>3. CASE UNCHANGED vars
  BY <1>3 DEF vars, RestoreInv, StoppedOK, CopyOK
<1>4. CASE Crash
  <2>1. ASSUME NEW r \in Requests
        PROVE  StoppedOK(r)' /\ CopyOK(r)'
    <3>1. /\ pc'[r] = IF pc[r] \in {"idle", "done"} THEN pc[r] ELSE "dead"
          /\ job' = job /\ arch' = arch /\ data' = data /\ CopyOK(r)
      BY <1>4 DEF Crash, RestoreInv
    <3> QED
      BY <3>1 DEF StoppedOK, CopyOK, Guarding, Creating
  <2> QED
    BY <2>1 DEF RestoreInv
<1>5. CASE Boot
  <2>1. ASSUME NEW r \in Requests
        PROVE  StoppedOK(r)' /\ CopyOK(r)'
    <3>1. /\ pc' = pc /\ job' = job /\ arch' = arch /\ data' = data /\ CopyOK(r)
          /\ pc[r] \in {"idle", "done", "dead"}
      BY <1>5 DEF Boot, RestoreInv, JobInv, JobOK
    <3> QED
      BY <3>1 DEF StoppedOK, CopyOK, Guarding, Creating
  <2> QED
    BY <2>1 DEF RestoreInv
<1> QED
  BY <1>1, <1>2, <1>3, <1>4, <1>5 DEF Next

(* Nothing is being restored at first.                                     *)
LEMMA RestoreInit == Init => RestoreInv
<1> SUFFICES ASSUME Init, NEW r \in Requests PROVE StoppedOK(r) /\ CopyOK(r)
  BY DEF RestoreInv
<1>1. pc[r] = "idle" /\ job[r].swapped = {}
  BY DEF Init, NoJob
<1> QED
  BY <1>1 DEF StoppedOK, CopyOK, Guarding, Creating

(* The copy of the files gives the property of the runs.                   *)
LEMMA RestoreSafety ==
  ASSUME TypeOK, JobInv, ArchInv, RestoreInv
  PROVE  SwapsWhileStopped /\ SnapshotHoldsReplaced
<1>1. SwapsWhileStopped
  BY DEF SwapsWhileStopped, RestoreInv, StoppedOK, JobInv, JobOK, Guarding
<1>2. ASSUME NEW r \in Requests, NEW f \in job[r].swapped \cap FilesForBackup(job[r].conf)
      PROVE  /\ job[r].new # NoId
             /\ arch[job[r].new].st \in {"zip", "marker", "gone"}
             /\ arch[job[r].new].st = "gone" =>
                  \E q \in Requests \ {r} : job[q].op \in {"delete", "restore"}
             /\ arch[job[r].new].files[f] = job[r].before[f]
  <2>1. job[r].swapped # {} /\ JobOK(r) /\ ArchiveOK(r) /\ CopyOK(r)
    BY DEF JobInv, ArchInv, RestoreInv
  <2>2. job[r].op = "restore" /\ job[r].new # NoId
    BY <2>1 DEF JobOK
  <2> QED
    BY <2>1, <2>2 DEF ArchiveOK, CopyOK, Holding, Published, Removers
<1> QED
  BY <1>1, <1>2 DEF SnapshotHoldsReplaced

(* However the handlers, the cron goroutine, Node-RED and crashes          *)
(* interleave, a restore swaps files only while Node-RED is stopped, as    *)
(* long as restores do not overlap.                                        *)
THEOREM RestoresSwapStopped == Spec /\ []OneRestoreAtATime => []SwapsWhileStopped
<1>1. Init => TypeOK /\ JobInv /\ ArchInv /\ RestoreInv
  BY InitType, ArchInit, RestoreInit
<1>2. TypeOK /\ JobInv /\ ArchInv /\ RestoreInv /\ OneRestoreAtATime /\ [Next]_vars
        => (TypeOK /\ JobInv /\ ArchInv /\ RestoreInv)'
  BY TypeNext, JobNext, ArchNext, RestoreNext
<1>3. TypeOK /\ JobInv /\ ArchInv /\ RestoreInv => SwapsWhileStopped
  BY RestoreSafety
<1> QED
  BY <1>1, <1>2, <1>3, PTL DEF Spec

(* Under the same condition the safety archive of a restore holds every    *)
(* file it has replaced, as the file was, and only a delete or another     *)
(* restore can have removed that archive.                                  *)
THEOREM SnapshotsHold == Spec /\ []OneRestoreAtATime => []SnapshotHoldsReplaced
<1>1. Init => TypeOK /\ JobInv /\ ArchInv /\ RestoreInv
  BY InitType, ArchInit, RestoreInit
<1>2. TypeOK /\ JobInv /\ ArchInv /\ RestoreInv /\ OneRestoreAtATime /\ [Next]_vars
        => (TypeOK /\ JobInv /\ ArchInv /\ RestoreInv)'
  BY TypeNext, JobNext, ArchNext, RestoreNext
<1>3. TypeOK /\ JobInv /\ ArchInv /\ RestoreInv => SnapshotHoldsReplaced
  BY RestoreSafety
<1> QED
  BY <1>1, <1>2, <1>3, PTL DEF Spec

(* One administrator who restores is enough for that condition.            *)
LEMMA OneRestorer ==
  ASSUME JobInv, \A q, r \in Requests : "restore" \in Ops[q] /\ "restore" \in Ops[r] => q = r
  PROVE  OneRestoreAtATime
<1>1. \A r \in Requests : Restoring(r) => "restore" \in Ops[r]
  BY DEF JobInv, JobOK, Restoring
<1> QED
  BY <1>1 DEF OneRestoreAtATime

(* With one request that may restore, whatever the others do, both hold.   *)
THEOREM OneRestorerIsSafe ==
  ASSUME \A q, r \in Requests : "restore" \in Ops[q] /\ "restore" \in Ops[r] => q = r
  PROVE  Spec => [](SwapsWhileStopped /\ SnapshotHoldsReplaced)
<1>1. Init => TypeOK /\ JobInv /\ ArchInv /\ RestoreInv
  BY InitType, ArchInit, RestoreInit
<1>2. TypeOK /\ JobInv /\ ArchInv /\ RestoreInv /\ [Next]_vars
        => (TypeOK /\ JobInv /\ ArchInv /\ RestoreInv)'
  BY TypeNext, JobNext, ArchNext, RestoreNext, OneRestorer
<1>3. TypeOK /\ JobInv /\ ArchInv /\ RestoreInv => SwapsWhileStopped /\ SnapshotHoldsReplaced
  BY RestoreSafety
<1> QED
  BY <1>1, <1>2, <1>3, PTL DEF Spec

-----------------------------------------------------------------------------
(* Configurations and retention.                                           *)

(* A configuration that normalizeBackupConfig leaves alone, with a limit   *)
(* that some client chose or the default has.                              *)
Sound(c) ==
  /\ c \in Config
  /\ c.on => c.schedule # "disabled"
  /\ c.schedule # "custom" => c.cron = "none"
  /\ \A t \in Types : c.keep[t] \in Limits(t)

SettingsOK(r) ==
  /\ \A t \in Types : job[r].conf.keep[t] \in Limits(t)
  /\ pc[r] \in {"validate", "write", "apply"} => Sound(job[r].conf)
  /\ pc[r] \in {"write", "apply"} => ScheduleSpec(job[r].conf) # "invalid"

SettingsInv ==
  /\ \A c \in conf : Sound(c) /\ ScheduleSpec(c) # "invalid"
  /\ \A r \in Requests : SettingsOK(r)

(* Every limit in use is at least one, and there is a smallest one.        *)
LEMMA LimitFacts ==
  ASSUME NEW t \in Types
  PROVE  /\ Limits(t) \subseteq Nat /\ \A n \in Limits(t) : n >= 1
         /\ \A n \in Limits(t) : Floor(t) \in Nat /\ n >= Floor(t)
         /\ Default.keep[t] \in Limits(t)
         /\ \A c \in Configs \cup {Default} : NormalizeBackupConfig(c).keep[t] \in Limits(t)
         /\ \A c \in Configs : c.keep["manual"] >= 1 => c.keep["manual"] \in Limits(t)
<1>1. \A c \in Configs \cup {Default} : c \in Config
  BY ConstantsOK
<1>2. ASSUME NEW c \in Config, NEW u \in Types
      PROVE  /\ NormalizeBackupConfig(c).keep[u] = IF c.keep[u] <= 0 THEN Default.keep[u] ELSE c.keep[u]
             /\ c.keep[u] \in Nat
  <2>1. NormalizeBackupConfig(c).keep
          = [v \in Types |-> IF c.keep[v] <= 0 THEN Default.keep[v] ELSE c.keep[v]]
    BY NormalizeType
  <2> QED
    BY <2>1 DEF Config
<1>3. ASSUME NEW c \in Config, NEW u \in Types
      PROVE  NormalizeBackupConfig(c).keep[u] \in Nat /\ NormalizeBackupConfig(c).keep[u] >= 1
  <2>1. Default.keep[u] \in Nat /\ Default.keep[u] >= 1
    BY ConstantsOK DEF Config
  <2> QED
    BY <1>2, <2>1
<1>m. "manual" \in Types
  BY DEF Types
<1>4. Limits(t) \subseteq Nat /\ \A n \in Limits(t) : n >= 1
  BY <1>1, <1>3, <1>m DEF Limits
<1>5. \A c \in Configs \cup {Default} : NormalizeBackupConfig(c).keep[t] \in Limits(t)
  BY DEF Limits
<1>6. Default.keep[t] \in Limits(t)
  <2>1. NormalizeBackupConfig(Default).keep[t] = Default.keep[t]
    BY <1>1, <1>2
  <2> QED
    BY <1>5, <2>1
<1>7. ASSUME NEW c \in Configs, c.keep["manual"] >= 1
      PROVE  c.keep["manual"] \in Limits(t)
  <2>1. NormalizeBackupConfig(c).keep["manual"] = c.keep["manual"]
    BY <1>1, <1>2, <1>7, <1>m
  <2>2. NormalizeBackupConfig(c).keep["manual"] \in Limits(t)
    BY DEF Limits
  <2> QED
    BY <2>1, <2>2
<1>8. Floor(t) \in Limits(t) /\ \A m \in Limits(t) : Floor(t) <= m
  <2>1. \E n \in Limits(t) : \A m \in Limits(t) : n <= m
    BY <1>4, <1>6, LeastExists
  <2> QED
    BY <2>1 DEF Floor
<1>9. \A n \in Limits(t) : Floor(t) \in Nat /\ n >= Floor(t)
  BY <1>4, <1>8
<1> QED
  BY <1>4, <1>5, <1>6, <1>7, <1>9

(* normalizeBackupConfig makes a configuration sound when its limits are   *)
(* sound or absent, and a sound one keeps its schedule.                    *)
LEMMA NormalizeSound ==
  ASSUME NEW c \in Config
  PROVE  /\ (\A t \in Types : NormalizeBackupConfig(c).keep[t] \in Limits(t))
              => Sound(NormalizeBackupConfig(c))
         /\ (\A t \in Types : c.keep[t] \in Limits(t))
              => \A t \in Types : NormalizeBackupConfig(c).keep[t] = c.keep[t]
         /\ Sound(c) => /\ Sound(NormalizeBackupConfig(c))
                        /\ ScheduleSpec(NormalizeBackupConfig(c)) = ScheduleSpec(c)
<1> DEFINE n == NormalizeBackupConfig(c)
<1>1. /\ n \in Config /\ n.schedule = c.schedule
      /\ n.on = (c.on /\ c.schedule # "disabled")
      /\ n.cron = IF c.schedule = "custom" THEN c.cron ELSE "none"
      /\ n.keep = [t \in Types |-> IF c.keep[t] <= 0 THEN Default.keep[t] ELSE c.keep[t]]
  BY NormalizeType
<1> HIDE DEF n
<1>2. (\A t \in Types : n.keep[t] \in Limits(t)) => Sound(n)
  BY <1>1 DEF Sound
<1>3. ASSUME \A t \in Types : c.keep[t] \in Limits(t)
      PROVE  \A t \in Types : n.keep[t] = c.keep[t]
  <2>1. \A t \in Types : c.keep[t] \in Nat /\ c.keep[t] >= 1
    BY <1>3, LimitFacts
  <2>2. \A t \in Types : ~(c.keep[t] <= 0)
    BY <2>1
  <2> QED
    BY <1>1, <2>2
<1>4. ASSUME Sound(c)
      PROVE  Sound(n) /\ ScheduleSpec(n) = ScheduleSpec(c)
  <2>1. Sound(n)
    BY <1>2, <1>3, <1>4 DEF Sound
  <2>2. n.on = c.on /\ n.cron = c.cron
    BY <1>1, <1>4 DEF Sound, Config
  <2> QED
    BY <1>1, <2>1, <2>2 DEF ScheduleSpec
<1> QED
  BY <1>2, <1>3, <1>4 DEF n

(* GetConfig returns sound configurations.                                 *)
LEMMA GetConfigSound ==
  ASSUME TypeOK, SettingsInv, NEW c \in GetConfig
  PROVE  Sound(c) /\ ScheduleSpec(c) # "invalid"
<1>1. PICK d \in conf : c = NormalizeBackupConfig(d)
  BY DEF GetConfig
<1>2. Sound(d) /\ ScheduleSpec(d) # "invalid" /\ d \in Config
  BY DEF SettingsInv, TypeOK
<1> QED
  BY <1>1, <1>2, NormalizeSound

(* A call that is going to save has normalised what it saves.              *)
LEMMA CallSettings ==
  ASSUME TypeOK, SettingsInv, NEW r \in Requests, Call(r)
  PROVE  SettingsOK(r)' /\ UNCHANGED conf
<1>t. pc \in [Requests -> Phases] /\ job \in [Requests -> Job]
  BY DEF TypeOK
<1>b. ASSUME NEW op, NEW phase, NEW locals, Begin(r, op, phase, locals)
      PROVE  pc'[r] = phase /\ job'[r] = locals /\ UNCHANGED conf
  BY <1>b, <1>t DEF Begin, Goto
<1>d. \A t \in Types : Default.keep[t] \in Limits(t)
  BY LimitFacts
<1>1. ASSUME NEW op, NEW phase \in {"create", "delete", "restore", "done"}, NEW locals,
             Begin(r, op, phase, locals), locals.conf = Default
      PROVE  SettingsOK(r)' /\ UNCHANGED conf
  <2>1. pc'[r] = phase /\ job'[r] = locals /\ UNCHANGED conf
    BY <1>1, <1>b
  <2> QED
    BY <1>1, <1>d, <2>1 DEF SettingsOK
<1>2. ASSUME NEW op, NEW c, Sound(c),
             Begin(r, op, "validate", [NoJob EXCEPT !.op = op, !.conf = c])
      PROVE  SettingsOK(r)' /\ UNCHANGED conf
  <2> DEFINE j == [NoJob EXCEPT !.op = op, !.conf = c]
  <2>1. j.conf = c
    BY DEF NoJob
  <2> HIDE DEF j
  <2>2. Begin(r, op, "validate", j)
    BY <1>2 DEF j
  <2>3. pc'[r] = "validate" /\ job'[r] = j /\ UNCHANGED conf
    BY <1>b, <2>2
  <2> QED
    BY <1>2, <2>1, <2>3 DEF SettingsOK, Sound
<1>3. CASE PostBackup(r) \/ RunAutomaticBackup(r)
  <2>1. PICK type \in {"manual", "other", "auto"} :
          Begin(r, type, "create", [NoJob EXCEPT !.op = type, !.type = type])
    BY <1>3, Zenon DEF PostBackup, RunAutomaticBackup
  <2>2. [NoJob EXCEPT !.op = type, !.type = type].conf = Default
    BY DEF NoJob
  <2> QED
    BY <1>1, <2>1, <2>2
<1>4. CASE DeleteBackup(r) \/ RestoreBackup(r)
  <2>1. PICK op \in {"delete", "restore"}, i \in 1..(next - 1) :
          Begin(r, op, op, [NoJob EXCEPT !.op = op, !.target = i])
    BY <1>4, Zenon DEF DeleteBackup, RestoreBackup
  <2>2. [NoJob EXCEPT !.op = op, !.target = i].conf = Default
    BY DEF NoJob
  <2> QED
    BY <1>1, <2>1, <2>2
<1>e. ASSUME NEW op, Begin(r, op, "done", [NoJob EXCEPT !.op = op, !.failed = TRUE])
      PROVE  SettingsOK(r)' /\ UNCHANGED conf
  <2>1. [NoJob EXCEPT !.op = op, !.failed = TRUE].conf = Default
    BY DEF NoJob
  <2> QED
    BY <1>1, <1>e, <2>1
<1>5. CASE PostBackupConfig(r)
  <2>1. PICK c \in Configs :
          Begin(r, "save", "validate", [NoJob EXCEPT !.op = "save", !.conf = NormalizeBackupConfig(c)])
    BY <1>5 DEF PostBackupConfig
  <2>2. Sound(NormalizeBackupConfig(c))
    <3>1. c \in Config
      BY ConstantsOK
    <3>2. \A t \in Types : NormalizeBackupConfig(c).keep[t] \in Limits(t)
      BY LimitFacts
    <3> QED
      BY <3>1, <3>2, NormalizeSound
  <2> QED
    BY <1>2, <2>1, <2>2
<1>6. CASE PostSchedulerConfig(r)
  <2>1. CASE Begin(r, "reschedule", "done", [NoJob EXCEPT !.op = "reschedule", !.failed = TRUE])
    BY <1>e, <2>1
  <2>2. ASSUME NEW e \in {"valid", "invalid"}, NEW old \in GetConfig,
               Begin(r, "reschedule", "validate",
                 [NoJob EXCEPT !.op = "reschedule",
                               !.conf = NormalizeBackupConfig([old EXCEPT !.schedule = "custom",
                                                                          !.cron = e])])
        PROVE  SettingsOK(r)' /\ UNCHANGED conf
    <3> DEFINE d == [old EXCEPT !.schedule = "custom", !.cron = e]
    <3>1. Sound(old) /\ old \in Config
      BY GetConfigSound, GetConfigType
    <3>2. d \in Config /\ d.keep = old.keep
      BY <3>1 DEF Config
    <3> HIDE DEF d
    <3>3. \A t \in Types : NormalizeBackupConfig(d).keep[t] \in Limits(t)
      BY <3>1, <3>2, NormalizeSound DEF Sound
    <3>4. Sound(NormalizeBackupConfig(d))
      BY <3>2, <3>3, NormalizeSound
    <3> QED
      BY <1>2, <2>2, <3>4 DEF d
  <2> QED
    BY <1>6, <2>1, <2>2 DEF PostSchedulerConfig, ConfigUnreadable
<1>7. CASE PatchStorageRetention(r)
  <2>1. CASE ConfigUnreadable(r, "retain")
    BY <1>e, <2>1 DEF ConfigUnreadable
  <2>2. ASSUME NEW old \in GetConfig, NEW c \in Configs, c.keep["manual"] >= 1,
               Begin(r, "retain", "validate",
                 [NoJob EXCEPT !.op = "retain",
                               !.conf = NormalizeBackupConfig(
                                 [old EXCEPT !.keep = [t \in Types |-> c.keep["manual"]]])])
        PROVE  SettingsOK(r)' /\ UNCHANGED conf
    <3> DEFINE d == [old EXCEPT !.keep = [t \in Types |-> c.keep["manual"]]]
    <3>1. c.keep["manual"] \in Nat
      BY ConstantsOK DEF Config, Types
    <3>2. d \in Config /\ \A t \in Types : d.keep[t] = c.keep["manual"]
      BY <3>1, GetConfigType DEF Config
    <3> HIDE DEF d
    <3>3. \A t \in Types : d.keep[t] \in Limits(t)
      BY <2>2, <3>2, LimitFacts
    <3>4. \A t \in Types : NormalizeBackupConfig(d).keep[t] \in Limits(t)
      BY <3>2, <3>3, NormalizeSound
    <3>5. Sound(NormalizeBackupConfig(d))
      BY <3>2, <3>4, NormalizeSound
    <3> QED
      BY <1>2, <2>2, <3>5 DEF d
  <2> QED
    BY <1>7, <2>1, <2>2 DEF PatchStorageRetention
<1> QED
  BY <1>3, <1>4, <1>5, <1>6, <1>7 DEF Call

(* A step saves what was validated and reads what was saved.               *)
LEMMA StepSettings ==
  ASSUME TypeOK, JobInv, SettingsInv, NEW r \in Requests, Step(r)
  PROVE  /\ SettingsOK(r)'
         /\ \A c \in conf' : Sound(c) /\ ScheduleSpec(c) # "invalid"
<1>1. Effect(r) /\ SettingsOK(r) /\ (\A c \in conf : Sound(c) /\ ScheduleSpec(c) # "invalid")
  BY StepEffect DEF JobInv, SettingsInv
<1>d. \A t \in Types : Default.keep[t] \in Limits(t)
  BY LimitFacts
<1> USE DEF SameLocals, SameCall, SameArchive, SameRestore, Returned
<1>2. CASE Creates(r)
  <2>1. \A t \in Types : job'[r].conf.keep[t] \in Limits(t)
    BY <1>2, <1>d, GetConfigSound DEF Creates, Sound
  <2> QED
    BY <1>1, <1>2, <2>1 DEF Creates, SettingsOK
<1>3. CASE Saves(r)
  <2>1. SettingsOK(r)'
    BY <1>1, <1>3, <1>d DEF Saves, SettingsOK
  <2>2. \A c \in conf' : Sound(c) /\ ScheduleSpec(c) # "invalid"
    BY <1>1, <1>3 DEF Saves, SettingsOK, Truncated
  <2> QED
    BY <2>1, <2>2
<1>4. CASE Copies(r) \/ Closes(r) \/ Publishes(r) \/ Lists(r) \/ Prunes(r) \/ EndsCreation(r)
             \/ Deletes(r) \/ BeginsRestore(r) \/ Swaps(r) \/ Restarts(r)
  <2>1. /\ pc'[r] \notin {"validate", "write", "apply"}
        /\ job'[r].conf \in {Default, job[r].conf} /\ conf' = conf
    BY <1>4 DEF Copies, Closes, Publishes, Lists, Prunes, EndsCreation, Deletes, BeginsRestore,
      Swaps, Restarts
  <2> QED
    BY <1>1, <1>d, <2>1 DEF SettingsOK
<1> QED
  BY <1>1, <1>2, <1>3, <1>4 DEF Effect

(* Every configuration in the service stays sound.                         *)
LEMMA SettingsNext ==
  ASSUME TypeOK, JobInv, SettingsInv, [Next]_vars
  PROVE  SettingsInv'
<1>1. ASSUME NEW r \in Requests, Call(r) \/ Step(r)
      PROVE  SettingsInv'
  <2>1. SettingsOK(r)' /\ \A c \in conf' : Sound(c) /\ ScheduleSpec(c) # "invalid"
    BY <1>1, CallSettings, StepSettings DEF SettingsInv
  <2>2. ASSUME NEW q \in Requests \ {r}
        PROVE  SettingsOK(q)'
    BY <1>1, RequestFrame DEF SettingsInv, SettingsOK
  <2> QED
    BY <2>1, <2>2 DEF SettingsInv
<1>2. CASE NodeRedWrites \/ UNCHANGED vars \/ Boot
  <2>1. conf' = conf /\ job' = job /\ pc' = pc
    BY <1>2 DEF NodeRedWrites, vars, Boot
  <2> QED
    BY <2>1 DEF SettingsInv, SettingsOK
<1>3. CASE Crash
  <2>1. /\ conf' = conf /\ job' = job
        /\ \A q \in Requests : pc'[q] = pc[q] \/ pc'[q] = "dead"
    BY <1>3 DEF Crash
  <2>2. ASSUME NEW q \in Requests
        PROVE  SettingsOK(q)'
    BY <2>1 DEF SettingsInv, SettingsOK
  <2> QED
    BY <2>1, <2>2 DEF SettingsInv
<1> QED
  BY <1>1, <1>2, <1>3 DEF Next

(* The configuration that is there at first is one of the client's or the  *)
(* default, normalised.                                                    *)
LEMMA SettingsInit == Init => SettingsInv
<1> SUFFICES ASSUME Init PROVE SettingsInv
  OBVIOUS
<1>0. PICK c \in {NormalizeBackupConfig(d) : d \in Configs \cup {Default}} :
        ScheduleSpec(c) # "invalid" /\ conf = {c}
  BY Zenon DEF Init
<1>1. PICK d \in Configs \cup {Default} :
        ScheduleSpec(NormalizeBackupConfig(d)) # "invalid" /\ conf = {NormalizeBackupConfig(d)}
  BY <1>0
<1>2. Sound(NormalizeBackupConfig(d))
  <2>1. d \in Config
    BY ConstantsOK
  <2>2. \A t \in Types : NormalizeBackupConfig(d).keep[t] \in Limits(t)
    BY LimitFacts
  <2> QED
    BY <2>1, <2>2, NormalizeSound
<1>3. \A r \in Requests : pc[r] = "idle" /\ job[r].conf = Default
  BY DEF Init, NoJob
<1> QED
  BY <1>1, <1>2, <1>3, LimitFacts DEF SettingsInv, SettingsOK

(* The archives of a type that were ever published.                        *)
Ever(t) == {j \in Ids : arch[j].st \in Published /\ NormalizeBackupType(arch[j].type) = t}

(* Enough newer archives of the type were published than the smallest      *)
(* limit asks for.                                                         *)
Superseded(i) ==
  LET t == NormalizeBackupType(arch[i].type)
  IN Cardinality(Newer(Ever(t), i)) >= Floor(t)

RetentionInv == \A r \in Requests : pc[r] = "prune" => \A i \in job[r].prune : Superseded(i)

(* The type that describeBackup reports is one of the three.               *)
LEMMA NormalizeTypeOfArchive ==
  ASSUME NEW t
  PROVE  NormalizeBackupType(t) \in Types /\ (t \in Types => NormalizeBackupType(t) = t)
  BY DEF NormalizeBackupType, Types

(* Sets of archives are finite and count accordingly.                      *)
LEMMA Counting ==
  ASSUME NEW S, NEW T, S \subseteq T, T \subseteq Ids, NEW i
  PROVE  /\ Cardinality(Newer(S, i)) \in Nat /\ Cardinality(Newer(T, i)) \in Nat
         /\ Cardinality(Newer(S, i)) <= Cardinality(Newer(T, i))
<1>1. MaxId \in Nat
  BY ConstantsOK
<1>2. IsFiniteSet(Ids)
  BY <1>1, FS_Interval DEF Ids
<1>3. Newer(S, i) \subseteq Newer(T, i) /\ Newer(T, i) \subseteq Ids
  BY DEF Newer
<1>4. IsFiniteSet(Newer(T, i))
  BY <1>2, <1>3, FS_Subset
<1>5. IsFiniteSet(Newer(S, i)) /\ Cardinality(Newer(S, i)) <= Cardinality(Newer(T, i))
  BY <1>3, <1>4, FS_Subset
<1> QED
  BY <1>4, <1>5, FS_CardinalityType

(* An archive that is superseded stays so.                                 *)
LEMMA SupersededStays ==
  ASSUME TypeOK, JobInv, ArchInv, [Next]_vars, NEW i \in Ids, i < next, Superseded(i)
  PROVE  Superseded(i)'
<1>1. \A j \in Ids : /\ j < next => arch'[j].type = arch[j].type
                     /\ arch[j].st \in Published => arch'[j].st \in Published
  <2>1. ASSUME NEW r \in Requests, Step(r)
        PROVE  \A j \in Ids : Fate(r, j)
    BY <2>1, StepFate
  <2>2. ASSUME NEW r \in Requests, Call(r)
        PROVE  arch' = arch
    <3>1. PICK op, phase, locals : Begin(r, op, phase, locals)
      BY <2>2, CallBegins
    <3> QED
      BY <3>1 DEF Begin
  <2>3. NodeRedWrites \/ Crash \/ Boot \/ UNCHANGED vars => arch' = arch
    BY DEF NodeRedWrites, Crash, Boot, vars
  <2> QED
    BY <2>1, <2>2, <2>3 DEF Next, Fate
<1>2. \A j \in Ids : arch[j].st \in Published => j < next
  <2>1. \A j \in Ids : j \in Nat /\ next \in Nat
    BY Numbers
  <2>2. \A j \in Ids : arch[j].st \in Published => ~(j >= next)
    BY DEF ArchInv, FreshOK, Published
  <2> QED
    BY <2>1, <2>2
<1> DEFINE t == NormalizeBackupType(arch[i].type)
<1>3. Ever(t) \subseteq Ever(t)' /\ Ever(t)' \subseteq Ids
  BY <1>1, <1>2 DEF Ever
<1>4. t' = t
  BY <1>1
<1>5. t \in Types
  BY NormalizeTypeOfArchive
<1>6. Floor(t) \in Nat
  BY <1>5, LimitFacts
<1>7. Cardinality(Newer(Ever(t), i)) >= Floor(t)
  BY DEF Superseded
<1> DEFINE E == Ever(t)
           F == Ever(t)'
<1>8. E \subseteq F /\ F \subseteq Ids /\ Cardinality(Newer(E, i)) >= Floor(t)
  BY <1>3, <1>7
<1> HIDE DEF E, F, t
<1>9. Cardinality(Newer(F, i)) >= Floor(t)
  BY <1>6, <1>8, Counting
<1>10. Superseded(i)' <=> Cardinality(Newer(F, i)) >= Floor(t)
  BY <1>1, <1>4 DEF Superseded, E, F, t
<1> QED
  BY <1>9, <1>10

(* What pruneBackups picks from the directory is superseded.               *)
LEMMA ToPruneSuperseded ==
  ASSUME TypeOK, JobInv, ArchInv, SettingsInv, NEW r \in Requests, NEW i \in ToPrune(r)
  PROVE  Superseded(i)
<1> DEFINE t == NormalizeBackupType(arch[i].type)
           S == {j \in Listed : NormalizeBackupType(arch[j].type) = job[r].type}
           limit == RetentionForType(job[r].conf, job[r].type)
<1>1. t = job[r].type /\ t \in Types /\ i \in Ids
  BY ToPruneSafe, NormalizeTypeOfArchive
<1>2. Cardinality(Newer(S, i)) >= limit
  BY DEF ToPrune, Expired
<1>3. S \subseteq Ever(t) /\ Ever(t) \subseteq Ids
  BY <1>1 DEF Listed, Ever, Published
<1>4. limit \in Limits(t)
  BY <1>1, NormalizeTypeOfArchive DEF RetentionForType, SettingsInv, SettingsOK
<1>5. limit \in Nat /\ Floor(t) \in Nat /\ limit >= Floor(t)
  BY <1>1, <1>4, LimitFacts
<1> DEFINE E == Ever(t)
<1>6. S \subseteq E /\ E \subseteq Ids
  BY <1>3
<1> HIDE DEF S, E, limit, t
<1>7. Cardinality(Newer(E, i)) >= Floor(t)
  BY <1>2, <1>5, <1>6, Counting
<1> QED
  BY <1>7 DEF Superseded, E, t

(* What a request is about to remove stays superseded until it does.       *)
LEMMA RetentionNext ==
  ASSUME TypeOK, JobInv, ArchInv, SettingsInv, RetentionInv, [Next]_vars
  PROVE  RetentionInv'
<1>0. \A r \in Requests : \A i \in job[r].prune : i \in Ids
  BY Numbers
<1>k. ASSUME NEW r \in Requests, pc[r] = "prune", NEW i \in job[r].prune
      PROVE  Superseded(i)'
  <2>1. i \in Ids /\ i < next /\ Superseded(i)
    BY <1>0, <1>k DEF ArchInv, ArchiveOK, RetentionInv
  <2> QED
    BY <2>1, SupersededStays
<1>1. ASSUME NEW r \in Requests, Call(r) \/ Step(r), NEW q \in Requests, pc'[q] = "prune",
             NEW i \in job'[q].prune
      PROVE  Superseded(i)'
  <2>1. CASE q # r
    BY <1>1, <1>k, <2>1, RequestFrame
  <2>2. CASE q = r
    <3>1. Effect(r) \/ pc'[r] # "prune"
      BY <1>1, StepEffect, CallJob DEF JobInv
    <3>2. CASE Lists(r)
      <4>1. i \in ToPrune(r)
        BY <1>1, <2>2, <3>2 DEF Lists
      <4>2. Superseded(i) /\ i \in Ids /\ ~(i >= next)
        BY <4>1, ToPruneSuperseded, ToPruneSafe
      <4>3. i < next
        BY <4>2, Numbers
      <4> QED
        BY <4>2, <4>3, SupersededStays
    <3>3. CASE Prunes(r)
      BY <1>1, <1>k, <2>2, <3>3 DEF Prunes
    <3> QED
      BY <1>1, <2>2, <3>1, <3>2, <3>3 DEF Effect, Creates, Copies, Closes, Publishes,
        EndsCreation, Deletes, BeginsRestore, Swaps, Restarts, Saves, Returned
  <2> QED
    BY <2>1, <2>2
<1>2. CASE NodeRedWrites \/ UNCHANGED vars \/ Boot \/ Crash
  <2>1. /\ job' = job
        /\ \A q \in Requests : pc'[q] = pc[q] \/ pc'[q] = "dead"
    BY <1>2 DEF NodeRedWrites, vars, Boot, Crash
  <2> QED
    BY <1>k, <2>1 DEF RetentionInv
<1> QED
  BY <1>1, <1>2 DEF Next, RetentionInv

(* The step behind the retention property.                                 *)
LEMMA RetentionStep ==
  ASSUME TypeOK, JobInv, ArchInv, RetentionInv, [Next]_vars, NEW i \in Ids,
         arch[i].st = "zip", arch'[i].st = "gone"
  PROVE  Superseded(i)
<1>1. PICK r \in Requests : Step(r)
  <2>1. ASSUME NEW r \in Requests, Call(r)
        PROVE  arch' = arch
    <3>1. PICK op, phase, locals : Begin(r, op, phase, locals)
      BY <2>1, CallBegins
    <3> QED
      BY <3>1 DEF Begin
  <2>2. NodeRedWrites \/ Crash \/ Boot \/ UNCHANGED vars => arch' = arch
    BY DEF NodeRedWrites, Crash, Boot, vars
  <2> QED
    BY <2>1, <2>2 DEF Next
<1>2. Fate(r, i)
  BY <1>1, StepFate
<1> QED
  BY <1>2 DEF Fate, Published, RetentionInv

(* However creations, deletions, restores, configuration changes and       *)
(* crashes interleave with a prune that has read the directory, it never   *)
(* takes one of the newest archives of a type: as many newer ones as the   *)
(* smallest limit in use were published.                                   *)
THEOREM RetentionIsSafe == Spec => RetentionKeepsNewest
<1> DEFINE Inv == TypeOK /\ JobInv /\ ArchInv /\ SettingsInv /\ RetentionInv
           Kept == \A i \in Ids :
                     arch[i].st = "zip" /\ arch'[i].st = "gone" =>
                       LET t == NormalizeBackupType(arch[i].type)
                           ever == {j \in Ids : /\ arch[j].st \in {"zip", "marker", "gone"}
                                                /\ NormalizeBackupType(arch[j].type) = t}
                       IN Cardinality(Newer(ever, i)) >= Floor(t)
<1>1. Init => Inv
  <2>1. Init => RetentionInv
    BY DEF Init, RetentionInv
  <2> QED
    BY <2>1, InitType, ArchInit, SettingsInit
<1>2. Inv /\ [Next]_vars => Inv'
  BY TypeNext, JobNext, ArchNext, SettingsNext, RetentionNext
<1>3. Inv /\ [Next]_vars => [Kept]_vars
  <2> SUFFICES ASSUME Inv, [Next]_vars, NEW i \in Ids, arch[i].st = "zip", arch'[i].st = "gone"
               PROVE  Superseded(i)
    BY DEF Superseded, Ever, Published
  <2> QED
    BY RetentionStep
<1> HIDE DEF Inv, Kept
<1>4. Spec => [][Kept]_vars
  BY <1>1, <1>2, <1>3, PTL DEF Spec
<1>5. [][Kept]_vars <=> RetentionKeepsNewest
  BY DEF Kept, RetentionKeepsNewest
<1> QED
  BY <1>4, <1>5

-----------------------------------------------------------------------------
(* The schedule.                                                           *)

(* A save between the truncation of the file and the scheduler's update.   *)
Saving(r) == pc[r] \in {"write", "apply"}

(* What the service does not see to itself: two saves do not overlap.      *)
OneSaveAtATime == \A q, r \in Requests : Saving(q) /\ Saving(r) => q = r

SavesOK(r) ==
  /\ pc[r] = "write" => conf = Truncated
  /\ pc[r] = "apply" => conf = {job[r].conf}

ScheduleInv == ScheduleFollowsConfig /\ \A r \in Requests : SavesOK(r)

(* The scheduler takes over the schedule of a configuration that parses.   *)
LEMMA ApplyConfigFields ==
  ASSUME TypeOK, NEW c \in Config, ScheduleSpec(c) # "invalid"
  PROVE  /\ ApplyConfigTo(c).spec = ScheduleSpec(c)
         /\ ApplyConfigTo(c).armed <=> ScheduleSpec(c) # ""
<1> DEFINE spec == IF ScheduleSpec(c) = "invalid" THEN "" ELSE ScheduleSpec(c)
           armed == ScheduleSpec(c) \notin {"", "invalid"}
<1>1. ApplyConfigTo(c) = [sched EXCEPT !.enabled = c.on, !.spec = spec, !.armed = armed]
  BY Zenon DEF ApplyConfigTo
<1>2. spec = ScheduleSpec(c)
  OBVIOUS
<1>3. armed <=> ScheduleSpec(c) # ""
  BY Zenon
<1>4. sched \in Status /\ c.on \in BOOLEAN
  BY DEF TypeOK, Status, Config
<1>5. armed \in BOOLEAN
  BY Zenon
<1> HIDE DEF spec, armed
<1>6. ApplyConfigTo(c).spec = spec /\ ApplyConfigTo(c).armed = armed
  BY <1>1, <1>4, <1>5 DEF Status
<1> QED
  BY <1>2, <1>3, <1>6

(* The schedule of what GetConfig returns is the one on disk.              *)
LEMMA ScheduleOnDisk ==
  ASSUME TypeOK, SettingsInv, NEW d, conf = {d}
  PROVE  /\ d \in Config /\ ScheduleSpec(d) # "invalid"
         /\ \A c \in GetConfig : ScheduleSpec(c) = ScheduleSpec(d)
<1>1. d \in Config /\ Sound(d) /\ ScheduleSpec(d) # "invalid"
  BY DEF TypeOK, SettingsInv
<1>2. \A c \in GetConfig : c = NormalizeBackupConfig(d)
  BY DEF GetConfig
<1> QED
  BY <1>1, <1>2, NormalizeSound

(* Only ApplyConfig changes the entry of a running scheduler.              *)
LEMMA EntryStays ==
  ASSUME TypeOK, NEW r \in Requests, Call(r) \/ Step(r), ~ApplyConfig(r)
  PROVE  sched'.spec = sched.spec /\ sched'.armed = sched.armed
<1>0. sched \in Status
  BY DEF TypeOK, Status
<1>1. sched' = sched \/ \E x : sched' = [sched EXCEPT !.last = x]
  <2>1. CASE Call(r)
    BY <2>1, Zenon DEF Call, PostBackup, RunAutomaticBackup, DeleteBackup, RestoreBackup,
      PostBackupConfig, PostSchedulerConfig, PatchStorageRetention
  <2>f. CreateFailed(r) => sched' = sched \/ \E x : sched' = [sched EXCEPT !.last = x]
    BY DEF CreateFailed
  <2>2. CASE CreateStep(r)
    BY <2>2, <2>f DEF CreateStep, CreateBackup, AddFileToZip, PatchManifestChecksums, Publish,
      PruneBackups, PruneOne, Created, CreateAborts
  <2>3. CASE Step(r) /\ ~CreateStep(r)
    BY <2>3 DEF Step, DeleteMark, DeleteUnlink, RestoreStep, RestoreStat, Quiesce,
      VerifyAndStage, SwapOne, SwapEnds, Restart, SaveConfig, WriteConfig
  <2> QED
    BY <2>1, <2>2, <2>3
<1> QED
  BY <1>0, <1>1 DEF Status

(* A request keeps the schedule of the configuration on disk.              *)
LEMMA ScheduleStep ==
  ASSUME TypeOK, TypeOK', JobInv, SettingsInv, SettingsInv', ScheduleInv, OneSaveAtATime',
         NEW r \in Requests, Call(r) \/ Step(r)
  PROVE  ScheduleInv'
<1>0. /\ \A q \in Requests \ {r} : pc'[q] = pc[q] /\ job'[q] = job[q]
      /\ up /\ up' = up
  BY RequestFrame
<1>c. Call(r) => /\ conf' = conf /\ pc[r] = "idle" /\ ~ApplyConfig(r)
                 /\ pc'[r] \notin {"write", "apply"}
  <2>1. Call(r) => pc[r] = "idle" /\ pc'[r] \notin {"write", "apply"} /\ conf' = conf
    BY CallJob, CallSettings
  <2> QED
    BY <2>1 DEF ApplyConfig
<1>e. ~Call(r) => Effect(r)
  BY StepEffect DEF JobInv
<1>1. CASE ApplyConfig(r)
  <2>1. pc[r] = "apply" /\ conf' = conf /\ sched' = ApplyConfigTo(job[r].conf)
    BY <1>1 DEF ApplyConfig
  <2>2. conf = {job[r].conf}
    BY <2>1 DEF ScheduleInv, SavesOK
  <2>3. job[r].conf \in Config /\ ScheduleSpec(job[r].conf) # "invalid"
    BY <2>2, ScheduleOnDisk
  <2>4. /\ sched'.spec = ScheduleSpec(job[r].conf)
        /\ sched'.armed <=> ScheduleSpec(job[r].conf) # ""
    BY <2>1, <2>3, ApplyConfigFields
  <2>5. \A c \in GetConfig' : ScheduleSpec(c) = ScheduleSpec(job[r].conf)
    <3>1. GetConfig' = GetConfig
      BY <2>1 DEF GetConfig
    <3> QED
      BY <2>2, <3>1, ScheduleOnDisk
  <2>6. ScheduleFollowsConfig'
    BY <2>4, <2>5 DEF ScheduleFollowsConfig
  <2>7. pc'[r] = "done"
    <3>1. Saves(r)
      BY <1>c, <1>e, <2>1, <1>1 DEF Effect, Creates, Copies, Closes, Publishes, Lists, Prunes,
        EndsCreation, Creating, Deletes, BeginsRestore, Swaps, Restarts
    <3> QED
      BY <2>1, <3>1 DEF Saves, Returned
  <2>8. \A q \in Requests : SavesOK(q)'
    BY <1>0, <2>1, <2>7 DEF ScheduleInv, SavesOK
  <2> QED
    BY <2>6, <2>8 DEF ScheduleInv
<1>a. pc[r] = "apply" => ApplyConfig(r)
  BY <1>c DEF Step, CreateStep, RestoreStep, CreateBackup, AddFileToZip, PatchManifestChecksums,
    Publish, PruneBackups, PruneOne, Created, DeleteMark, DeleteUnlink, RestoreStat, Quiesce,
    VerifyAndStage, SwapOne, SwapEnds, Restart, SaveConfig, WriteConfig
<1>2. CASE Saves(r) /\ pc'[r] \in {"write", "apply"}
  <2>1. ScheduleFollowsConfig'
    <3>1. ~(\A q \in Requests : pc'[q] \notin {"write", "apply"})
      BY <1>2
    <3> QED
      BY <3>1, Zenon DEF ScheduleFollowsConfig
  <2>2. SavesOK(r)'
    BY <1>2 DEF Saves, SavesOK, SameLocals, SameArchive, Returned
  <2>3. \A q \in Requests \ {r} : pc'[q] \notin {"write", "apply"}
    BY <1>2 DEF OneSaveAtATime, Saving
  <2> QED
    BY <2>1, <2>2, <2>3 DEF ScheduleInv, SavesOK
<1>3. CASE ~ApplyConfig(r) /\ ~(Saves(r) /\ pc'[r] \in {"write", "apply"})
  <2>1. /\ conf' = conf /\ pc'[r] \notin {"write", "apply"} /\ pc[r] # "apply"
    BY <1>3, <1>a, <1>c, <1>e DEF Effect, Creates, Copies, Closes, Publishes, Lists, Prunes,
      EndsCreation, Deletes, BeginsRestore, Swaps, Restarts, Saves, Returned
  <2>2. sched'.spec = sched.spec /\ sched'.armed = sched.armed
    BY <1>3, EntryStays
  <2>3. GetConfig' = GetConfig
    BY <2>1 DEF GetConfig
  <2>4. pc[r] = "write" => GetConfig = {}
    BY DEF ScheduleInv, SavesOK, GetConfig, Truncated
  <2>5. ScheduleFollowsConfig'
    <3> SUFFICES ASSUME \A q \in Requests : pc'[q] \notin {"write", "apply"}, NEW c \in GetConfig
                 PROVE  sched.spec = ScheduleSpec(c) /\ (sched.armed <=> sched.spec # "")
      BY <2>2, <2>3 DEF ScheduleFollowsConfig
    <3>1. \A q \in Requests : pc[q] \notin {"write", "apply"}
      BY <1>0, <2>1, <2>4
    <3> QED
      BY <1>0, <3>1 DEF ScheduleInv, ScheduleFollowsConfig
  <2>6. \A q \in Requests : SavesOK(q)'
    BY <1>0, <2>1 DEF ScheduleInv, SavesOK
  <2> QED
    BY <2>5, <2>6 DEF ScheduleInv
<1> QED
  BY <1>1, <1>2, <1>3

(* So does everything else: a start of NRCC arms what is on disk.          *)
LEMMA ScheduleNext ==
  ASSUME TypeOK, TypeOK', JobInv, SettingsInv, SettingsInv', ScheduleInv, OneSaveAtATime',
         [Next]_vars
  PROVE  ScheduleInv'
<1>1. ASSUME NEW r \in Requests, Call(r) \/ Step(r)
      PROVE  ScheduleInv'
  BY <1>1, ScheduleStep
<1>2. CASE NodeRedWrites \/ UNCHANGED vars
  <2>1. conf' = conf /\ job' = job /\ pc' = pc /\ sched' = sched /\ up' = up
    BY <1>2 DEF NodeRedWrites, vars
  <2> QED
    BY <2>1 DEF ScheduleInv, ScheduleFollowsConfig, SavesOK, GetConfig
<1>3. CASE Crash
  <2>1. /\ up' = FALSE /\ conf' = conf /\ job' = job
        /\ \A q \in Requests : pc'[q] = pc[q] \/ pc'[q] = "dead"
    BY <1>3 DEF Crash
  <2> QED
    BY <2>1 DEF ScheduleInv, ScheduleFollowsConfig, SavesOK
<1>4. CASE Boot
  <2>1. /\ conf' = conf /\ pc' = pc /\ job' = job
        /\ sched' = IF GetConfig = {} THEN Idle ELSE ApplyConfigTo(CHOOSE c \in GetConfig : TRUE)
    BY <1>4 DEF Boot
  <2>2. GetConfig' = GetConfig
    BY <2>1 DEF GetConfig
  <2>3. ASSUME NEW c \in GetConfig
        PROVE  sched'.spec = ScheduleSpec(c) /\ (sched'.armed <=> sched'.spec # "")
    <3> DEFINE d == CHOOSE x \in GetConfig : TRUE
    <3>1. d \in GetConfig /\ sched' = ApplyConfigTo(d)
      BY <2>1, <2>3
    <3> HIDE DEF d
    <3>2. c = d
      <4>1. PICK x \in conf : c = NormalizeBackupConfig(x)
        BY DEF GetConfig
      <4>2. PICK y \in conf : d = NormalizeBackupConfig(y)
        BY <3>1 DEF GetConfig
      <4>3. x = y
        BY DEF TypeOK
      <4> QED
        BY <4>1, <4>2, <4>3
    <3>3. d \in Config /\ ScheduleSpec(d) # "invalid"
      BY <3>1, GetConfigSound, GetConfigType
    <3> QED
      BY <3>1, <3>2, <3>3, ApplyConfigFields
  <2>4. ScheduleFollowsConfig'
    BY <2>2, <2>3 DEF ScheduleFollowsConfig
  <2>5. \A q \in Requests : SavesOK(q)'
    BY <2>1 DEF ScheduleInv, SavesOK
  <2> QED
    BY <2>4, <2>5 DEF ScheduleInv
<1> QED
  BY <1>1, <1>2, <1>3, <1>4 DEF Next

(* At first the scheduler runs what is on disk.                            *)
LEMMA ScheduleInit == Init => ScheduleInv
<1> SUFFICES ASSUME Init PROVE ScheduleInv
  OBVIOUS
<1>0. TypeOK /\ SettingsInv
  BY InitType, SettingsInit
<1>1. PICK d \in {NormalizeBackupConfig(x) : x \in Configs \cup {Default}} :
        /\ conf = {d}
        /\ sched = [Idle EXCEPT !.enabled = d.on, !.spec = ScheduleSpec(d),
                                !.armed = ScheduleSpec(d) # ""]
  BY Zenon DEF Init
<1> DEFINE armed == ScheduleSpec(d) # ""
<1>2. sched = [Idle EXCEPT !.enabled = d.on, !.spec = ScheduleSpec(d), !.armed = armed]
  BY <1>1
<1>3. armed \in BOOLEAN /\ (armed <=> ScheduleSpec(d) # "")
  BY Zenon
<1> HIDE DEF armed
<1>4. sched.spec = ScheduleSpec(d) /\ sched.armed = armed
  BY <1>2, <1>3 DEF Idle
<1>5. \A c \in GetConfig : ScheduleSpec(c) = ScheduleSpec(d)
  BY <1>0, <1>1, ScheduleOnDisk
<1>6. ScheduleFollowsConfig
  BY <1>3, <1>4, <1>5 DEF ScheduleFollowsConfig
<1>7. \A r \in Requests : SavesOK(r)
  BY DEF Init, SavesOK
<1> QED
  BY <1>6, <1>7 DEF ScheduleInv

(* While no save is under way the armed schedule is the one on disk, after *)
(* refused configurations, failed writes and crashes too, as long as saves *)
(* do not overlap.                                                         *)
THEOREM ScheduleIsOnDisk == Spec /\ []OneSaveAtATime => []ScheduleFollowsConfig
<1> DEFINE Inv == TypeOK /\ JobInv /\ SettingsInv /\ ScheduleInv
<1>1. Init => Inv
  BY InitType, SettingsInit, ScheduleInit
<1>2. Inv /\ OneSaveAtATime' /\ [Next]_vars => Inv'
  BY TypeNext, JobNext, SettingsNext, ScheduleNext
<1>3. Inv => ScheduleFollowsConfig
  BY DEF ScheduleInv
<1> HIDE DEF Inv
<1> QED
  BY <1>1, <1>2, <1>3, PTL DEF Spec

Savers == {"save", "reschedule", "retain"}

(* A request that writes the configuration is one of the three that may.   *)
SaverInv == \A r \in Requests :
  pc[r] \in {"validate", "write", "apply"} => job[r].op \in Savers /\ job[r].op \in Ops[r]

(* A call that is going to save is one of them.                            *)
LEMMA CallSaves ==
  ASSUME TypeOK, NEW r \in Requests, Call(r), pc'[r] \in {"validate", "write", "apply"}
  PROVE  job'[r].op \in Savers /\ job'[r].op \in Ops[r]
<1>t. pc \in [Requests -> Phases] /\ job \in [Requests -> Job]
  BY DEF TypeOK
<1>b. ASSUME NEW op, NEW phase, NEW locals, Begin(r, op, phase, locals)
      PROVE  op \in Ops[r] /\ pc'[r] = phase /\ job'[r] = locals
  BY <1>b, <1>t DEF Begin, Goto
<1>1. CASE PostBackup(r) \/ RunAutomaticBackup(r) \/ DeleteBackup(r) \/ RestoreBackup(r)
  <2>1. PICK op, phase, locals :
          Begin(r, op, phase, locals) /\ phase \in {"create", "delete", "restore"}
    BY <1>1, Zenon DEF PostBackup, RunAutomaticBackup, DeleteBackup, RestoreBackup
  <2> QED
    BY <1>b, <2>1
<1>2. CASE PostBackupConfig(r) \/ PostSchedulerConfig(r) \/ PatchStorageRetention(r)
  <2>1. PICK op, phase, locals :
          /\ op \in {"save", "reschedule", "retain"} /\ phase \in {"validate", "done"}
          /\ Begin(r, op, phase, locals)
          /\ \/ \E c : locals = [NoJob EXCEPT !.op = op, !.conf = c]
             \/ locals = [NoJob EXCEPT !.op = op, !.failed = TRUE]
    BY <1>2, Zenon DEF PostBackupConfig, PostSchedulerConfig, PatchStorageRetention,
                       ConfigUnreadable
  <2>2. locals.op = op
    BY <2>1 DEF NoJob
  <2>3. Begin(r, op, phase, locals)
    BY <2>1
  <2>4. op \in Ops[r] /\ pc'[r] = phase /\ job'[r] = locals
    BY <1>b, <2>3
  <2> QED
    BY <2>1, <2>2, <2>4 DEF Savers
<1> QED
  BY <1>1, <1>2 DEF Call

(* With one request that may save, whatever the others do, it holds.       *)
THEOREM OneSaverIsSafe ==
  ASSUME \A q, r \in Requests : Ops[q] \cap Savers # {} /\ Ops[r] \cap Savers # {} => q = r
  PROVE  Spec => []ScheduleFollowsConfig
<1> DEFINE Inv == TypeOK /\ JobInv /\ SaverInv
<1>1. Init => Inv
  <2>1. Init => SaverInv
    BY DEF Init, SaverInv
  <2> QED
    BY <2>1, InitType
<1>2. Inv /\ [Next]_vars => Inv'
  <2> SUFFICES ASSUME Inv, [Next]_vars PROVE SaverInv'
    BY TypeNext, JobNext
  <2>1. ASSUME NEW r \in Requests, Call(r) \/ Step(r)
        PROVE  SaverInv'
    <3>1. \A q \in Requests \ {r} : pc'[q] = pc[q] /\ job'[q] = job[q]
      BY <2>1, RequestFrame
    <3>2. CASE Call(r)
      BY <3>1, <3>2, CallSaves DEF SaverInv
    <3>3. CASE Step(r)
      <4>1. Effect(r)
        BY <3>3, StepEffect DEF JobInv
      <4>2. pc'[r] \in {"validate", "write", "apply"} =>
              pc[r] \in {"validate", "write"} /\ job'[r].op = job[r].op
        BY <4>1 DEF Effect, Creates, Copies, Closes, Publishes, Lists, Prunes,
          EndsCreation, Deletes, BeginsRestore, Swaps, Restarts, Saves, Returned, SameLocals,
          SameCall
      <4> QED
        BY <3>1, <4>2 DEF SaverInv
    <3> QED
      BY <2>1, <3>2, <3>3
  <2>2. CASE NodeRedWrites \/ UNCHANGED vars \/ Boot \/ Crash
    <3>1. /\ job' = job
          /\ \A q \in Requests : pc'[q] = pc[q] \/ pc'[q] = "dead"
      BY <2>2 DEF NodeRedWrites, vars, Boot, Crash
    <3> QED
      BY <3>1 DEF SaverInv
  <2> QED
    BY <2>1, <2>2 DEF Next
<1>3. Inv => OneSaveAtATime
  BY DEF SaverInv, OneSaveAtATime, Saving
<1> HIDE DEF Inv
<1> QED
  BY <1>1, <1>2, <1>3, ScheduleIsOnDisk, PTL DEF Spec

-----------------------------------------------------------------------------
(* The listing in pages.                                                   *)

(* Quotient and remainder.                                                 *)
LEMMA DivMod ==
  ASSUME NEW a \in Nat, NEW b \in Nat, b > 0
  PROVE  /\ a \div b \in Nat /\ a \div b <= a /\ a % b \in Nat /\ a % b < b
         /\ a = (a \div b) * b + (a % b)
  OBVIOUS

(* The list has one entry per archive, at most MaxId of them.              *)
LEMMA ListLength ==
  ASSUME NEW order
  PROVE  /\ Len(SortedBackups(order)) \in 0..MaxId
         /\ SortedBackups(order) \in Seq({SortedBackups(order)[k] :
                                           k \in 1..Len(SortedBackups(order))})
<1>1. MaxId \in Nat
  BY ConstantsOK
<1>2. IsFiniteSet(Ids) /\ Cardinality(Ids) = MaxId
  BY <1>1, FS_Interval DEF Ids
<1>3. Listed \subseteq Ids
  BY DEF Listed
<1> DEFINE n == Cardinality(Listed)
<1>4. n \in Nat /\ n <= MaxId
  BY <1>2, <1>3, FS_Subset, FS_CardinalityType
<1> HIDE DEF n
<1>5. SortedBackups(order) = [k \in 1..n |-> CHOOSE i \in Listed :
        Cardinality(Newer(Listed, i)) = (IF order = "asc" THEN n - k ELSE k - 1)]
  BY Zenon DEF SortedBackups, n
<1> DEFINE s == SortedBackups(order)
<1>6. DOMAIN s = 1..n /\ s = [k \in 1..n |-> s[k]]
  BY <1>5
<1> HIDE DEF s
<1>7. Len(s) = n /\ s \in Seq({s[k] : k \in 1..n})
  BY <1>4, <1>6
<1> QED
  BY <1>1, <1>4, <1>7 DEF s

(* The n-th entry is on its page at its place.                             *)
LEMMA EntryOnPage ==
  ASSUME NEW order, NEW limit \in Nat, limit > 0,
         NEW n \in 1..Len(SortedBackups(order))
  PROVE  LET p == ((n - 1) \div limit) + 1
             page == ListPaginated(PageParameter(p), limit, order)
         IN /\ p \in 0..(MaxId + 1)
            /\ ((n - 1) % limit) + 1 <= Len(page)
            /\ page[((n - 1) % limit) + 1] = SortedBackups(order)[n]
<1> DEFINE all == SortedBackups(order)
           q == (n - 1) \div limit
           m == (n - 1) % limit
           offset == q * limit
           end == IF offset + limit > Len(all) THEN Len(all) ELSE offset + limit
<1>0. MaxId \in Nat
  BY ConstantsOK
<1>1. Len(all) \in Nat /\ Len(all) <= MaxId /\ n \in Nat /\ n >= 1 /\ n <= Len(all)
  <2>1. Len(all) \in 0..MaxId /\ n \in 1..Len(all)
    BY ListLength
  <2> HIDE DEF all
  <2> QED
    BY <1>0, <2>1
<1>2. all \in Seq({all[k] : k \in 1..Len(all)})
  BY ListLength
<1>3. n - 1 \in Nat
  BY <1>1
<1>4. q \in Nat /\ q <= n - 1 /\ m \in Nat /\ m < limit /\ n - 1 = q * limit + m
  BY <1>3, DivMod
<1>5. offset \in Nat /\ n - 1 = offset + m
  BY <1>4
<1> HIDE DEF all, q, m, offset
<1>6. /\ end \in Nat /\ end <= Len(all) /\ offset < Len(all) /\ offset + m + 1 <= end
      /\ offset <= end
  BY <1>1, <1>4, <1>5
<1>7. PageParameter(q + 1) = q + 1
  BY <1>4 DEF PageParameter
<1>8. ((q + 1) - 1) * limit = offset
  BY <1>4 DEF offset
<1>9. ListPaginated(q + 1, limit, order) = SubSeq(all, offset + 1, end)
  BY <1>1, <1>5, <1>6, <1>8 DEF ListPaginated, all
<1> HIDE DEF end
<1>10. Len(SubSeq(all, offset + 1, end)) = end - offset
  BY <1>2, <1>1, <1>5, <1>6
<1>11. SubSeq(all, offset + 1, end)[m + 1] = all[offset + 1 + m]
  BY <1>2, <1>1, <1>4, <1>5, <1>6
<1>12. offset + 1 + m = n /\ m + 1 <= end - offset /\ q + 1 \in 0..(MaxId + 1)
  BY <1>0, <1>1, <1>4, <1>5, <1>6
<1> QED
  BY <1>7, <1>9, <1>10, <1>11, <1>12 DEF all, q, m

(* Walking through the pages of GetBackups shows the whole list in its     *)
(* order and nothing past its end, for every directory that the service    *)
(* reaches: a page holds the entries that its number and the limit say.    *)
THEOREM PagesAreComplete == Spec => []PagesCoverTheList
<1>1. PagesCoverTheList
  <2> SUFFICES ASSUME NEW l \in {0, 2}, NEW order \in {"asc", "desc"}
               PROVE
                 LET limit == LimitParameter(l, MaxId, MaxId + 1)
                     all == SortedBackups(order)
                     pages == [p \in 0..(MaxId + 1) |->
                                 ListPaginated(PageParameter(p), limit, order)]
                 IN /\ \A n \in 1..Len(all) :
                         /\ ((n - 1) % limit) + 1 <= Len(pages[((n - 1) \div limit) + 1])
                         /\ pages[((n - 1) \div limit) + 1][((n - 1) % limit) + 1] = all[n]
                    /\ \A p \in 1..(MaxId + 1) : (p - 1) * limit >= Len(all) => pages[p] = <<>>
    BY Zenon DEF PagesCoverTheList
  <2> DEFINE limit == LimitParameter(l, MaxId, MaxId + 1)
             all == SortedBackups(order)
             pages == [p \in 0..(MaxId + 1) |->
                         ListPaginated(PageParameter(p), limit, order)]
  <2>1. MaxId \in Nat /\ Len(all) \in 0..MaxId
    BY ConstantsOK, ListLength
  <2>2. limit \in Nat /\ (Len(all) >= 1 => limit > 0)
    BY <2>1 DEF LimitParameter
  <2> HIDE DEF limit
  <2>3. ASSUME NEW n \in 1..Len(all)
        PROVE  /\ ((n - 1) % limit) + 1 <= Len(pages[((n - 1) \div limit) + 1])
               /\ pages[((n - 1) \div limit) + 1][((n - 1) % limit) + 1] = all[n]
    <3>1. limit > 0
      BY <2>1, <2>2
    <3> DEFINE p == ((n - 1) \div limit) + 1
               page == ListPaginated(PageParameter(p), limit, order)
    <3>2. /\ p \in 0..(MaxId + 1)
          /\ ((n - 1) % limit) + 1 <= Len(page)
          /\ page[((n - 1) % limit) + 1] = all[n]
      BY <2>2, <3>1, EntryOnPage
    <3>3. pages[p] = page
      BY <3>2
    <3> QED
      BY <3>2, <3>3
  <2>4. ASSUME NEW p \in 1..(MaxId + 1), (p - 1) * limit >= Len(all)
        PROVE  pages[p] = <<>>
    <3>1. p \in 0..(MaxId + 1) /\ PageParameter(p) = p
      BY <2>1 DEF PageParameter
    <3>2. ListPaginated(p, limit, order) = <<>>
      BY <2>4 DEF ListPaginated
    <3> QED
      BY <3>1, <3>2
  <2> QED
    BY <2>3, <2>4 DEF limit
<1> QED
  BY <1>1, PTL

(* The list that is paged holds every archive of the directory once, the   *)
(* newest first or last as asked, for every directory: two archives never  *)
(* share a place although the sort compares formatted times.               *)
THEOREM ListIsSorted ==
  ASSUME NEW order
  PROVE  LET all == SortedBackups(order)
         IN /\ Len(all) = Cardinality(Listed)
            /\ {all[k] : k \in 1..Len(all)} = Listed
            /\ \A j, k \in 1..Len(all) :
                 j < k => IF order = "asc" THEN Stamp[all[j]] < Stamp[all[k]]
                                           ELSE Stamp[all[k]] < Stamp[all[j]]
<1>1. MaxId \in Nat /\ Stamp \in [Ids -> Nat] /\ Listed \subseteq Ids
      /\ \A i, j \in Ids : Stamp[i] = Stamp[j] => i = j
  BY ConstantsOK DEF Listed
<1>2. IsFiniteSet(Ids)
  BY <1>1, FS_Interval DEF Ids
<1> DEFINE n == Cardinality(Listed)
           rank == [i \in Listed |-> Cardinality(Newer(Listed, i))]
<1>3. IsFiniteSet(Listed) /\ n \in Nat
  BY <1>1, <1>2, FS_Subset, FS_CardinalityType
<1>4. ASSUME NEW i \in Listed
      PROVE  rank[i] \in 0..(n - 1)
  <2>1. Newer(Listed, i) \subseteq Listed /\ i \notin Newer(Listed, i)
    BY <1>1 DEF Newer
  <2>2. /\ IsFiniteSet(Newer(Listed, i)) /\ Cardinality(Newer(Listed, i)) <= n
        /\ Cardinality(Newer(Listed, i)) # n
    BY <1>3, <2>1, FS_Subset
  <2>3. Cardinality(Newer(Listed, i)) \in Nat
    BY <2>2, FS_CardinalityType
  <2> QED
    BY <1>3, <2>2, <2>3
<1>5. ASSUME NEW i \in Listed, NEW j \in Listed, Stamp[i] < Stamp[j]
      PROVE  rank[j] < rank[i]
  <2>1. /\ Newer(Listed, j) \subseteq Newer(Listed, i)
        /\ j \in Newer(Listed, i) /\ j \notin Newer(Listed, j)
    BY <1>1, <1>5 DEF Newer
  <2>2. Newer(Listed, i) \subseteq Listed
    BY DEF Newer
  <2>3. IsFiniteSet(Newer(Listed, i)) /\ IsFiniteSet(Newer(Listed, j))
    BY <1>3, <2>1, <2>2, FS_Subset
  <2>4. Cardinality(Newer(Listed, i)) \in Nat /\ Cardinality(Newer(Listed, j)) \in Nat
    BY <2>3, FS_CardinalityType
  <2>5. /\ Cardinality(Newer(Listed, j)) <= Cardinality(Newer(Listed, i))
        /\ Cardinality(Newer(Listed, j)) # Cardinality(Newer(Listed, i))
    BY <2>1, <2>3, FS_Subset
  <2> QED
    BY <2>4, <2>5
<1>r. \A i \in Listed : rank[i] = Cardinality(Newer(Listed, i))
  OBVIOUS
<1>f. rank \in [Listed -> 0..(n - 1)]
  BY <1>4
<1> HIDE DEF rank
<1>6. \A i, j \in Listed : rank[i] < rank[j] => Stamp[j] < Stamp[i]
  <2> SUFFICES ASSUME NEW i \in Listed, NEW j \in Listed, rank[i] < rank[j]
               PROVE  Stamp[j] < Stamp[i]
    OBVIOUS
  <2>1. Stamp[i] \in Nat /\ Stamp[j] \in Nat /\ rank[i] \in Nat /\ rank[j] \in Nat
    BY <1>1, <1>3, <1>4
  <2>2. ~(Stamp[i] < Stamp[j])
    BY <1>5, <2>1
  <2>3. Stamp[i] # Stamp[j]
    BY <1>1, <2>1
  <2> QED
    BY <2>1, <2>2, <2>3
<1>7. \A i, j \in Listed : rank[i] = rank[j] => i = j
  <2> SUFFICES ASSUME NEW i \in Listed, NEW j \in Listed, rank[i] = rank[j]
               PROVE  i = j
    OBVIOUS
  <2>1. Stamp[i] \in Nat /\ Stamp[j] \in Nat /\ rank[i] \in Nat
    BY <1>1, <1>3, <1>4
  <2>2. ~(Stamp[i] < Stamp[j]) /\ ~(Stamp[j] < Stamp[i])
    BY <1>5, <2>1
  <2> QED
    BY <1>1, <2>1, <2>2
<1>8. \A m \in 0..(n - 1) : \E i \in Listed : rank[i] = m
  <2>1. rank \in Injection(Listed, 0..(n - 1))
    BY <1>7, <1>f DEF Injection, IsInjective
  <2>2. IsFiniteSet(0..(n - 1)) /\ Cardinality(0..(n - 1)) = n
    BY <1>3, FS_Interval
  <2>3. rank \in Surjection(Listed, 0..(n - 1))
    BY <2>1, <2>2, FS_Injection
  <2> QED
    BY <2>3 DEF Surjection
<1> DEFINE place(k) == IF order = "asc" THEN n - k ELSE k - 1
           all == SortedBackups(order)
<1>9. \A k \in 1..n : place(k) \in 0..(n - 1)
  BY <1>3
<1>10. all = [k \in 1..n |-> CHOOSE i \in Listed : Cardinality(Newer(Listed, i)) = place(k)]
  BY Zenon DEF SortedBackups
<1> HIDE DEF n, all
<1>11. ASSUME NEW k \in 1..n
       PROVE  all[k] \in Listed /\ rank[all[k]] = place(k)
  <2>1. all[k] = CHOOSE i \in Listed : Cardinality(Newer(Listed, i)) = place(k)
    BY <1>10
  <2>2. \E i \in Listed : Cardinality(Newer(Listed, i)) = place(k)
    BY <1>8, <1>9, <1>r
  <2>3. all[k] \in Listed /\ Cardinality(Newer(Listed, all[k])) = place(k)
    BY <2>1, <2>2
  <2> QED
    BY <1>r, <2>3
<1>12. Len(all) = n
  BY <1>3, <1>10
<1>13. ASSUME NEW i \in Listed
       PROVE  \E k \in 1..n : all[k] = i
  <2>1. rank[i] \in 0..(n - 1)
    BY <1>f
  <2>2. \E k \in 1..n : place(k) = rank[i]
    <3>1. CASE order = "asc"
      <4>1. n - rank[i] \in 1..n /\ place(n - rank[i]) = rank[i]
        BY <1>3, <2>1, <3>1
      <4> QED
        BY <4>1
    <3>2. CASE order # "asc"
      <4>1. rank[i] + 1 \in 1..n /\ place(rank[i] + 1) = rank[i]
        BY <1>3, <2>1, <3>2
      <4> QED
        BY <4>1
    <3> QED
      BY <3>1, <3>2
  <2> QED
    BY <1>7, <1>11, <2>2
<1>14. ASSUME NEW j \in 1..n, NEW k \in 1..n, j < k
       PROVE  IF order = "asc" THEN Stamp[all[j]] < Stamp[all[k]]
                               ELSE Stamp[all[k]] < Stamp[all[j]]
  <2>1. /\ all[j] \in Listed /\ all[k] \in Listed
        /\ rank[all[j]] = place(j) /\ rank[all[k]] = place(k)
    BY <1>11
  <2>2. IF order = "asc" THEN place(k) < place(j) ELSE place(j) < place(k)
    BY <1>3, <1>14
  <2> HIDE DEF place
  <2> QED
    BY <1>6, <2>1, <2>2
<1> HIDE DEF place
<1>15. {all[k] : k \in 1..n} = Listed
  BY <1>11, <1>13
<1>16. /\ Len(all) = n /\ {all[k] : k \in 1..Len(all)} = Listed
       /\ \A j, k \in 1..Len(all) :
            j < k => IF order = "asc" THEN Stamp[all[j]] < Stamp[all[k]]
                                      ELSE Stamp[all[k]] < Stamp[all[j]]
  BY <1>12, <1>14, <1>15
<1> QED
  BY <1>16, Zenon DEF n, all

=============================================================================
