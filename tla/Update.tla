------------------------------- MODULE Update -------------------------------
(***************************************************************************)
(* The update service (service/update.go, handler/updates.go): a poller    *)
(* and manual checks that compare the installed Node-RED with the          *)
(* registry, and an update that runs in a goroutine of its own through     *)
(* Idle, BackingUp, Applying and Completed or Failed.  The mutex applyMu   *)
(* is held from the first to the last step of an update; the cache and     *)
(* update_cache.json are written one after the other and under no common   *)
(* lock.  npm runs as a child process, which a crash of NRCC leaves behind.*)
(*                                                                         *)
(* A version is a number in the order of compareVersions; None stands for  *)
(* the empty or undetectable version.                                      *)
(***************************************************************************)
EXTENDS Integers, Sequences, FiniteSets

CONSTANTS
  Requests,     \* calls of POST /api/updates/apply
  Checkers,     \* calls of GET /api/updates/check
  Poller,       \* the polling goroutine
  Nobody,       \* no holder of a mutex
  Strategies,   \* how Node-RED may be installed
  Halts,        \* the ways to stop the service: see AllHalts
  Faults,       \* what may fail: see AllFaults
  MaxVersion,   \* bound: the newest version ever published
  CatalogLimit, \* the entries update_backups.json keeps (5 in the code)
  MaxCrashes    \* bound: crashes of NRCC

AllHalts == {"Stop", "Shutdown"}
AllStrategies == {"npm-global", "image-local", "external"}
(* "backup", "catalog", "disk": the archive, the catalog or the cache file *)
(* is not written; "npm": npm install fails or hangs; "prefix": it         *)
(* installs where the managed executable is not; "version": the executable *)
(* does not tell its version; "first" and "registry": npm view fails at    *)
(* the start and in a later check; "critical": the audit of the new        *)
(* version counts a critical entry.                                        *)
AllFaults == {"backup", "catalog", "disk", "npm", "prefix", "version", "first", "registry",
              "critical"}
None == 0
Versions == 1..MaxVersion
Actors == Checkers \cup {Poller}

ASSUME ConstantsOK ==
  /\ Strategies \subseteq AllStrategies /\ Halts \subseteq AllHalts
  /\ Faults \subseteq AllFaults
  /\ Poller \notin Checkers /\ Nobody \notin Requests \cup Checkers
  /\ MaxVersion \in Nat \ {0} /\ CatalogLimit \in Nat \ {0} /\ MaxCrashes \in Nat

VARIABLES
  strategy,  \* of the managed runtime
  installed, \* the version the executable has, None when an install broke it
  registry,  \* the newest published version
  orphans,   \* targets of the npm processes a crash left behind
  cache,     \* the cached check
  disk,      \* update_cache.json
  flow,      \* flowState
  applyMu,   \* the request that holds applyMu
  checkMu,   \* the checker that holds checkInProgress
  archives,  \* the pre-update archives: the request that made one
  catalog,   \* update_backups.json
  pc, job,   \* each update goroutine: its phase and its local variables
  cpc, entry,\* each check: its phase and the entry it builds
  cancelled, \* applyCancel was called
  stopping,  \* stopChan is closed
  halt,      \* the call of Stop or Shutdown
  crashes    \* crashes so far

flowVars == <<flow, applyMu, archives, catalog, pc, job>>
checkVars == <<cache, disk, checkMu, cpc, entry>>
haltVars == <<cancelled, stopping, halt>>
worldVars == <<strategy, installed, registry, orphans, crashes>>
vars == <<flowVars, checkVars, haltVars, worldVars>>

NoEntry == [latest |-> None, made |-> FALSE]
NoJob == [target |-> None, hung |-> FALSE, result |-> "none"]
Idle == [state |-> "Idle", error |-> "none"]
Working == {"BackingUp", "Applying"}
May(fault) == fault \in Faults

(* performCheckInternal keeps what npm view answered; an update reads      *)
(* nothing else of the entry.                                              *)
Entry(latest) == [latest |-> latest, made |-> TRUE]
(* What getInstalledVersionInternal and getLatestVersionInternal may       *)
(* answer: "unknown" and an error leave the field empty.                   *)
InstalledAnswers == {installed} \cup {v \in {None} : May("version")}
RegistryAnswers(fault) == {registry} \cup {v \in {None} : May(fault)}

Init ==
  /\ strategy \in Strategies
  /\ installed = 1 /\ registry = 1 /\ orphans = {}
  /\ \E v \in RegistryAnswers("first") : cache = Entry(v)
  /\ disk \in {cache} \cup {e \in {NoEntry} : May("disk")}
  /\ flow = Idle /\ applyMu = Nobody /\ checkMu = Nobody
  /\ archives = {} /\ catalog = <<>>
  /\ pc = [r \in Requests |-> "idle"] /\ job = [r \in Requests |-> NoJob]
  /\ cpc = [c \in Actors |-> "idle"] /\ entry = [c \in Actors |-> NoEntry]
  /\ cancelled = FALSE /\ stopping = FALSE
  /\ halt = "none" /\ crashes = 0

-----------------------------------------------------------------------------
(* Checks. *)

(* ForceCheck: a second manual check returns the cached status; the poller *)
(* has no such lock.                                                       *)
ForceCheck(c) ==
  /\ cpc[c] = "idle"
  /\ IF checkMu = Nobody
       THEN checkMu' = c /\ cpc' = [cpc EXCEPT ![c] = "reading"]
       ELSE cpc' = [cpc EXCEPT ![c] = "done"] /\ UNCHANGED checkMu
  /\ UNCHANGED <<cache, disk, entry, flowVars, haltVars, worldVars>>

(* pollingLoop: the ticker fires, or the loop has seen stopChan. *)
Tick ==
  /\ cpc[Poller] = "idle" /\ cpc' = [cpc EXCEPT ![Poller] = "reading"]
  /\ UNCHANGED <<cache, disk, checkMu, entry, flowVars, haltVars, worldVars>>

PollerExits ==
  /\ cpc[Poller] = "idle" /\ stopping /\ cpc' = [cpc EXCEPT ![Poller] = "done"]
  /\ UNCHANGED <<cache, disk, checkMu, entry, flowVars, haltVars, worldVars>>

(* performCheckInternal: the executable and npm view answer, fail or run   *)
(* into npmTimeout.                                                        *)
Query(c) ==
  /\ cpc[c] = "reading" /\ cpc' = [cpc EXCEPT ![c] = "storing"]
  /\ \E v \in RegistryAnswers("registry") : entry' = [entry EXCEPT ![c] = Entry(v)]
  /\ UNCHANGED <<cache, disk, checkMu, flowVars, haltVars, worldVars>>

StoreCache(c) ==
  /\ cpc[c] = "storing" /\ cpc' = [cpc EXCEPT ![c] = "writing"]
  /\ cache' = entry[c]
  /\ UNCHANGED <<disk, checkMu, entry, flowVars, haltVars, worldVars>>

WriteDisk(c) ==
  /\ cpc[c] = "writing"
  /\ disk' \in {entry[c]} \cup {e \in {disk} : May("disk")}
  /\ cpc' = [cpc EXCEPT ![c] = IF c = Poller THEN "idle" ELSE "done"]
  /\ checkMu' = IF checkMu = c THEN Nobody ELSE checkMu
  /\ entry' = [entry EXCEPT ![c] = NoEntry]
  /\ UNCHANGED <<cache, flowVars, haltVars, worldVars>>

-----------------------------------------------------------------------------
(* The update. *)

(* The handler answers 409 unless the state is Idle, and else starts the   *)
(* goroutine and answers 200.                                              *)
PostApply(r) ==
  /\ pc[r] = "idle"
  /\ IF flow.state # "Idle"
       THEN /\ pc' = [pc EXCEPT ![r] = "done"]
            /\ job' = [job EXCEPT ![r].result = "conflict"]
       ELSE /\ pc' = [pc EXCEPT ![r] = "launched"] /\ UNCHANGED job
  /\ UNCHANGED <<flow, applyMu, archives, catalog, checkVars, haltVars, worldVars>>

(* TryLock and the check of the state: both refusals end the goroutine. *)
Refused(r) ==
  /\ pc[r] = "launched"
  /\ applyMu # Nobody \/ flow.state # "Idle"
  /\ pc' = [pc EXCEPT ![r] = "done"] /\ UNCHANGED <<job, flow, applyMu, archives, catalog, checkVars, haltVars, worldVars>>

(* The state is Idle and applyMu free: the update owns the flow. *)
BeginBackup(r) ==
  /\ pc[r] = "launched" /\ applyMu = Nobody /\ flow.state = "Idle"
  /\ applyMu' = r /\ pc' = [pc EXCEPT ![r] = "backing"]
  /\ flow' = [state |-> "BackingUp", error |-> "none"]
  /\ UNCHANGED <<job, archives, catalog, checkVars, haltVars, worldVars>>

(* The deferred unlock follows the last state. *)
Finish(r, state, error) ==
  /\ flow' = [state |-> state, error |-> error]
  /\ applyMu' = Nobody /\ pc' = [pc EXCEPT ![r] = "done"]
  /\ job' = [job EXCEPT ![r] = IF state = "Completed" THEN [@ EXCEPT !.result = "ok"]
                                ELSE NoJob]

Fail(r, error) == Finish(r, "Failed", error)

(* Mutant: a failed backup is only logged, like a failed catalog. *)
BackupFailureIgnored(r) ==
  /\ pc[r] = "backing" /\ May("backup") /\ pc' = [pc EXCEPT ![r] = "cataloguing"]
  /\ UNCHANGED <<flow, applyMu, archives, catalog, job, checkVars, haltVars, worldVars>>

(* No archive, no update. *)
BackupFails(r) ==
  /\ pc[r] = "backing" /\ May("backup") /\ Fail(r, "backup_failed")
  /\ UNCHANGED <<archives, catalog, checkVars, haltVars, worldVars>>

CreateBackup(r) ==
  /\ pc[r] = "backing" /\ pc' = [pc EXCEPT ![r] = "cataloguing"]
  /\ archives' = archives \cup {r}
  /\ UNCHANGED <<flow, applyMu, catalog, job, checkVars, haltVars, worldVars>>

(* The catalog keeps its last entries; a catalog that cannot be written is *)
(* only logged.                                                            *)
Kept(s) == IF Len(s) >= CatalogLimit THEN SubSeq(s, Len(s) - CatalogLimit + 2, Len(s)) ELSE s
AppendBackup(r) ==
  /\ pc[r] = "cataloguing" /\ pc' = [pc EXCEPT ![r] = "resolving"]
  /\ catalog' \in {Append(Kept(catalog), r)} \cup {c \in {catalog} : May("catalog")}
  /\ flow' = [state |-> "Applying", error |-> "none"]
  /\ UNCHANGED <<applyMu, archives, job, checkVars, haltVars, worldVars>>

(* ApplyUpdate takes its target from the cache as it is now, which a check *)
(* may have changed since the update began.                                *)
Unsupported(r) ==
  /\ pc[r] = "resolving" /\ (cache.latest = None \/ strategy # "npm-global")
  /\ Fail(r, CASE cache.latest = None -> "update_failed"
               [] strategy = "image-local" -> "image_unsupported"
               [] OTHER -> "external_unsupported")
  /\ UNCHANGED <<archives, catalog, checkVars, haltVars, worldVars>>

ResolveTarget(r) ==
  /\ pc[r] = "resolving" /\ cache.latest # None /\ strategy = "npm-global"
  /\ pc' = [pc EXCEPT ![r] = "installing"]
  /\ job' = [job EXCEPT ![r].target = cache.latest]
  /\ UNCHANGED <<flow, applyMu, archives, catalog, checkVars, haltVars, worldVars>>

(* npm: it installs the target, fails before or after it has replaced the  *)
(* files, or hangs until the context of 120 seconds kills it.  A cancelled *)
(* applyCtx does not let it start.                                         *)
NpmInstalls(r) ==
  /\ pc[r] = "installing" /\ ~job[r].hung /\ ~cancelled
  /\ installed' \in {job[r].target} \cup {v \in {installed} : May("prefix")}
  /\ pc' = [pc EXCEPT ![r] = "verifying"]
  /\ UNCHANGED <<flow, applyMu, archives, catalog, job, checkVars, haltVars>>
  /\ UNCHANGED <<strategy, registry, orphans, crashes>>

NpmHangs(r) ==
  /\ pc[r] = "installing" /\ May("npm") /\ ~job[r].hung /\ ~cancelled
  /\ job' = [job EXCEPT ![r].hung = TRUE]
  /\ UNCHANGED <<flow, applyMu, archives, catalog, pc, checkVars, haltVars, worldVars>>

NpmFails(r) ==
  /\ pc[r] = "installing" /\ ~job[r].hung /\ (cancelled \/ May("npm"))
  /\ Fail(r, "update_failed")
  /\ installed' \in {installed} \cup {v \in {job[r].target, None} : ~cancelled}
  /\ UNCHANGED <<archives, catalog, checkVars, haltVars>>
  /\ UNCHANGED <<strategy, registry, orphans, crashes>>

(* Mutant: the context of npm has no deadline. *)
NpmWithoutDeadline(r) ==
  /\ pc[r] = "installing" /\ cancelled /\ Fail(r, "update_failed")
  /\ UNCHANGED <<archives, catalog, checkVars, haltVars, worldVars>>

NpmDeadline(r) ==
  /\ pc[r] = "installing" /\ job[r].hung /\ Fail(r, "update_failed")
  /\ installed' \in {installed, job[r].target, None}
  /\ UNCHANGED <<archives, catalog, checkVars, haltVars>>
  /\ UNCHANGED <<strategy, registry, orphans, crashes>>

(* Mutant: a version that cannot be read or another one is accepted. *)
VerifyExitStatus(r) ==
  /\ pc[r] = "verifying" /\ pc' = [pc EXCEPT ![r] = "auditing"]
  /\ UNCHANGED <<flow, applyMu, archives, catalog, job, checkVars, haltVars, worldVars>>

(* The executable must now tell the target's version. *)
Verify(r) ==
  /\ pc[r] = "verifying"
  /\ \E v \in InstalledAnswers :
       IF v = job[r].target
         THEN pc' = [pc EXCEPT ![r] = "auditing"] /\ UNCHANGED <<flow, applyMu, job>>
         ELSE Fail(r, "update_failed")
  /\ UNCHANGED <<archives, catalog, checkVars, haltVars, worldVars>>

(* Only a parsed critical count blocks; the new version stays installed.   *)
PostInstallAudit(r) ==
  /\ pc[r] = "auditing"
  /\ \/ Finish(r, "Completed", "none")
     \/ May("critical") /\ Fail(r, "update_failed")
  /\ UNCHANGED <<archives, catalog, checkVars, haltVars, worldVars>>

-----------------------------------------------------------------------------
(* Stop and Shutdown of the service. *)

(* Stop closes stopChan and waits for the poller. *)
Stop ==
  /\ halt = "none" /\ "Stop" \in Halts
  /\ stopping' = TRUE /\ halt' = "Stop"
  /\ UNCHANGED <<cancelled, flowVars, checkVars, worldVars>>

StopReturns ==
  /\ halt = "Stop" /\ cpc[Poller] = "done" /\ halt' = "returned"
  /\ UNCHANGED <<cancelled, stopping, flowVars, checkVars, worldVars>>

(* Shutdown locks applyMu to read the cancel function. *)
Shutdown ==
  /\ halt = "none" /\ "Shutdown" \in Halts /\ halt' = "Shutdown"
  /\ UNCHANGED <<cancelled, stopping, flowVars, checkVars, worldVars>>

ShutdownReturns ==
  /\ halt = "Shutdown" /\ applyMu = Nobody
  /\ cancelled' = TRUE /\ halt' = "returned"
  /\ UNCHANGED <<stopping, flowVars, checkVars, worldVars>>

-----------------------------------------------------------------------------
(* The world: releases, crashes, the next NRCC. *)

Publish ==
  /\ registry < MaxVersion /\ registry' = registry + 1
  /\ UNCHANGED <<strategy, installed, orphans, crashes, flowVars, checkVars, haltVars>>

OrphanEnds ==
  /\ \E v \in orphans : orphans' = orphans \ {v} /\ installed' \in {v, installed}
  /\ UNCHANGED <<strategy, registry, crashes, flowVars, checkVars, haltVars>>

(* NRCC crashes and is started again.  NewUpdateService and Start: the     *)
(* cache of the last run, or a first check when there is none; the state   *)
(* is Idle.  The npm process of the crashed NRCC goes on.                  *)
Restart ==
  /\ crashes < MaxCrashes /\ crashes' = crashes + 1
  /\ orphans' = orphans \cup {job[r].target : r \in {q \in Requests : pc[q] = "installing"}}
  /\ flow' = Idle /\ applyMu' = Nobody /\ checkMu' = Nobody
  /\ IF disk.made
       THEN cache' = disk /\ UNCHANGED disk
       ELSE /\ \E v \in RegistryAnswers("first") : cache' = Entry(v)
            /\ disk' \in {cache'} \cup {e \in {disk} : May("disk")}
  /\ pc' = [r \in Requests |-> IF pc[r] = "idle" THEN "idle" ELSE "done"]
  /\ job' = [r \in Requests |-> IF pc[r] \in {"idle", "done"} THEN job[r] ELSE NoJob]
  /\ cpc' = [c \in Actors |-> IF c = Poller \/ cpc[c] = "idle" THEN "idle" ELSE "done"]
  /\ entry' = [c \in Actors |-> NoEntry]
  /\ cancelled' = FALSE /\ stopping' = FALSE
  /\ halt' = IF halt = "none" THEN "none" ELSE "returned"
  /\ UNCHANGED <<archives, catalog, strategy, installed, registry>>

-----------------------------------------------------------------------------
CheckStep(c) == Query(c) \/ StoreCache(c) \/ WriteDisk(c)
UpdateStep(r) ==
  \/ Refused(r) \/ BeginBackup(r) \/ BackupFails(r) \/ CreateBackup(r) \/ AppendBackup(r)
  \/ Unsupported(r) \/ ResolveTarget(r) \/ NpmInstalls(r) \/ NpmFails(r) \/ NpmDeadline(r)
  \/ Verify(r) \/ PostInstallAudit(r)
HaltStep == PollerExits \/ StopReturns \/ ShutdownReturns

Next ==
  \/ \E c \in Checkers : ForceCheck(c)
  \/ Tick
  \/ \E c \in Actors : CheckStep(c)
  \/ \E r \in Requests : PostApply(r) \/ UpdateStep(r) \/ NpmHangs(r)
  \/ Stop \/ Shutdown \/ HaltStep
  \/ Publish \/ OrphanEnds \/ Restart

(* Goroutines run and npm ends at its deadline.  The loop's select chooses *)
(* among the ready cases at random, and the closed stopChan stays ready:   *)
(* PollerExits is strongly fair.                                           *)
Fairness ==
  /\ \A c \in Actors : WF_vars(CheckStep(c))
  /\ \A r \in Requests : WF_vars(UpdateStep(r))
  /\ SF_vars(PollerExits) /\ WF_vars(StopReturns) /\ WF_vars(ShutdownReturns)

Spec == Init /\ [][Next]_vars /\ Fairness

-----------------------------------------------------------------------------
Phases == {"idle", "launched", "backing", "cataloguing", "resolving", "installing",
           "verifying", "auditing", "done"}

(* The phases of an update after its archive was made. *)
PastBackup == {"cataloguing", "resolving", "installing", "verifying", "auditing"}

(* The types of the variables, and a catalog of bounded length. *)
TypeOK ==
  /\ strategy \in Strategies
  /\ installed \in 0..MaxVersion /\ registry \in Versions
  /\ orphans \subseteq Versions
  /\ {cache, disk} \cup {entry[c] : c \in Actors} \subseteq
       [latest: 0..MaxVersion, made: BOOLEAN]
  /\ flow \in [state: {"Idle", "BackingUp", "Applying", "Completed", "Failed"},
               error: {"none", "backup_failed", "update_failed", "image_unsupported",
                       "external_unsupported"}]
  /\ applyMu \in Requests \cup {Nobody} /\ checkMu \in Checkers \cup {Nobody}
  /\ archives \subseteq Requests
  /\ catalog \in Seq(Requests) /\ Len(catalog) <= CatalogLimit
  /\ pc \in [Requests -> Phases]
  /\ job \in [Requests -> [target: 0..MaxVersion, hung: BOOLEAN,
                           result: {"none", "conflict", "ok"}]]
  /\ cpc \in [Actors -> {"idle", "reading", "storing", "writing", "done"}]
  /\ cancelled \in BOOLEAN /\ stopping \in BOOLEAN
  /\ halt \in {"none", "returned"} \cup AllHalts /\ crashes \in 0..MaxCrashes

(* An update is alone from its first state to its last, the state users    *)
(* poll tells its phase, and from the moment it may touch the installation *)
(* an archive of its own exists (CreateBackup: "the caller MUST abort the  *)
(* update in that case so we never apply an update without a restore       *)
(* point").                                                                *)
InstallsAreBackedUp ==
  /\ \A r \in Requests : pc[r] \in PastBackup \cup {"backing"} <=> applyMu = r
  /\ \A r \in Requests : pc[r] \in PastBackup => r \in archives
  /\ flow.state \in Working <=> applyMu # Nobody
  /\ flow.state = "BackingUp" <=>
       \E r \in Requests : pc[r] \in {"backing", "cataloguing"}

(* When the flow says Completed the executable is the version npm was told *)
(* to install, whatever checks and releases happened in between; only npm  *)
(* processes of an NRCC that crashed may change it behind the flow's back. *)
CompletedIsInstalled ==
  flow.state = "Completed" /\ crashes = 0 =>
    \E r \in Requests : job[r].result = "ok" /\ installed = job[r].target
                          /\ job[r].target # None

(* A started update ends whatever npm does, so that the page that polls    *)
(* the state stops polling, and Stop and Shutdown return although Stop     *)
(* waits for the poller and Shutdown for the lock of a running update.     *)
EverythingEnds ==
  /\ flow.state \in Working ~> flow.state \notin Working
  /\ halt \in AllHalts ~> halt = "returned"

(* The handler's answer "An update is already in progress" is given only   *)
(* while one is (handler/updates.go, PostApply).                           *)
ConflictMeansInProgress ==
  [][\A r \in Requests : job[r].result # "conflict" /\ job'[r].result = "conflict"
       => flow.state \in Working]_vars

=============================================================================
