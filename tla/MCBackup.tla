------------------------------ MODULE MCBackup ------------------------------
(* A small instance of Backup: one restore, one creation or deletion and   *)
(* one change of the configuration at the same time.                       *)
EXTENDS BackupListing, TLC

CONSTANTS r1, r2

Keep(m, a, p) == ("manual" :> m) @@ ("auto" :> a) @@ ("pre-restore" :> p)
MCDefault == [on |-> FALSE, schedule |-> "disabled", cron |-> "none", keep |-> Keep(2, 2, 2),
              all |-> TRUE]
(* A schedule with little retention, one limit to be normalised and        *)
(* without the optional files; a broken cron expression.                   *)
MCConfigs == {
  [on |-> TRUE, schedule |-> "daily", cron |-> "none", keep |-> Keep(1, 1, 0), all |-> FALSE],
  [on |-> TRUE, schedule |-> "custom", cron |-> "invalid", keep |-> Keep(2, 2, 1), all |-> TRUE]}
MCOps == (r1 :> {"restore", "manual"})
           @@ (r2 :> {"manual", "auto", "delete", "save", "reschedule", "retain"})
(* A restore and nothing else; two administrators restore at the same time *)
(* (the README tells what happens then).                                   *)
MCOneRestore == (r1 :> {"restore"}) @@ (r2 :> {})
MCTwoRestores == (r1 :> {"restore"}) @@ (r2 :> {"restore"})
MCInitial == <<"manual", "pre-restore">>
MCSnapshots == <<"pre-restore", "pre-restore">>
(* The times of archives 3 and 4 fall into one second and are formatted    *)
(* without their trailing zeros: the earlier one is the greater string.    *)
MCStamp == <<1, 2, 4, 3>>
=============================================================================
