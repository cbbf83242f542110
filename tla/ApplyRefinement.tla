-------------------------- MODULE ApplyRefinement --------------------------
(* ApplyTransaction implements SettingsRegister: the refinement mapping.   *)
EXTENDS ApplyTransaction

(* GetRawSettings of a source: a missing file is shown as the default.     *)
Shown(src) == IF src = NoFile THEN RenderSettings(Default, NoEnv, NoFile)
                              ELSE src

StageOf(r) ==
  CASE pc[r] \in Staging \cup {"unwind"} -> "clean"
    [] pc[r] \in Mirroring \cup Running \cup {"rollback"} -> "written"
    [] pc[r] \in Recovering \ {"rollback"} -> "undone"
    [] OTHER -> "settled"

Register == INSTANCE SettingsRegister WITH
  Clients  <- Requests,
  NoClient <- NoReq,
  Values   <- Sources,
  None     <- NoFile,
  value    <- LiveSource,
  seen     <- [r \in Requests |-> req[r].expected],
  owner    <- flight,
  found    <- IF flight = NoReq THEN NoFile ELSE Shown(before[flight].settings),
  stage    <- IF flight = NoReq THEN "none" ELSE StageOf(flight),
  told     <- outcome

(* Seen through GetRawSettings and the answers of Apply, the whole         *)
(* pipeline - slot, staging, snapshot, rename, reconciliation, restart,    *)
(* rollback, with every failure, cancellation and crash in between - is a  *)
(* register that one request at a time compares and sets: settings.js is   *)
(* replaced once and only from the revision that the request read, undone  *)
(* at most once and only to what the request found, and the answer says    *)
(* which of these happened (apply_coordinator.go, Apply).                  *)
ImplementsRegister == Register!Spec
=============================================================================
