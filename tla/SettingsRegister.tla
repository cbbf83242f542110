------------------------- MODULE SettingsRegister -------------------------
(***************************************************************************)
(* What the apply pipeline promises its clients, without how: settings.js  *)
(* is a register that one client at a time may compare and set.  A client  *)
(* reads a revision, becomes the owner of the register, replaces exactly   *)
(* that revision at most once, may put back at most once what it found,    *)
(* and is told how it ended.  ApplyRefinement shows that ApplyTransaction  *)
(* implements this specification.                                          *)
(***************************************************************************)
CONSTANTS Clients, NoClient, Values, None

VARIABLES
  value,   \* the source that a reader of the register is shown
  seen,    \* the revision each client read
  owner,   \* the client that may change the register
  found,   \* the value when the owner took the register
  stage,   \* how far the owner has got
  told     \* what each client was told

registerVars == <<value, seen, owner, found, stage, told>>

Init ==
  /\ value \in Values
  /\ seen = [c \in Clients |-> None]
  /\ owner = NoClient /\ found = None /\ stage = "none"
  /\ told = [c \in Clients |-> "none"]

ReadSource(c) ==
  /\ seen[c] = None
  /\ seen' = [seen EXCEPT ![c] = value]
  /\ UNCHANGED <<value, owner, found, stage, told>>

Begin(c) ==
  /\ owner = NoClient /\ told[c] = "none"
  /\ owner' = c /\ found' = value /\ stage' = "clean"
  /\ UNCHANGED <<value, seen, told>>

Refuse(c) ==
  /\ owner # NoClient /\ owner # c /\ told[c] = "none"
  /\ told' = [told EXCEPT ![c] = "refused"]
  /\ UNCHANGED <<value, seen, owner, found, stage>>

Write ==
  /\ stage = "clean" /\ seen[owner] = value
  /\ value' \in Values
  /\ stage' = "written"
  /\ UNCHANGED <<seen, owner, found, told>>

Undo ==
  /\ stage = "written"
  /\ value' = found
  /\ stage' = "undone"
  /\ UNCHANGED <<seen, owner, found, told>>

(* The answer is settled, possibly with the step that undoes the write.    *)
Settle(result) ==
  /\ stage \in {"clean", "written", "undone"}
  /\ stage' = "settled"
  /\ told' = [told EXCEPT ![owner] = result]
  /\ value' \in {value, found}
  /\ \/ result = "ok" /\ stage = "written" /\ value' = value
     \/ result = "rejected" /\ value' = found
     \/ result = "recovered" /\ stage = "undone" /\ value' = found
     \/ result = "unrecovered"
  /\ UNCHANGED <<seen, owner, found>>

End ==
  /\ stage = "settled"
  /\ owner' = NoClient /\ found' = None /\ stage' = "none"
  /\ UNCHANGED <<value, seen, told>>

(* The owner, and clients that wait, are gone; the register stays.         *)
Crash(C) ==
  /\ owner \in C
  /\ owner' = NoClient /\ found' = None /\ stage' = "none"
  /\ told' = [c \in Clients |-> IF c \in C THEN "crashed" ELSE told[c]]
  /\ UNCHANGED <<value, seen>>

Next ==
  \/ \E c \in Clients : ReadSource(c) \/ Begin(c) \/ Refuse(c)
  \/ Write \/ Undo \/ End
  \/ \E result \in {"ok", "rejected", "recovered", "unrecovered"} :
       Settle(result)
  \/ \E C \in SUBSET Clients : Crash(C)

Spec == Init /\ [][Next]_registerVars
=============================================================================
