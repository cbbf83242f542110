------------------------------- MODULE MCAuth -------------------------------
(* A small instance of Auth: two administrators, one of them enrolled, and *)
(* an id for a third account.                                             *)
EXTENDS Auth, TLC

CONSTANTS r1, r2

MCNameOf == ("i1" :> "a") @@ ("i2" :> "b") @@ ("i3" :> "c")
Admin(low) == [role |-> "admin", pw |-> 1, low |-> low]
MCConfigured == ("i1" :> Admin(TRUE)) @@ ("i2" :> Admin(FALSE)) @@ ("i3" :> NoUser)
MCEmpty == [u \in {"i1", "i2", "i3"} |-> NoUser]
MCFirstUsers == {MCConfigured, MCEmpty}
MCFirstLogin == <<"i1", "i2">>
MCFirstChal == <<"i2", "none">>
(* Both administrators may delete each other; the first one manages        *)
(* accounts, the second one its own session and enrolment.  The first      *)
(* browser also has a challenge of the second user.                        *)
MCOps == <<{"setup", "login", "verify", "delete", "role", "password"},
           {"refresh", "logout", "delete", "create", "enroll", "confirm", "disable"}>>
(* One page of an enrolled user, and nobody logged in before. *)
MCPageOps == <<{"login", "verify", "refresh"}, {}>>
MCNobody == <<"none", "none">>
MCAddrOf == <<"x", "x">>
Symmetry == Permutations(Requests)
=============================================================================
