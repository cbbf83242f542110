---------------------------- MODULE MCEnvironment ----------------------------
(* A small instance of Environment: one change of the environment beside a *)
(* list, an import, a revert or a snapshot.                                *)
EXTENDS Environment, TLC

CONSTANTS r1, r2, k1, k2, s1, p1, p2

String(k, v) == [key |-> k, type |-> "string", val |-> v, valid |-> TRUE]
Secret(k, v) == [key |-> k, type |-> "secret", val |-> v, valid |-> TRUE]
Bad(k) == [key |-> k, type |-> "string", val |-> p1, valid |-> FALSE]
Op(kind, lines) == [kind |-> kind, lines |-> lines]
MCOps ==
  (r1 :> {Op("set", <<String(k1, p1)>>), Op("set", <<Secret(k1, s1)>>),
          Op("set", <<Secret(k2, Empty)>>), Op("set", <<Secret(k2, s1)>>),
          Op("delete", <<String(k1, p1)>>),
          Op("bulk", <<String(k1, p1), Secret(k2, s1)>>), Op("bulk", <<String(k1, p2), Bad(k2)>>)})
  @@ (r2 :> {Op(kind, <<>>) : kind \in {"list", "import", "revert", "snapshot"}})
(* A set and an import. *)
MCImport == (r1 :> {Op("set", <<String(k1, p1)>>)}) @@ (r2 :> {Op("import", <<>>)})
(* Variables of old formats: one without a type, one from before secrets   *)
(* were encrypted.                                                         *)
MCInitial == (k1 :> [type |-> "plain", enc |-> FALSE, val |-> p2, src |-> "nrcc", cipher |-> FALSE])
          @@ (k2 :> [type |-> "plain", enc |-> TRUE, val |-> p2, src |-> "nrcc", cipher |-> FALSE])
MCNothing == (k1 :> NoVar) @@ (k2 :> NoVar)
MCInitials == {MCInitial, MCNothing}
MCRestorable == {[MCInitial EXCEPT ![k2].val = p1]}
MCEmptyConfig == {MCNothing}
=============================================================================
