------------------------ MODULE MCApplyTransaction ------------------------
(* Small instances of ApplyTransaction: two fields, one of them a security *)
(* surface, and one environment variable.                                  *)
EXTENDS ApplyRefinement, TLC

CONSTANTS port, auth, v0, v1, key, plain, secret

MCFields == {port, auth}
MCKept   == {auth}
MCVals   == {Zero, v0, v1}
MCDefault == [f \in MCFields |-> IF f = port THEN v0 ELSE Zero]

Src(p, a, e) == [cfg |-> [f \in MCFields |-> IF f = port THEN p ELSE a],
                 env |-> [k \in {key} |-> e]]
Cfg(p, a, e) == [exists |-> TRUE,
                 cfg |-> [f \in MCFields |-> IF f = port THEN p ELSE a],
                 env |-> [k \in {key} |-> e]]

(* A raw source that is silent on the security surface, one that declares  *)
(* an environment variable, one that a dashboard policy renders, a full    *)
(* replacement that omits the surface, and a patch of the surface alone.   *)
RawPort  == [kind |-> "raw", payload |-> Src(v1, Absent, Absent)]
RawEnv   == [kind |-> "raw", payload |-> Src(v1, v0, plain)]
RawAuth  == [kind |-> "raw", payload |-> Src(v0, v0, Absent)]
FullPort == [kind |-> "full", payload |-> Src(v1, Absent, Absent)]
PatchAuth == [kind |-> "patch", payload |-> Src(Absent, v0, Absent)]

MCInputs == {RawPort, RawEnv, FullPort, PatchAuth}
MCAllInputs == MCInputs \cup {RawAuth}
MCLivenessInputs == {RawPort, PatchAuth}
MCRawInputs == {RawPort}
MCStructuredInputs == {FullPort}
MCTwoRawInputs == {RawPort, RawEnv}

(* A deployment that was configured before, and a fresh one.               *)
MCLiveSources  == {Src(v0, v1, Absent)}
MCAnySources   == {Src(v0, v1, Absent), NoFile}
MCNoSource     == {NoFile}
MCLiveStores   == {Cfg(v0, v1, Absent)}
MCNoStore      == {[Cfg(Zero, Zero, Absent) EXCEPT !.exists = FALSE]}

Symmetry == Permutations(Requests)
=============================================================================
