------------------------- MODULE MCProcessManager -------------------------
(* Small instances of ProcessManager.  MaxLives is at least the number of  *)
(* boots, calls and crashes together, so that no start is ever refused by  *)
(* the bound.                                                              *)
EXTENDS ProcessManager, TLC

Symmetry == Permutations(Callers)
=============================================================================
