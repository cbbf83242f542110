------------------------------ MODULE MCUpdate ------------------------------
(* A small instance of Update: two update requests, a manual check beside  *)
(* the poller, one crash.                                                  *)
EXTENDS Update, TLC

CONSTANTS r1, r2, c1
=============================================================================
