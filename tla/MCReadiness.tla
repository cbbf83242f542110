---------------------------- MODULE MCReadiness ----------------------------
(* Ticks of 200 ms, the tunables of the code: 6 attempts of 5 s, backoffs   *)
(* from 0.2 s to 2 s, 30 s for a docker restart and for a recovery.         *)
EXTENDS Readiness

MCRestartTimes == {0, 10, 50, 149, 150, 160}
MCOpens  == {0, 1, 7, 15, 24, 25, 26, 40}
MCServes == {0, 1, 10, 24, 25, 26, 60}
MCLeaves == {0, 20, 150, 2000}
=============================================================================
