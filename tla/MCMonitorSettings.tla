-------------------------- MODULE MCMonitorSettings --------------------------
(* An instance of MonitorSettings for TLC: a range of two intervals, files   *)
(* with an interval below it, and two calls.                                *)
EXTENDS MonitorSettings, TLC

CONSTANTS c1, c2, low, high

MCIntervals  == {1, 2}
MCStored     == {0}
MCThresholds == {low, high}
TwoCalls     == {c1, c2}
CallSymmetry == Permutations(TwoCalls)
=============================================================================
