---------------------------- MODULE MCVMDetection ----------------------------
(* Instances of VMDetection for TLC: small counters that wrap in the middle  *)
(* of a measurement.                                                         *)
EXTENDS VMDetection, TLC

MCWord   == 32
MCStarts == {0} \cup 12 .. 31
MCFewStarts == {0, 26, 30}
MCFast   == {1, 3}
MCSlow   == {4}
=============================================================================
