---------------------------- MODULE MCHardDrives ----------------------------
(* Instances of HardDrives for TLC. *)
EXTENDS HardDrives, TLC

MCMachines == {<<>>, <<"other", "ssd">>, <<"hdd", "other", "ssd">>}
MCSymmetry == Permutations(Threads)
=============================================================================
