---------------------------- MODULE MCStateFile ----------------------------
(* Instances of StateFile for TLC: three or four processes that share a file. *)
EXTENDS StateFile, TLC

ProcSymmetry == Permutations(Procs)
=============================================================================
