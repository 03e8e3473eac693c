---------------------------- MODULE MCFileCheck ----------------------------
(* Instances of FileCheck for TLC; the bounds are in the configurations.   *)
EXTENDS FileCheck, TLC
FileSymmetry == Permutations(Files)
=============================================================================
