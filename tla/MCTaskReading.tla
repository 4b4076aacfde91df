---------------------------- MODULE MCTaskReading ----------------------------
(* Instances of TaskReadingSafety for TLC. *)
EXTENDS TaskReadingSafety

Symmetry == Permutations(Adders)
=============================================================================
