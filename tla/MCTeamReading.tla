---------------------------- MODULE MCTeamReading ----------------------------
(* Instances of TeamReadingSafety for TLC. *)
EXTENDS TeamReadingSafety, TLC

\* Users are interchangeable; teams and tasks are sorted by their ids.
Symmetry == Permutations(Users)
=============================================================================
