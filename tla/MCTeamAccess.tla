---------------------------- MODULE MCTeamAccess -----------------------------
(* Instances of TeamSafety for TLC. *)
EXTENDS TeamSafety, TLC

\* Users, teams and slots are interchangeable; used for invariants only.
Symmetry == Permutations(Users) \cup Permutations(Teams) \cup Permutations(Slots)
=============================================================================
