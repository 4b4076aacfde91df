---------------------------- MODULE MCTaskUpdate -----------------------------
(* Instances of TaskSafety for TLC. *)
EXTENDS TaskSafety, TLC

\* Requests, users and titles are interchangeable; only the liveness run is
\* checked without the symmetry.
Symmetry == Permutations(Requests) \cup Permutations(Users) \cup Permutations(Titles)
=============================================================================
