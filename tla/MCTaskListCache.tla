--------------------------- MODULE MCTaskListCache ---------------------------
(* Instances of TaskListSafety for TLC. *)
EXTENDS TaskListSafety, TLC

\* What the configurations call them.
CONSTANTS a, all, l1

\* Where two lists can be, but for the names of replicas and fields: l1 asks a for
\* all, l2 the same or the other replica for the same or the other field.
Placed == {place \in [Lists -> Replicas \X Keys] : place[l1] = <<a, all>>}
=============================================================================
