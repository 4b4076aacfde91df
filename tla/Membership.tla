----------------------------- MODULE Membership ------------------------------
(***************************************************************************)
(* What accounts and teams are to everybody else, without tokens, requests *)
(* and transactions: somebody registered founds a team, which appears with *)
(* them as its owner; from then on its members are let in one by one, by   *)
(* those whose right it is at that moment, and stay what they are.         *)
(***************************************************************************)
CONSTANTS Users, Teams, NoUser

VARIABLES account, creator, role

tables == <<account, creator, role>>

Init ==
    /\ account = {}
    /\ creator = [m \in Teams |-> NoUser]
    /\ role = [m \in Teams |-> [u \in Users |-> "none"]]

Register ==
    /\ \E u \in Users \ account : account' = account \cup {u}
    /\ UNCHANGED <<creator, role>>

\* At no time is there a team without its owner, or an owner without their team.
Found ==
    /\ \E m \in Teams, u \in account :
         /\ creator[m] = NoUser
         /\ creator' = [creator EXCEPT ![m] = u]
         /\ role' = [role EXCEPT ![m] = [v \in Users |-> IF v = u THEN "owner" ELSE "none"]]
    /\ UNCHANGED account

\* The founder lets in whom they like, an admin only plain members.
MayAdmit(by, m, new) ==
    \/ by = creator[m] /\ new \in {"admin", "member"}
    \/ role[m][by] = "admin" /\ new = "member"

Admit ==
    /\ \E m \in Teams, by, u \in account, new \in {"admin", "member"} :
         /\ role[m][u] = "none"
         /\ MayAdmit(by, m, new)
         /\ role' = [role EXCEPT ![m][u] = new]
    /\ UNCHANGED <<account, creator>>

Next == Register \/ Found \/ Admit

Spec == Init /\ [][Next]_tables
=============================================================================
