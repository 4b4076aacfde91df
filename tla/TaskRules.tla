------------------------------ MODULE TaskRules ------------------------------
(***************************************************************************)
(* The data of a task and the rules of PUT /tasks/{id}: which fields a     *)
(* request changes, which capacities may change them, what closed_at       *)
(* becomes, and the WHERE clause under which the row is written.           *)
(* Sources: internal/features/tasks/service.go, storage.go,                *)
(* internal/model.                                                         *)
(***************************************************************************)
EXTENDS Naturals

CONSTANTS
    Users, Teams, TaskIds, Requests,
    Titles, Descriptions,    \* the texts that occur (already trimmed, not empty)
    Status,                  \* the statuses that occur
    NoUser,                  \* SQL NULL in assignee_id, or the field left out of the JSON
    ExplicitNull,            \* "assignee_id": null written in the JSON
    NoTask, NoReq,
    NoChange                 \* a key that is not in the map `changes`

ASSUME StatusAssumption ==
    Status \subseteq {"todo", "in_progress", "done", "cancelled"}

ASSUME DistinctAssumption ==
    /\ NoUser \notin Users
    /\ ExplicitNull \notin Users
    /\ NoUser # ExplicitNull
    /\ NoReq \notin Requests

Roles == {"none", "member", "admin", "owner"}     \* "none": no team_members row

\* The bits of UpdateRole.
Capacities == {"TeamOwner", "TeamAdmin", "TaskCreator", "TaskAssignee"}

Fields == {"title", "description", "status", "assignee_id"}

Closing == {"done", "cancelled"} \cap Status

Never == 0                                        \* closed_at IS NULL

-----------------------------------------------------------------------------
(* Field values.  A request carries a value for every field; what the      *)
(* database holds never is ExplicitNull.                                   *)

Value == Titles \cup Descriptions \cup Status \cup Users \cup {NoUser}
WireValue == Value \cup {ExplicitNull}

Vals == { v \in [Fields -> Value] :
            /\ v["title"] \in Titles
            /\ v["description"] \in Descriptions
            /\ v["status"] \in Status
            /\ v["assignee_id"] \in Users \cup {NoUser} }

WireVals == { v \in [Fields -> WireValue] :
                /\ v["title"] \in Titles
                /\ v["description"] \in Descriptions
                /\ v["status"] \in Status
                /\ v["assignee_id"] \in Users \cup {NoUser, ExplicitNull} }

Wire(ti, de, st, as) ==
    [f \in Fields |-> CASE f = "title" -> ti
                        [] f = "description" -> de
                        [] f = "status" -> st
                        [] f = "assignee_id" -> as]

Stored_Raw(v) == v

\* Nullable.Value / Nullable.Scan: both nulls are stored as NULL, and NULL is
\* read back with Defined = FALSE.
Stored(v) == [v EXCEPT !["assignee_id"] = IF @ = ExplicitNull THEN NoUser ELSE @]

Change == [old: Value, new: Value]

ASSUME NoChangeAssumption == NoChange \notin Change

Task == [team: Teams, created_by: Users, val: Vals, closed_at: Nat, version: Nat]

ASSUME NoTaskAssumption == NoTask \notin Task

-----------------------------------------------------------------------------
(* The rules.  Definitions named X_Y are X with a mistake Y in it: the      *)
(* checks show that each property notices one of them.                     *)

Changed_Swallow(old, new) == {f \in Fields \ {"description", "assignee_id"} : new[f] # old[f]}
AllowFor_AssigneeAll(f) == Capacities
ClosedAt_Keep(row, new, now) ==
    IF new["status"] \in Closing /\ new["status"] # row.val["status"] THEN now ELSE row.closed_at

\* The keys of `changes`.  Nullable values are compared as structs, so an
\* explicit null differs from a stored NULL.
Changed(old, new) == {f \in Fields : new[f] # old[f]}

\* The map `changes` with an entry for each of the fields, and its keys.
Changes(fields, old, new) ==
    [f \in Fields |-> IF f \in fields THEN [old |-> old[f], new |-> new[f]] ELSE NoChange]
Keys(changes) == {f \in Fields : changes[f] # NoChange}

\* One `allow &= ...` per changed field.
AllowFor(f) ==
    IF f = "status" THEN Capacities ELSE Capacities \ {"TaskAssignee"}

Allow(changed) == {c \in Capacities : \A f \in changed : c \in AllowFor(f)}

ClosedAt(row, new, now) ==
    IF new["status"] = row.val["status"] THEN row.closed_at
    ELSE IF new["status"] \in Closing THEN now
    ELSE Never

\* Who the user is to the row, with the team's current roles `mem`.
CapacitiesOf(u, row, mem) ==
    {c \in Capacities :
        \/ c = "TaskCreator" /\ row.created_by = u
        \/ c = "TaskAssignee" /\ row.val["assignee_id"] = u
        \/ c = "TeamOwner" /\ mem[u] = "owner"
        \/ c = "TeamAdmin" /\ mem[u] = "admin"}

\* ... AND EXISTS (SELECT 1 FROM team_members ...), skipped for a NULL assignee.
IsMember(u, mem) == mem[u] # "none"
AssigneeOK(as, mem) == as \in Users => IsMember(as, mem)

UpdateWhere_NoVersion(row, mem, u, version, new, allow) ==
    /\ CapacitiesOf(u, row, mem) \cap allow # {}
    /\ new["assignee_id"] = row.val["assignee_id"] \/ AssigneeOK(new["assignee_id"], mem)

UpdateWhere_NoMembership(row, mem, u, version, new, allow) ==
    /\ row.version = version
    /\ CapacitiesOf(u, row, mem) \cap allow # {}

\* The WHERE clause of storage.Update, on the row as it is when the statement runs.
UpdateWhere(row, mem, u, version, new, allow) ==
    /\ row.version = version
    /\ CapacitiesOf(u, row, mem) \cap allow # {}
    /\ new["assignee_id"] = row.val["assignee_id"] \/ AssigneeOK(new["assignee_id"], mem)

Written_SameVersion(row, new, closedAt) ==
    [team |-> row.team, created_by |-> row.created_by,
     val |-> Stored(new), closed_at |-> closedAt, version |-> row.version]

\* The SET clause of storage.Update.
Written(row, new, closedAt) ==
    [team |-> row.team, created_by |-> row.created_by,
     val |-> Stored(new), closed_at |-> closedAt, version |-> row.version + 1]
=============================================================================
