----------------------------- MODULE TaskUpdate ------------------------------
(***************************************************************************)
(* POST /tasks and PUT /tasks/{id} as the replicas run them against one    *)
(* MariaDB: every request is a process that reads the task outside any     *)
(* transaction, decides from what it read, and then writes the row and the *)
(* history event in a transaction whose UPDATE re-checks version, rights   *)
(* and assignee on the row as it is by then.                               *)
(*                                                                         *)
(* The database is modelled from how the code uses it: a statement is      *)
(* atomic, a written row is locked until its transaction ends, a statement *)
(* on a locked row waits, uncommitted writes are seen by their transaction *)
(* only.  The list cache, invalidated by the step Respond, is modelled in  *)
(* TaskListCache.                                                          *)
(***************************************************************************)
EXTENDS TaskRules, Sequences

CONSTANTS
    MaxVersion,      \* bound: the largest version a client sends
    NoPlan

ASSUME MaxVersionAssumption == MaxVersion \in Nat

VARIABLES
    role,            \* team_members: role[team][user]
    task,            \* tasks, committed rows
    history,         \* task_history, committed events of a task in id order
    lock,            \* the request whose open transaction has written the row
    pc,              \* where each request is
    plan,            \* what the request decided to write, from what it read
    tx,              \* uncommitted row and event of the request's transaction
    resp             \* the answer

vars == <<role, task, history, lock, pc, plan, tx, resp>>

-----------------------------------------------------------------------------
PC == {"idle", "tx", "history", "read", "commit", "cache", "done"}
InTx == {"history", "read", "commit"}             \* holds the row

\* req is auxiliary: it tells the properties which request wrote the event.
Event == [by: Users, req: Requests, changes: [Fields -> Change \cup {NoChange}]]

Plan == [op: {"create", "update"}, user: Users, id: TaskIds \cup {NoTask}, team: Teams,
         old: Vals \cup {NoTask}, new: WireVals, changed: SUBSET Fields,
         closed_at: Nat, version: Nat]

Answer == [code: {"none", "ok", "forbidden", "not_found", "conflict", "error"},
           task: Task \cup {NoTask}]

NoTx == [row |-> NoTask, events |-> <<>>]
NoAnswer == [code |-> "none", task |-> NoTask]

Init ==
    /\ \E creator \in [Teams -> Users] :        \* teams.Create made them owners
          role = [m \in Teams |-> [u \in Users |-> IF u = creator[m] THEN "owner" ELSE "none"]]
    /\ task = [t \in TaskIds |-> NoTask]
    /\ history = [t \in TaskIds |-> <<>>]
    /\ lock = [t \in TaskIds |-> NoReq]
    /\ pc = [r \in Requests |-> "idle"]
    /\ plan = [r \in Requests |-> NoPlan]
    /\ tx = [r \in Requests |-> NoTx]
    /\ resp = [r \in Requests |-> NoAnswer]

\* The request answers and is over.
Reply(r, code, row) ==
    /\ pc' = [pc EXCEPT ![r] = "done"]
    /\ resp' = [resp EXCEPT ![r] = [code |-> code, task |-> row]]

\* COMMIT or ROLLBACK of r's transaction frees the row it wrote.
Unlock(r) == lock' = [t \in TaskIds |-> IF lock[t] = r THEN NoReq ELSE lock[t]]

-----------------------------------------------------------------------------
(* POST /tasks                                                             *)

\* The token carries the roles of the last login: the user may lack the team
\* in it (token = FALSE) even when the database has a row.
CreateBegin(r) ==
    /\ pc[r] = "idle"
    /\ \E u \in Users, m \in Teams, token \in BOOLEAN :
         /\ token => IsMember(u, role[m])
         /\ IF ~token
            THEN /\ Reply(r, "forbidden", NoTask)
                 /\ UNCHANGED plan
            ELSE \E ti \in Titles, de \in Descriptions, st \in Status,
                    as \in Users \cup {NoUser, ExplicitNull} :
                 /\ plan' = [plan EXCEPT ![r] =
                      [op |-> "create", user |-> u, id |-> NoTask, team |-> m, old |-> NoTask,
                       new |-> Wire(ti, de, st, as), changed |-> {},
                       closed_at |-> Never, version |-> 0]]
                 /\ pc' = [pc EXCEPT ![r] = "tx"]
                 /\ UNCHANGED resp
    /\ UNCHANGED <<role, task, history, lock, tx>>

InsertWhere_NoAssignee(mem, p) == IsMember(p.user, mem)

\* The WHERE clause of storage.Create.
InsertWhere(mem, p) ==
    /\ IsMember(p.user, mem)
    /\ AssigneeOK(p.new["assignee_id"], mem)

NewRow(p) ==
    [team |-> p.team, created_by |-> p.user, val |-> Stored(p.new),
     closed_at |-> Never, version |-> 1]

FreeIds == {t \in TaskIds : task[t] = NoTask /\ lock[t] = NoReq}

\* INSERT ... SELECT; the new row has version 1 and closed_at NULL.
TxInsert(r) ==
    /\ pc[r] = "tx"
    /\ plan[r].op = "create"
    /\ InsertWhere(role[plan[r].team], plan[r])
    /\ \E t \in FreeIds :
         /\ lock' = [lock EXCEPT ![t] = r]
         /\ plan' = [plan EXCEPT ![r].id = t]
    /\ tx' = [tx EXCEPT ![r] = [row |-> NewRow(plan[r]), events |-> <<>>]]
    /\ pc' = [pc EXCEPT ![r] = "read"]
    /\ UNCHANGED <<role, task, history, resp>>

\* No row inserted is ErrForbidden; no AUTO_INCREMENT id left (the bound TaskIds)
\* is a database error.
TxInsertRefused(r) ==
    /\ pc[r] = "tx"
    /\ plan[r].op = "create"
    /\ \/ ~InsertWhere(role[plan[r].team], plan[r]) /\ Reply(r, "forbidden", NoTask)
       \/ FreeIds = {} /\ Reply(r, "error", NoTask)
    /\ UNCHANGED <<role, task, history, lock, plan, tx>>

-----------------------------------------------------------------------------
(* PUT /tasks/{id}                                                         *)

\* What Update computes from the task it read.
UpdatePlan(u, t, row, new, version) ==
    [op |-> "update", user |-> u, id |-> t, team |-> row.team, old |-> row.val, new |-> new,
     changed |-> Changed(row.val, new),
     closed_at |-> ClosedAt(row, new, version + 1),
     version |-> version]

\* storage.GetByID with the membership check, and every decision made on its
\* result.  The instant time.Now() is named by the version the update is to
\* produce.
UpdateBegin(r) ==
    /\ pc[r] = "idle"
    /\ \E u \in Users, t \in TaskIds, version \in 1..MaxVersion,
          ti \in Titles, de \in Descriptions, st \in Status,
          as \in Users \cup {NoUser, ExplicitNull} :
         LET row == task[t]
             new == Wire(ti, de, st, as)
         IN  IF row = NoTask \/ (row # NoTask /\ ~IsMember(u, role[row.team]))
             THEN Reply(r, "not_found", NoTask) /\ UNCHANGED plan
             ELSE IF version # row.version
             THEN Reply(r, "conflict", row) /\ UNCHANGED plan
             ELSE IF Changed(row.val, new) = {}
             THEN Reply(r, "ok", row) /\ UNCHANGED plan
             ELSE /\ plan' = [plan EXCEPT ![r] = UpdatePlan(u, t, row, new, version)]
                  /\ pc' = [pc EXCEPT ![r] = "tx"]
                  /\ UNCHANGED resp
    /\ UNCHANGED <<role, task, history, lock, tx>>

\* storage.Update: zero rows affected becomes ErrForbidden, whatever the reason.
TxUpdate(r) ==
    /\ pc[r] = "tx"
    /\ plan[r].op = "update"
    /\ lock[plan[r].id] = NoReq
    /\ LET p == plan[r]
           row == task[p.id]
       IN  IF UpdateWhere(row, role[row.team], p.user, p.version, p.new, Allow(p.changed))
           THEN /\ lock' = [lock EXCEPT ![p.id] = r]
                /\ tx' = [tx EXCEPT ![r] = [row |-> Written(row, p.new, p.closed_at), events |-> <<>>]]
                /\ pc' = [pc EXCEPT ![r] = "history"]
                /\ UNCHANGED resp
           ELSE Reply(r, "forbidden", NoTask) /\ UNCHANGED <<lock, tx>>
    /\ UNCHANGED <<role, task, history, plan>>

Recorded_OldIsNew(r) ==
    LET p == plan[r] IN
    [by |-> p.user, req |-> r,
     changes |-> Changes(p.changed, Stored(p.new), Stored(p.new))]

\* The event: old values as they were read before the transaction.
Recorded(r) ==
    LET p == plan[r] IN
    [by |-> p.user, req |-> r,
     changes |-> Changes(p.changed, p.old, Stored(p.new))]

TxHistory(r) ==
    /\ pc[r] = "history"
    /\ tx' = [tx EXCEPT ![r] = [row |-> @.row, events |-> Append(@.events, Recorded(r))]]
    /\ pc' = [pc EXCEPT ![r] = "read"]
    /\ UNCHANGED <<role, task, history, lock, plan, resp>>

-----------------------------------------------------------------------------
(* The common end of both handlers.                                        *)

\* GetByID inside the transaction: sees the transaction's own row.
TxRead(r) ==
    /\ pc[r] = "read"
    /\ resp' = [resp EXCEPT ![r].task = tx[r].row]
    /\ pc' = [pc EXCEPT ![r] = "commit"]
    /\ UNCHANGED <<role, task, history, lock, plan, tx>>

CommittedHistory_RowOnly(r) == history

CommittedHistory(r) == [history EXCEPT ![plan[r].id] = @ \o tx[r].events]

\* The writes become visible together.
Publish(r) ==
    /\ task' = [task EXCEPT ![plan[r].id] = tx[r].row]
    /\ history' = CommittedHistory(r)
    /\ Unlock(r)
    /\ tx' = [tx EXCEPT ![r] = NoTx]

TxCommit(r) ==
    /\ pc[r] = "commit"
    /\ Publish(r)
    /\ pc' = [pc EXCEPT ![r] = "cache"]
    /\ UNCHANGED <<role, plan, resp>>

\* COMMIT took effect but its answer was lost: the client is told of an error.
TxCommitLost(r) ==
    /\ pc[r] = "commit"
    /\ Publish(r)
    /\ Reply(r, "error", NoTask)
    /\ UNCHANGED <<role, plan>>

Fail_NoRollback(r) ==
    /\ pc[r] \in {"idle", "tx"} \cup InTx
    /\ tx' = [tx EXCEPT ![r] = NoTx]
    /\ Reply(r, "error", NoTask)
    /\ UNCHANGED <<role, task, history, lock, plan>>

\* Any database error, an expired request context, an open circuit breaker: the
\* deferred Rollback undoes the transaction.
Fail(r) ==
    /\ pc[r] \in {"idle", "tx"} \cup InTx
    /\ Unlock(r)
    /\ tx' = [tx EXCEPT ![r] = NoTx]
    /\ Reply(r, "error", NoTask)
    /\ UNCHANGED <<role, task, history, plan>>

\* invalidateCache, whose error is only logged, and the 200 or 201.
Respond(r) ==
    /\ pc[r] = "cache"
    /\ Reply(r, "ok", resp[r].task)
    /\ UNCHANGED <<role, task, history, lock, plan, tx>>

\* POST /teams/{id}/invite as committed (TeamAccess has the whole handler): an
\* owner adds admins and members, an admin members; nothing ever changes or
\* removes a row.
AddMember ==
    /\ \E m \in Teams, by \in Users, u \in Users, new \in {"admin", "member"} :
         /\ role[m][u] = "none"
         /\ role[m][by] = "owner" \/ (role[m][by] = "admin" /\ new = "member")
         /\ role' = [role EXCEPT ![m][u] = new]
    /\ UNCHANGED <<task, history, lock, pc, plan, tx, resp>>

\* Every request has been answered.
Quiet ==
    /\ \A r \in Requests : pc[r] = "done"
    /\ UNCHANGED vars

\* What the server does for a request once it has begun, failures aside.
Work(r) ==
    \/ TxInsert(r) \/ TxInsertRefused(r) \/ TxUpdate(r) \/ TxHistory(r)
    \/ TxRead(r) \/ TxCommit(r) \/ Respond(r)

Next ==
    \/ \E r \in Requests :
         CreateBegin(r) \/ UpdateBegin(r) \/ Work(r) \/ TxCommitLost(r) \/ Fail(r)
    \/ AddMember
    \/ Quiet

Spec == Init /\ [][Next]_vars

\* A handler's goroutine is scheduled and the database serves its statements.
FairSpec == Spec /\ \A r \in Requests : WF_vars(Work(r))
=============================================================================
