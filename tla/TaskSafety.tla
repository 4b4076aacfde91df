----------------------------- MODULE TaskSafety ------------------------------
(***************************************************************************)
(* The properties of TaskUpdate.                                           *)
(***************************************************************************)
EXTENDS TaskUpdate

Rows == {t \in TaskIds : task[t] # NoTask}
Events(t) == 1..Len(history[t])

\* Every variable has the type its column, message or local has in the code.
TypeOK ==
    /\ role \in [Teams -> [Users -> Roles]]
    /\ task \in [TaskIds -> Task \cup {NoTask}]
    /\ history \in [TaskIds -> Seq(Event)]
    /\ lock \in [TaskIds -> Requests \cup {NoReq}]
    /\ pc \in [Requests -> PC]
    /\ plan \in [Requests -> Plan \cup {NoPlan}]
    /\ tx \in [Requests -> [row : Task \cup {NoTask}, events : Seq(Event)]]
    /\ resp \in [Requests -> Answer]

\* The events from the i-th on that change field f of task t.
ChangesFrom(t, f, i) == {j \in i..Len(history[t]) : f \in Keys(history[t][j].changes)}

First(S) == CHOOSE j \in S : \A k \in S : j <= k
Last(S) == CHOOSE j \in S : \A k \in S : k <= j

\* The value field f had just before the i-th event, told by the history alone:
\* what the next event to change it found, or else the current value.
ValueBefore(t, f, i) ==
    LET later == ChangesFrom(t, f, i)
    IN  IF later = {} THEN task[t].val[f] ELSE history[t][First(later)].changes[f].old

-----------------------------------------------------------------------------
\* "История строится от актуального состояния задачи": although `changes` is
\* computed from a read made before the transaction, the events of a task form
\* an unbroken chain (each leaves exactly what the next one finds), so reading
\* the history backwards from the row gives every past state, back to the task
\* that POST /tasks answered with.
HistoryReplays ==
    /\ \A t \in Rows : \A i \in Events(t) :
         LET c == history[t][i].changes
         IN  \A f \in Keys(c) : c[f].new = ValueBefore(t, f, i + 1)
    /\ \A r \in Requests :
         (resp[r].code = "ok" /\ plan[r] # NoPlan /\ plan[r].op = "create") =>
             \A f \in Fields : resp[r].task.val[f] = ValueBefore(plan[r].id, f, 1)

\* The row and its event are committed together: a task at version v has exactly
\* v - 1 events.
VersionCountsHistory ==
    \A t \in TaskIds :
        IF task[t] = NoTask THEN history[t] = <<>>
        ELSE task[t].version = Len(history[t]) + 1

\* The assignee belongs to the task's team, though the row and team_members are
\* written by different requests and no foreign key ties them.
AssigneeIsMember ==
    \A t \in Rows :
        LET as == task[t].val["assignee_id"]
        IN  as # NoUser => role[task[t].team][as] # "none"

\* Nobody's change is in the history unless they were entitled to it: owner,
\* admin or creator of the task, or its assignee at that moment changing the
\* status alone.  The capacities were fixed by a mask computed from a stale read.
EventsAuthorized ==
    \A t \in Rows : \A i \in Events(t) :
        LET e == history[t][i]
        IN  \/ role[task[t].team][e.by] \in {"owner", "admin"}
            \/ task[t].created_by = e.by
            \/ Keys(e.changes) = {"status"} /\ ValueBefore(t, "assignee_id", i) = e.by

\* No lost update: a change answered 200 with version v is the (v-1)-th event of
\* the task for ever, so two requests are never told of the same version.
AcknowledgedIsRecorded ==
    \A r \in Requests :
        (resp[r].code = "ok" /\ plan[r] # NoPlan /\ plan[r].op = "update") =>
            LET h == history[plan[r].id]
                v == resp[r].task.version
            IN  /\ v - 1 \in 1..Len(h)
                /\ h[v - 1].req = r
                /\ h[v - 1].changes = Recorded(r).changes

\* closed_at is the time of the last change of status when that change closed
\* the task, and NULL otherwise; it survives edits of the other fields.
ClosedAtFollowsStatus ==
    \A t \in Rows :
        LET moves == ChangesFrom(t, "status", 1)
        IN  IF moves = {} THEN task[t].closed_at = Never
            ELSE LET i == Last(moves)
                 IN  task[t].closed_at =
                       IF history[t][i].changes["status"].new \in Closing THEN i + 1 ELSE Never

-----------------------------------------------------------------------------
(* The inductive invariant: what holds between the statements of a request. *)

\* The plan of an update is about a task that exists.  The row may have moved on
\* since it was read, but as long as it has not, the plan describes it.
PlanFollowsRow(r) ==
    LET p == plan[r]
        row == task[p.id]
    IN  /\ p.id \in TaskIds /\ row # NoTask
        /\ p.team = row.team
        /\ p.old \in Vals /\ p.new \in WireVals
        /\ p.changed = Changed(p.old, p.new)
        /\ p.changed # {}
        /\ p.version <= row.version
        /\ p.version = row.version =>
             /\ p.old = row.val
             /\ p.closed_at = ClosedAt(row, p.new, p.version + 1)

\* An open transaction that has updated: the row it continues cannot move, the
\* conditions of the UPDATE still hold, and its event is the planned one.
UpdateInTx(r) ==
    LET p == plan[r]
        row == task[p.id]
    IN  /\ p.version = row.version
        /\ UpdateWhere(row, role[row.team], p.user, p.version, p.new, Allow(p.changed))
        /\ tx[r].row = Written(row, p.new, p.closed_at)
        /\ tx[r].events = IF pc[r] = "history" THEN <<>> ELSE <<Recorded(r)>>

\* An open transaction that has inserted: nobody else sees or uses the id.
CreateInTx(r) ==
    LET p == plan[r]
    IN  /\ p.id \in TaskIds /\ task[p.id] = NoTask
        /\ InsertWhere(role[p.team], p)
        /\ tx[r].row = NewRow(p)
        /\ tx[r].events = <<>>
        /\ pc[r] # "history"

Process(r) ==
    /\ pc[r] \in {"tx", "cache"} \cup InTx => plan[r] \in Plan
    /\ pc[r] \in {"tx"} \cup InTx /\ plan[r].op = "update" => PlanFollowsRow(r)
    /\ pc[r] \in InTx =>
         /\ lock[plan[r].id] = r
         /\ IF plan[r].op = "update" THEN UpdateInTx(r) ELSE CreateInTx(r)
    /\ pc[r] \notin InTx => tx[r] = NoTx

Processes == \A r \in Requests : Process(r)

\* A row is locked only by an open transaction, and only the one it wrote.
Locks ==
    \A t \in TaskIds : lock[t] # NoReq =>
        pc[lock[t]] \in InTx /\ plan[lock[t]].id = t

\* What the service maintains at every instant; it implies the other invariants'
\* preservation by each step.
IInv == TypeOK /\ VersionCountsHistory /\ AssigneeIsMember /\ Processes /\ Locks

-----------------------------------------------------------------------------
\* Every begun request is answered: rows are locked one at a time and freed by
\* commit and rollback alike, so nobody waits for ever.
EveryRequestAnswered ==
    \A r \in Requests : pc[r] # "idle" ~> pc[r] = "done"

\* The whole of it implements the promise stated in TaskLedger: what is committed
\* is the ledger; requests, transactions, locks and plans are hidden.
Ledger == INSTANCE TaskLedger WITH role <- role, task <- task, history <- history
LedgerSpec == Ledger!Spec

-----------------------------------------------------------------------------
(* What the documents say and the code does not do.                        *)

\* "конкурентное обновление - 409 Conflict": an update by the owner of the team,
\* entitled to everything, with a valid assignee, is never answered 403; the
\* loser of a race is to get 409.
RaceAnswersConflict ==
    \A r \in Requests :
        (resp[r].code = "forbidden" /\ plan[r] # NoPlan /\ plan[r].op = "update") =>
            LET mem == role[plan[r].team]
            IN  ~(mem[plan[r].user] = "owner" /\ AssigneeOK(plan[r].new["assignee_id"], mem))
=============================================================================
