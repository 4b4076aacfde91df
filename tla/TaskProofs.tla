----------------------------- MODULE TaskProofs ------------------------------
(***************************************************************************)
(* Proofs about TaskUpdate, for any users, teams, requests, tasks, texts:  *)
(* its inductive invariant; that it implements TaskLedger; and what the    *)
(* history of a task tells: the events form an unbroken chain back to the  *)
(* creation, each was made by somebody entitled to it when it was made,    *)
(* and every change that was acknowledged is in it.                        *)
(***************************************************************************)
EXTENDS TaskSafety, SequenceTheorems, WellFoundedInduction, TLAPS

\* What the JSON carries is typed ...
LEMMA WireTyped ==
    ASSUME NEW ti \in Titles, NEW de \in Descriptions, NEW st \in Status,
           NEW as \in Users \cup {NoUser, ExplicitNull}
    PROVE  Wire(ti, de, st, as) \in WireVals
<1> DEFINE w == Wire(ti, de, st, as)
<1>1. /\ w["title"] = ti /\ w["description"] = de
      /\ w["status"] = st /\ w["assignee_id"] = as
  BY DEF Wire, Fields
<1>2. w \in [Fields -> WireValue]
  <2> SUFFICES ASSUME NEW f \in Fields PROVE w[f] \in WireValue
    BY DEF Wire
  <2> QED BY <1>1 DEF Fields, WireValue, Value
<1> QED BY <1>1, <1>2 DEF WireVals

\* ... and so is what the database makes of it.
LEMMA StoredTyped ==
    ASSUME NEW v \in WireVals
    PROVE  Stored(v) \in Vals
<1> DEFINE s == Stored(v)
<1>1. /\ s["title"] = v["title"] /\ s["description"] = v["description"]
      /\ s["status"] = v["status"]
      /\ s["assignee_id"] = IF v["assignee_id"] = ExplicitNull THEN NoUser ELSE v["assignee_id"]
      /\ s \in [Fields -> WireValue \cup {NoUser}]
  BY DEF Stored, WireVals, Fields
<1>2. s["assignee_id"] \in Users \cup {NoUser}
  BY <1>1 DEF WireVals
<1>3. s \in [Fields -> Value]
  <2> SUFFICES ASSUME NEW f \in Fields PROVE s[f] \in Value
    BY <1>1
  <2> QED BY <1>1, <1>2 DEF Fields, Value, WireVals
<1> QED BY <1>1, <1>2, <1>3 DEF Vals, WireVals

LEMMA ValsTyped ==
    ASSUME NEW v \in Vals, NEW f \in Fields
    PROVE  v[f] \in Value
BY DEF Vals

LEMMA ClosedAtTyped ==
    ASSUME NEW row \in Task, NEW new, NEW now \in Nat
    PROVE  ClosedAt(row, new, now) \in Nat
BY DEF ClosedAt, Task, Never

LEMMA WrittenTyped ==
    ASSUME NEW row \in Task, NEW new \in WireVals, NEW c \in Nat
    PROVE  /\ Written(row, new, c) \in Task
           /\ Written(row, new, c).version = row.version + 1
           /\ Written(row, new, c).team = row.team
           /\ Written(row, new, c).created_by = row.created_by
           /\ Written(row, new, c).val = Stored(new)
           /\ Written(row, new, c).closed_at = c
<1>1. Stored(new) \in Vals
  BY StoredTyped
<1> QED BY <1>1 DEF Written, Task

LEMMA RecordedTyped ==
    ASSUME NEW r \in Requests, plan[r] \in Plan, plan[r].op = "update", plan[r].old \in Vals
    PROVE  Recorded(r) \in Event
<1> DEFINE p == plan[r]
           c == Changes(p.changed, p.old, Stored(p.new))
<1>1. p.user \in Users /\ p.new \in WireVals
  BY DEF Plan
<1>2. Stored(p.new) \in Vals
  BY <1>1, StoredTyped
<1>3. c \in [Fields -> Change \cup {NoChange}]
  <2> SUFFICES ASSUME NEW f \in Fields PROVE c[f] \in Change \cup {NoChange}
    BY DEF Changes
  <2>1. p.old[f] \in Value /\ Stored(p.new)[f] \in Value
    BY <1>2, ValsTyped
  <2> QED BY <2>1 DEF Changes, Change
<1> QED BY <1>1, <1>3 DEF Recorded, Event

LEMMA UpdatePlanTyped ==
    ASSUME NEW u \in Users, NEW t \in TaskIds, NEW row \in Task, NEW new \in WireVals,
           NEW version \in Nat
    PROVE  UpdatePlan(u, t, row, new, version) \in Plan
<1>1. ClosedAt(row, new, version + 1) \in Nat
  BY ClosedAtTyped
<1>2. row.team \in Teams /\ row.val \in Vals
  BY DEF Task
<1>3. Changed(row.val, new) \in SUBSET Fields
  BY DEF Changed
<1> QED BY <1>1, <1>2, <1>3 DEF UpdatePlan, Plan
-----------------------------------------------------------------------------
(* IInv is inductive.                                                      *)

LEMMA InitIInv == Init => IInv
<1> SUFFICES ASSUME Init PROVE IInv
  OBVIOUS
<1>1. TypeOK
  <2>1. role \in [Teams -> [Users -> Roles]]
    BY DEF Init, Roles
  <2>2. /\ NoTx \in [row : Task \cup {NoTask}, events : Seq(Event)]
        /\ NoAnswer \in Answer
    BY DEF NoTx, NoAnswer, Answer
  <2> QED BY <2>1, <2>2 DEF Init, TypeOK, PC
<1>2. VersionCountsHistory
  BY DEF Init, VersionCountsHistory
<1>3. AssigneeIsMember
  BY DEF Init, AssigneeIsMember, Rows
<1>4. Processes
  BY DEF Init, Processes, Process, InTx
<1>5. Locks
  BY DEF Init, Locks
<1> QED BY <1>1, <1>2, <1>3, <1>4, <1>5 DEF IInv

\* A process keeps its part of the invariant when nothing it refers to moves.
LEMMA Frame ==
    ASSUME NEW q \in Requests, Process(q),
           pc'[q] = pc[q], plan'[q] = plan[q], tx'[q] = tx[q], role' = role,
           pc[q] \in InTx => lock'[plan[q].id] = lock[plan[q].id],
           pc[q] \in {"tx"} \cup InTx => task'[plan[q].id] = task[plan[q].id]
    PROVE  Process(q)'
<1>1. PlanFollowsRow(q) /\ pc[q] \in {"tx"} \cup InTx => PlanFollowsRow(q)'
  BY DEF PlanFollowsRow
<1>2. UpdateInTx(q) /\ pc[q] \in InTx => UpdateInTx(q)'
  BY DEF UpdateInTx, Recorded
<1>3. CreateInTx(q) /\ pc[q] \in InTx => CreateInTx(q)'
  BY DEF CreateInTx
<1> QED BY <1>1, <1>2, <1>3 DEF Process

\* A request that is over, or not in a transaction and with nothing to write,
\* has no part in the invariant but an empty transaction.
LEMMA Over ==
    ASSUME NEW r \in Requests, pc'[r] \in {"idle", "done"}, tx'[r] = NoTx
    PROVE  Process(r)'
BY DEF Process, InTx

\* A request that answers without having touched the database.
LEMMA RefusalStep ==
    ASSUME IInv, NEW r \in Requests, pc[r] \notin InTx,
           NEW code \in {"ok", "forbidden", "error", "not_found", "conflict"},
           NEW ans \in Task \cup {NoTask}, Reply(r, code, ans),
           UNCHANGED <<role, task, history, lock, plan, tx>>
    PROVE  IInv'
<1> USE DEF IInv
<1>1. TypeOK'
  BY DEF TypeOK, Reply, Answer, PC
<1>2. Process(r)'
  BY Over DEF TypeOK, Reply, Processes, Process
<1>3. \A q \in Requests \ {r} : Process(q)'
  BY Frame DEF TypeOK, Reply, Processes
<1>4. Locks'
  BY DEF TypeOK, Locks, Reply, InTx
<1> QED BY <1>1, <1>2, <1>3, <1>4 DEF VersionCountsHistory, AssigneeIsMember, Rows, Processes

LEMMA CreateBeginStep ==
    ASSUME IInv, NEW r \in Requests, CreateBegin(r)
    PROVE  IInv'
<1> USE DEF CreateBegin, IInv
<1>1. PICK u \in Users, m \in Teams :
         \/ Reply(r, "forbidden", NoTask) /\ UNCHANGED plan
         \/ \E ti \in Titles, de \in Descriptions, st \in Status,
               as \in Users \cup {NoUser, ExplicitNull} :
              /\ plan' = [plan EXCEPT ![r] =
                   [op |-> "create", user |-> u, id |-> NoTask, team |-> m, old |-> NoTask,
                    new |-> Wire(ti, de, st, as), changed |-> {},
                    closed_at |-> Never, version |-> 0]]
              /\ pc' = [pc EXCEPT ![r] = "tx"]
              /\ UNCHANGED resp
  OBVIOUS
<1>2. CASE Reply(r, "forbidden", NoTask) /\ UNCHANGED plan
  BY <1>2, RefusalStep DEF InTx
<1>3. ASSUME NEW ti \in Titles, NEW de \in Descriptions, NEW st \in Status,
             NEW as \in Users \cup {NoUser, ExplicitNull},
             plan' = [plan EXCEPT ![r] =
                   [op |-> "create", user |-> u, id |-> NoTask, team |-> m, old |-> NoTask,
                    new |-> Wire(ti, de, st, as), changed |-> {},
                    closed_at |-> Never, version |-> 0]],
             pc' = [pc EXCEPT ![r] = "tx"],
             UNCHANGED resp
      PROVE  IInv'
  <2>1. Wire(ti, de, st, as) \in WireVals
    BY WireTyped
  <2>2. plan'[r] \in Plan /\ plan'[r].op = "create"
    BY <1>3, <2>1 DEF Plan, TypeOK, Never
  <2>3. TypeOK'
    BY <1>3, <2>2 DEF TypeOK, PC
  <2>4. Process(r)'
    BY <1>3, <2>2 DEF TypeOK, Processes, Process, InTx
  <2>5. \A q \in Requests \ {r} : Process(q)'
    BY <1>3, Frame DEF TypeOK, Processes
  <2>6. Locks'
    BY <1>3 DEF TypeOK, Locks, InTx
  <2> QED BY <2>3, <2>4, <2>5, <2>6 DEF VersionCountsHistory, AssigneeIsMember, Rows, Processes
<1> QED BY <1>1, <1>2, <1>3

LEMMA UpdateBeginStep ==
    ASSUME IInv, NEW r \in Requests, UpdateBegin(r)
    PROVE  IInv'
<1> USE DEF UpdateBegin, IInv
<1>1. PICK u \in Users, t \in TaskIds, version \in 1..MaxVersion,
           ti \in Titles, de \in Descriptions, st \in Status,
           as \in Users \cup {NoUser, ExplicitNull} :
        LET row == task[t]
            new == Wire(ti, de, st, as)
        IN  IF row = NoTask \/ (row # NoTask /\ ~IsMember(u, role[row.team]))
            THEN Reply(r, "not_found", NoTask) /\ UNCHANGED plan
            ELSE IF version # row.version
            THEN Reply(r, "conflict", row) /\ UNCHANGED plan
            ELSE IF Changed(row.val, new) = {}
            THEN Reply(r, "ok", row) /\ UNCHANGED plan
            ELSE /\ plan' = [plan EXCEPT ![r] = UpdatePlan(u, t, row, new, version)]
                 /\ pc' = [pc EXCEPT ![r] = "tx"]
                 /\ UNCHANGED resp
  OBVIOUS
<1> DEFINE row == task[t]
           new == Wire(ti, de, st, as)
<1>2. row \in Task \cup {NoTask}
  BY DEF TypeOK
<1>3. new \in WireVals
  BY WireTyped
<1>4. \/ \E code \in {"ok", "not_found", "conflict"}, ans \in Task \cup {NoTask} :
           Reply(r, code, ans) /\ UNCHANGED plan
      \/ /\ row # NoTask /\ version = row.version /\ Changed(row.val, new) # {}
         /\ plan' = [plan EXCEPT ![r] = UpdatePlan(u, t, row, new, version)]
         /\ pc' = [pc EXCEPT ![r] = "tx"]
         /\ UNCHANGED resp
  <2>1. CASE row = NoTask \/ (row # NoTask /\ ~IsMember(u, role[row.team]))
    BY <1>1, <2>1
  <2>2. CASE row # NoTask /\ IsMember(u, role[row.team]) /\ version # row.version
    BY <1>1, <1>2, <2>2
  <2>3. CASE row # NoTask /\ IsMember(u, role[row.team]) /\ version = row.version
    <3>1. CASE Changed(row.val, new) = {}
      BY <1>1, <1>2, <2>3, <3>1
    <3>2. CASE Changed(row.val, new) # {}
      BY <1>1, <2>3, <3>2
    <3> QED BY <3>1, <3>2
  <2> QED BY <2>1, <2>2, <2>3
<1> HIDE DEF new
<1>5. ASSUME NEW code \in {"ok", "not_found", "conflict"}, NEW ans \in Task \cup {NoTask},
             Reply(r, code, ans), UNCHANGED plan
      PROVE  IInv'
  BY <1>5, RefusalStep DEF InTx
<1>6. ASSUME row # NoTask, version = row.version, Changed(row.val, new) # {},
             plan' = [plan EXCEPT ![r] = UpdatePlan(u, t, row, new, version)],
             pc' = [pc EXCEPT ![r] = "tx"],
             UNCHANGED resp
      PROVE  IInv'
  <2>1. row \in Task /\ version \in Nat
    BY <1>2, <1>6 DEF Task
  <2>2. plan'[r] = UpdatePlan(u, t, row, new, version) /\ plan'[r] \in Plan
    BY <1>3, <1>6, <2>1, UpdatePlanTyped DEF TypeOK
  <2>3. TypeOK'
    BY <1>6, <2>2 DEF TypeOK, PC
  <2>4. PlanFollowsRow(r)'
    BY <1>3, <1>6, <2>1, <2>2 DEF PlanFollowsRow, UpdatePlan, Task
  <2>5. Process(r)'
    BY <1>6, <2>2, <2>4 DEF TypeOK, Processes, Process, InTx
  <2>6. \A q \in Requests \ {r} : Process(q)'
    BY <1>6, Frame DEF TypeOK, Processes
  <2>7. Locks'
    BY <1>6 DEF TypeOK, Locks, InTx
  <2> QED BY <2>3, <2>5, <2>6, <2>7 DEF VersionCountsHistory, AssigneeIsMember, Rows, Processes
<1> QED BY <1>4, <1>5, <1>6

\* The transaction of an INSERT that was accepted.
LEMMA TxInsertStep ==
    ASSUME IInv, NEW r \in Requests, TxInsert(r)
    PROVE  IInv'
<1> DEFINE p == plan[r]
<1> USE DEF TxInsert, IInv
<1>1. p \in Plan /\ p.op = "create"
  BY DEF Processes, Process
<1>2. PICK t \in TaskIds :
        /\ task[t] = NoTask /\ lock[t] = NoReq
        /\ lock' = [lock EXCEPT ![t] = r]
        /\ plan' = [plan EXCEPT ![r].id = t]
  BY DEF FreeIds
<1>3. p.team \in Teams /\ p.user \in Users /\ p.new \in WireVals
  BY <1>1 DEF Plan
<1>4. NewRow(p) \in Task
  BY <1>3, StoredTyped DEF NewRow, Task, Never
<1>5. /\ plan'[r] = [p EXCEPT !.id = t]
      /\ plan'[r] \in Plan
      /\ plan'[r].op = "create" /\ plan'[r].id = t /\ plan'[r].team = p.team
      /\ plan'[r].user = p.user /\ plan'[r].new = p.new
  BY <1>1, <1>2 DEF TypeOK, Plan
<1>6. tx'[r] = [row |-> NewRow(p), events |-> <<>>]
  BY DEF TypeOK
<1>7. TypeOK'
  <2>1. [row |-> NewRow(p), events |-> <<>>] \in [row : Task \cup {NoTask}, events : Seq(Event)]
    BY <1>4
  <2>2. tx' \in [Requests -> [row : Task \cup {NoTask}, events : Seq(Event)]]
    BY <2>1 DEF TypeOK
  <2> QED BY <1>2, <1>5, <2>2 DEF TypeOK, PC
<1>8. CreateInTx(r)'
  BY <1>2, <1>5, <1>6 DEF CreateInTx, InsertWhere, NewRow, TypeOK
<1>9. Process(r)'
  BY <1>2, <1>5, <1>8 DEF TypeOK, Process, InTx
<1>10. ASSUME NEW q \in Requests \ {r} PROVE Process(q)'
  <2>1. pc'[q] = pc[q] /\ plan'[q] = plan[q] /\ tx'[q] = tx[q]
    BY <1>2 DEF TypeOK
  <2>2. pc[q] \in InTx => lock'[plan[q].id] = lock[plan[q].id]
    BY <1>2, DistinctAssumption DEF TypeOK, Processes, Process
  <2> QED BY <2>1, <2>2, Frame DEF Processes
<1>11. Locks'
  BY <1>2, <1>5 DEF TypeOK, Locks, InTx
<1> QED BY <1>7, <1>9, <1>10, <1>11 DEF VersionCountsHistory, AssigneeIsMember, Rows, Processes

LEMMA TxInsertRefusedStep ==
    ASSUME IInv, NEW r \in Requests, TxInsertRefused(r)
    PROVE  IInv'
BY RefusalStep DEF TxInsertRefused, InTx

LEMMA TxUpdateStep ==
    ASSUME IInv, NEW r \in Requests, TxUpdate(r)
    PROVE  IInv'
<1> DEFINE p == plan[r]
           row == task[p.id]
<1> USE DEF TxUpdate, IInv
<1>1. /\ p \in Plan /\ p.op = "update" /\ PlanFollowsRow(r)
      /\ p.id \in TaskIds /\ row \in Task
  BY DEF Processes, Process, TypeOK, PlanFollowsRow
<1>2. CASE UpdateWhere(row, role[row.team], p.user, p.version, p.new, Allow(p.changed))
  <2>1. /\ lock' = [lock EXCEPT ![p.id] = r]
        /\ tx' = [tx EXCEPT ![r] = [row |-> Written(row, p.new, p.closed_at), events |-> <<>>]]
        /\ pc' = [pc EXCEPT ![r] = "history"]
        /\ UNCHANGED <<resp, role, task, history, plan>>
    BY <1>2
  <2>2. p.new \in WireVals /\ p.closed_at \in Nat
    BY <1>1 DEF Plan
  <2>3. Written(row, p.new, p.closed_at) \in Task
    BY <1>1, <2>2, WrittenTyped
  <2>4. tx'[r] = [row |-> Written(row, p.new, p.closed_at), events |-> <<>>]
    BY <2>1 DEF TypeOK
  <2>5. TypeOK'
    <3>1. [row |-> Written(row, p.new, p.closed_at), events |-> <<>>]
            \in [row : Task \cup {NoTask}, events : Seq(Event)]
      BY <2>3
    <3>2. tx' \in [Requests -> [row : Task \cup {NoTask}, events : Seq(Event)]]
      BY <2>1, <3>1 DEF TypeOK
    <3> QED BY <1>1, <2>1, <3>2 DEF TypeOK, PC
  <2>6. UpdateInTx(r)'
    BY <1>2, <2>1, <2>4 DEF UpdateInTx, UpdateWhere, TypeOK
  <2>7. Process(r)'
    BY <1>1, <2>1, <2>6 DEF TypeOK, Process, InTx, PlanFollowsRow
  <2>8. ASSUME NEW q \in Requests \ {r} PROVE Process(q)'
    <3>1. pc'[q] = pc[q] /\ plan'[q] = plan[q] /\ tx'[q] = tx[q]
      BY <2>1 DEF TypeOK
    <3>2. pc[q] \in InTx => lock'[plan[q].id] = lock[plan[q].id]
      BY <1>1, <2>1, DistinctAssumption DEF TypeOK, Processes, Process
    <3> QED BY <2>1, <3>1, <3>2, Frame DEF Processes
  <2>9. Locks'
    BY <1>1, <2>1 DEF TypeOK, Locks, InTx
  <2> QED BY <2>1, <2>5, <2>7, <2>8, <2>9 DEF VersionCountsHistory, AssigneeIsMember, Rows, Processes
<1>3. CASE ~UpdateWhere(row, role[row.team], p.user, p.version, p.new, Allow(p.changed))
  BY <1>3, RefusalStep DEF InTx
<1> QED BY <1>2, <1>3

LEMMA TxHistoryStep ==
    ASSUME IInv, NEW r \in Requests, TxHistory(r)
    PROVE  IInv'
<1> DEFINE p == plan[r]
           after == [row |-> tx[r].row, events |-> <<Recorded(r)>>]
<1> USE DEF TxHistory, IInv
<1>1. /\ p \in Plan /\ p.op = "update" /\ PlanFollowsRow(r) /\ UpdateInTx(r)
      /\ lock[p.id] = r
  BY DEF Processes, Process, InTx, CreateInTx
<1>2. Recorded(r) \in Event
  BY <1>1, RecordedTyped DEF PlanFollowsRow
<1>3. tx[r].events = <<>> /\ tx[r].row \in Task \cup {NoTask}
  BY <1>1 DEF UpdateInTx, TypeOK
<1>4. Append(tx[r].events, Recorded(r)) = <<Recorded(r)>>
  BY <1>2, <1>3
<1>5. tx' = [tx EXCEPT ![r] = after]
  BY <1>4
<1>6. after \in [row : Task \cup {NoTask}, events : Seq(Event)]
  BY <1>2, <1>3
<1>7. TypeOK'
  <2>1. tx' \in [Requests -> [row : Task \cup {NoTask}, events : Seq(Event)]]
    BY <1>5, <1>6 DEF TypeOK
  <2> QED BY <2>1 DEF TypeOK, PC
<1>8. UpdateInTx(r)'
  <2>1. tx'[r] = after /\ pc'[r] = "read"
    BY <1>5 DEF TypeOK
  <2>2. Recorded(r)' = Recorded(r)
    BY DEF Recorded
  <2> QED BY <1>1, <2>1, <2>2 DEF UpdateInTx
<1>9. Process(r)'
  BY <1>1, <1>8 DEF TypeOK, Process, InTx, PlanFollowsRow
<1>10. \A q \in Requests \ {r} : Process(q)'
  BY Frame DEF TypeOK, Processes
<1>11. Locks'
  BY DEF TypeOK, Locks, InTx
<1> QED BY <1>7, <1>9, <1>10, <1>11 DEF VersionCountsHistory, AssigneeIsMember, Rows, Processes

LEMMA TxReadStep ==
    ASSUME IInv, NEW r \in Requests, TxRead(r)
    PROVE  IInv'
<1> USE DEF TxRead, IInv
<1>1. TypeOK'
  <2>1. tx[r].row \in Task \cup {NoTask} /\ resp[r] \in Answer
    BY DEF TypeOK
  <2>2. [resp[r] EXCEPT !.task = tx[r].row] \in Answer
    BY <2>1 DEF Answer
  <2> QED BY <2>2 DEF TypeOK, PC
<1>2. Process(r)'
  BY DEF TypeOK, Processes, Process, InTx, PlanFollowsRow, UpdateInTx, CreateInTx, Recorded
<1>3. \A q \in Requests \ {r} : Process(q)'
  BY Frame DEF TypeOK, Processes
<1>4. Locks'
  BY DEF TypeOK, Locks, InTx
<1> QED BY <1>1, <1>2, <1>3, <1>4 DEF VersionCountsHistory, AssigneeIsMember, Rows, Processes

LEMMA FailStep ==
    ASSUME IInv, NEW r \in Requests, Fail(r)
    PROVE  IInv'
<1> USE DEF Fail, Unlock, Reply, IInv
<1>1. TypeOK'
  <2>1. NoTx \in [row : Task \cup {NoTask}, events : Seq(Event)]
    BY DEF NoTx
  <2>2. tx' \in [Requests -> [row : Task \cup {NoTask}, events : Seq(Event)]]
    BY <2>1 DEF TypeOK
  <2>3. resp' \in [Requests -> Answer]
    BY DEF TypeOK, Answer
  <2> QED BY <2>2, <2>3 DEF TypeOK, PC
<1>2. Process(r)'
  BY Over DEF TypeOK
<1>3. ASSUME NEW q \in Requests \ {r} PROVE Process(q)'
  <2>1. pc'[q] = pc[q] /\ plan'[q] = plan[q] /\ tx'[q] = tx[q]
    BY DEF TypeOK
  <2>2. pc[q] \in InTx => plan[q].id \in TaskIds /\ lock[plan[q].id] = q
    BY DEF Processes, Process, CreateInTx, PlanFollowsRow
  <2>3. pc[q] \in InTx => lock'[plan[q].id] = lock[plan[q].id]
    BY <2>2
  <2> QED BY <2>1, <2>3, Frame DEF Processes
<1>4. Locks'
  BY DEF TypeOK, Locks
<1> QED BY <1>1, <1>2, <1>3, <1>4 DEF VersionCountsHistory, AssigneeIsMember, Rows, Processes

LEMMA RespondStep ==
    ASSUME IInv, NEW r \in Requests, Respond(r)
    PROVE  IInv'
<1>1. resp[r].task \in Task \cup {NoTask}
  BY DEF IInv, TypeOK, Answer
<1> QED BY <1>1, RefusalStep DEF Respond, InTx

\* The row about to be committed continues the committed one, and its assignee
\* is a member of the team by now.
LEMMA RowToCommit ==
    ASSUME IInv, NEW r \in Requests, pc[r] = "commit"
    PROVE  LET t == plan[r].id
               row == tx[r].row
               as == row.val["assignee_id"]
           IN  /\ t \in TaskIds
               /\ plan[r] \in Plan
               /\ lock[t] = r
               /\ row \in Task
               /\ tx[r].events \in Seq(Event)
               /\ as # NoUser => role[row.team][as] # "none"
               /\ IF task[t] = NoTask
                  THEN row.version = 1 /\ tx[r].events = <<>>
                  ELSE /\ row.version = task[t].version + 1 /\ Len(tx[r].events) = 1
                       /\ row.team = task[t].team
<1> DEFINE p == plan[r]
           t == p.id
<1> USE DEF IInv
<1>1. /\ p \in Plan /\ lock[t] = r
      /\ tx[r].events \in Seq(Event)
      /\ p.team \in Teams /\ p.user \in Users /\ p.new \in WireVals /\ p.closed_at \in Nat
      /\ p.op = "update" => PlanFollowsRow(r) /\ UpdateInTx(r)
      /\ p.op # "update" => CreateInTx(r)
  BY DEF Processes, Process, InTx, TypeOK, Plan
<1>2. LET s == Stored(p.new)["assignee_id"] IN
        s # NoUser => s = p.new["assignee_id"] /\ s \in Users
  BY <1>1 DEF Stored, WireVals, Fields
<1>3. CASE p.op = "update"
  <2> DEFINE row == task[t]
             w == Written(row, p.new, p.closed_at)
  <2>1. t \in TaskIds /\ row \in Task /\ row # NoTask
    BY <1>1, <1>3 DEF PlanFollowsRow, TypeOK
  <2>2. /\ w \in Task /\ w.version = row.version + 1
        /\ w.team = row.team /\ w.val = Stored(p.new)
    BY <1>1, <2>1, WrittenTyped
  <2>3. tx[r].row = w /\ tx[r].events = <<Recorded(r)>>
    BY <1>1, <1>3 DEF UpdateInTx
  <2>4. UpdateWhere(row, role[row.team], p.user, p.version, p.new, Allow(p.changed))
    BY <1>1, <1>3 DEF UpdateInTx
  <2>5. w.val["assignee_id"] # NoUser => role[w.team][w.val["assignee_id"]] # "none"
    <3>1. CASE p.new["assignee_id"] = row.val["assignee_id"]
      BY <1>2, <2>1, <2>2, <3>1 DEF AssigneeIsMember, Rows
    <3>2. CASE AssigneeOK(p.new["assignee_id"], role[row.team])
      BY <1>2, <2>2, <3>2 DEF AssigneeOK, IsMember
    <3> QED BY <2>4, <3>1, <3>2 DEF UpdateWhere
  <2> QED BY <1>1, <2>1, <2>2, <2>3, <2>5
<1>4. CASE p.op # "update"
  <2>1. /\ t \in TaskIds /\ task[t] = NoTask
        /\ InsertWhere(role[p.team], p)
        /\ tx[r].row = NewRow(p) /\ tx[r].events = <<>>
    BY <1>1, <1>4 DEF CreateInTx
  <2>2. NewRow(p) \in Task /\ NewRow(p).version = 1
        /\ NewRow(p).team = p.team /\ NewRow(p).val = Stored(p.new)
    BY <1>1, StoredTyped DEF NewRow, Task, Never
  <2>3. NewRow(p).val["assignee_id"] # NoUser =>
          role[p.team][NewRow(p).val["assignee_id"]] # "none"
    BY <1>2, <2>1, <2>2 DEF InsertWhere, AssigneeOK, IsMember
  <2> QED BY <1>1, <2>1, <2>2, <2>3
<1> QED BY <1>3, <1>4

\* The two commits.
LEMMA PublishStep ==
    ASSUME IInv, NEW r \in Requests, pc[r] = "commit", Publish(r),
           NEW to \in {"cache", "done"}, pc' = [pc EXCEPT ![r] = to],
           resp' \in [Requests -> Answer], UNCHANGED <<role, plan>>
    PROVE  IInv'
<1> DEFINE t == plan[r].id
           row == tx[r].row
<1> USE DEF IInv, Publish, CommittedHistory, Unlock
<1>1. /\ t \in TaskIds /\ plan[r] \in Plan /\ lock[t] = r
      /\ row \in Task
      /\ tx[r].events \in Seq(Event)
      /\ row.val["assignee_id"] # NoUser => role[row.team][row.val["assignee_id"]] # "none"
      /\ IF task[t] = NoTask
         THEN row.version = 1 /\ tx[r].events = <<>>
         ELSE /\ row.version = task[t].version + 1 /\ Len(tx[r].events) = 1
              /\ row.team = task[t].team
  BY RowToCommit
<1>2. history[t] \o tx[r].events \in Seq(Event)
  BY <1>1 DEF TypeOK
<1>3. TypeOK'
  <2>1. NoTx \in [row : Task \cup {NoTask}, events : Seq(Event)]
    BY DEF NoTx
  <2>2. tx' \in [Requests -> [row : Task \cup {NoTask}, events : Seq(Event)]]
    BY <2>1 DEF TypeOK
  <2>3. history' \in [TaskIds -> Seq(Event)]
    BY <1>1, <1>2 DEF TypeOK
  <2> QED BY <1>1, <2>2, <2>3 DEF TypeOK, PC
<1>4. VersionCountsHistory'
  <2> SUFFICES ASSUME NEW u \in TaskIds
               PROVE  IF task'[u] = NoTask THEN history'[u] = <<>>
                      ELSE task'[u].version = Len(history'[u]) + 1
    BY DEF VersionCountsHistory
  <2>1. CASE u # t
    BY <2>1 DEF VersionCountsHistory, TypeOK
  <2>2. CASE u = t
    <3>1. task'[t] = row /\ history'[t] = history[t] \o tx[r].events
      BY <1>1 DEF TypeOK
    <3>2. Len(history'[t]) = Len(history[t]) + Len(tx[r].events)
      <4>1. history[t] \in Seq(Event) /\ tx[r].events \in Seq(Event)
        BY <1>1 DEF TypeOK
      <4> HIDE DEF t
      <4>2. Len(history[t] \o tx[r].events) = Len(history[t]) + Len(tx[r].events)
        BY <4>1
      <4> QED BY <3>1, <4>2
    <3>3. row.version = Len(history'[t]) + 1
      <4>1. CASE task[t] = NoTask
        <5>1. history[t] = <<>> /\ Len(tx[r].events) = 0 /\ row.version = 1
          BY <1>1, <4>1 DEF VersionCountsHistory
        <5> QED BY <3>2, <5>1
      <4>2. CASE task[t] # NoTask
        <5>1. /\ task[t].version = Len(history[t]) + 1 /\ Len(tx[r].events) = 1
              /\ row.version = task[t].version + 1
              /\ Len(history[t]) \in Nat
          BY <1>1, <4>2 DEF VersionCountsHistory, TypeOK
        <5> HIDE DEF t, row
        <5> QED BY <3>2, <5>1
      <4> QED BY <4>1, <4>2
    <3>4. row # NoTask \/ history'[t] = <<>>
      BY <1>1, <3>1, NoTaskAssumption
    <3> QED BY <2>2, <3>1, <3>3, <3>4
  <2> QED BY <2>1, <2>2
<1>5. AssigneeIsMember'
  BY <1>1 DEF AssigneeIsMember, Rows, TypeOK
<1>6. Process(r)'
  BY <1>1 DEF TypeOK, Process, InTx
<1>7. ASSUME NEW q \in Requests \ {r} PROVE Process(q)'
  <2>1. pc'[q] = pc[q] /\ plan'[q] = plan[q] /\ tx'[q] = tx[q]
    BY DEF TypeOK
  <2>2. pc[q] \in InTx => plan[q].id \in TaskIds /\ lock[plan[q].id] = q /\ plan[q].id # t
    BY <1>1 DEF Processes, Process, CreateInTx, PlanFollowsRow
  <2>3. pc[q] \in InTx => lock'[plan[q].id] = lock[plan[q].id]
    BY <2>2
  <2>4. CASE plan[q].id # t \/ pc[q] \notin {"tx"} \cup InTx
    <3>1. pc[q] \in {"tx"} \cup InTx => task'[plan[q].id] = task[plan[q].id]
      BY <2>4
    <3> QED BY <2>1, <2>3, <3>1, Frame DEF Processes
  <2>5. CASE plan[q].id = t /\ pc[q] = "tx"
    <3>1. plan[q].op = "update" => PlanFollowsRow(q)'
      <4> SUFFICES ASSUME plan[q].op = "update" PROVE PlanFollowsRow(q)'
        OBVIOUS
      <4>1. PlanFollowsRow(q) /\ plan[q] \in Plan
        BY <2>5 DEF Processes, Process
      <4>2. task'[t] = row /\ task[t] \in Task /\ row.version = task[t].version + 1
        BY <1>1, <2>5, <4>1 DEF PlanFollowsRow, TypeOK
      <4>3. row.team = task[t].team /\ row # NoTask
        BY <1>1, <2>5, <4>1, NoTaskAssumption DEF PlanFollowsRow
      <4>4. plan[q].version <= task[t].version /\ plan[q].version \in Nat /\ task[t].version \in Nat
        BY <2>5, <4>1, <4>2 DEF PlanFollowsRow, Plan, Task
      <4> QED BY <2>1, <2>5, <4>1, <4>2, <4>3, <4>4 DEF PlanFollowsRow
    <3>2. plan[q] \in Plan /\ tx[q] = NoTx
      BY <2>5 DEF Processes, Process, InTx
    <3> QED BY <2>1, <2>5, <3>1, <3>2 DEF Process, InTx
  <2> QED BY <2>4, <2>5, <2>2
<1>8. Locks'
  BY <1>1 DEF TypeOK, Locks, InTx
<1> QED BY <1>3, <1>4, <1>5, <1>6, <1>7, <1>8 DEF Processes

\* Whatever the roles mem allow, the roles more allow.
AllowsMore(mem, more) ==
    /\ \A v, row, version, vals, allow :
         UpdateWhere(row, mem, v, version, vals, allow) /\ v \in Users =>
             UpdateWhere(row, more, v, version, vals, allow)
    /\ \A as : AssigneeOK(as, mem) => AssigneeOK(as, more)
    /\ \A v \in Users : mem[v] # "none" => more[v] # "none"

\* Roles are only ever given to those who have none, so what a member was
\* allowed remains allowed.
LEMMA RightsGrow ==
    ASSUME NEW mem \in [Users -> Roles], NEW u \in Users, mem[u] = "none",
           NEW new \in {"admin", "member"}
    PROVE  AllowsMore(mem, [mem EXCEPT ![u] = new])
<1> DEFINE more == [mem EXCEPT ![u] = new]
<1>1. \A v \in Users : mem[v] # "none" => more[v] = mem[v]
  OBVIOUS
<1>2. \A v \in Users : \A row : CapacitiesOf(v, row, mem) \subseteq CapacitiesOf(v, row, more)
  BY <1>1 DEF CapacitiesOf
<1>3. \A as : AssigneeOK(as, mem) => AssigneeOK(as, more)
  BY <1>1 DEF AssigneeOK, IsMember
<1>4. ASSUME NEW v \in Users, NEW row, NEW version, NEW vals, NEW allow,
             UpdateWhere(row, mem, v, version, vals, allow)
      PROVE  UpdateWhere(row, more, v, version, vals, allow)
  BY <1>2, <1>3, <1>4 DEF UpdateWhere
<1>5. \A v \in Users : mem[v] # "none" => more[v] # "none"
  BY <1>1
<1> HIDE DEF more
<1>6. AllowsMore(mem, more)
  BY <1>3, <1>4, <1>5 DEF AllowsMore
<1> QED BY <1>6 DEF more

LEMMA AddMemberStep ==
    ASSUME IInv, AddMember
    PROVE  IInv'
<1> USE DEF AddMember, IInv
<1>1. PICK m \in Teams, u \in Users, new \in {"admin", "member"} :
        role[m][u] = "none" /\ role' = [role EXCEPT ![m][u] = new]
  OBVIOUS
<1>2. ASSUME NEW k \in Teams PROVE AllowsMore(role[k], role'[k])
  <2>1. CASE k # m
    <3>1. role'[k] = role[k]
      BY <1>1, <2>1 DEF TypeOK
    <3> QED BY <3>1 DEF AllowsMore
  <2>2. CASE k = m
    <3>1. role'[k] = [role[k] EXCEPT ![u] = new] /\ role[k] \in [Users -> Roles]
      BY <1>1, <2>2 DEF TypeOK
    <3>2. role[k][u] = "none"
      BY <1>1, <2>2
    <3>3. AllowsMore(role[k], [role[k] EXCEPT ![u] = new])
      BY <3>1, <3>2, RightsGrow
    <3> QED BY <3>1, <3>3
  <2> QED BY <2>1, <2>2
<1>3. TypeOK'
  BY <1>1 DEF TypeOK, Roles
<1>4. VersionCountsHistory'
  BY DEF VersionCountsHistory
<1>5. AssigneeIsMember'
  <2> SUFFICES ASSUME NEW t \in Rows, task[t].val["assignee_id"] # NoUser
               PROVE  role'[task[t].team][task[t].val["assignee_id"]] # "none"
    BY DEF AssigneeIsMember, Rows
  <2>1. task[t].team \in Teams /\ task[t].val["assignee_id"] \in Users
    BY DEF Rows, TypeOK, Task, Vals
  <2> QED BY <1>2, <2>1 DEF AssigneeIsMember, AllowsMore
<1>6. ASSUME NEW r \in Requests PROVE Process(r)'
  <2>1. Process(r)
    BY DEF Processes
  <2>2. PlanFollowsRow(r) => PlanFollowsRow(r)'
    BY DEF PlanFollowsRow
  <2>3. ASSUME PlanFollowsRow(r), plan[r] \in Plan, UpdateInTx(r) PROVE UpdateInTx(r)'
    <3>1. task[plan[r].id].team \in Teams /\ plan[r].user \in Users
      BY <2>3 DEF PlanFollowsRow, TypeOK, Task, Plan
    <3> QED BY <1>2, <2>3, <3>1 DEF UpdateInTx, Recorded, AllowsMore
  <2>4. ASSUME plan[r] \in Plan, CreateInTx(r) PROVE CreateInTx(r)'
    <3>1. plan[r].team \in Teams /\ plan[r].user \in Users
      BY <2>4 DEF Plan
    <3> QED BY <1>2, <2>4, <3>1 DEF CreateInTx, InsertWhere, IsMember, AllowsMore
  <2> QED BY <2>1, <2>2, <2>3, <2>4 DEF Process, InTx
<1>7. Locks'
  BY DEF Locks
<1> QED BY <1>3, <1>4, <1>5, <1>6, <1>7 DEF Processes

LEMMA StutterStep ==
    ASSUME IInv, UNCHANGED vars
    PROVE  IInv'
BY DEF vars, IInv, TypeOK, VersionCountsHistory, AssigneeIsMember, Rows, Processes, Process,
       PlanFollowsRow, UpdateInTx, CreateInTx, Recorded, Locks

LEMMA NextIInv == IInv /\ [Next]_vars => IInv'
<1> SUFFICES ASSUME IInv, [Next]_vars PROVE IInv'
  OBVIOUS
<1>1. ASSUME NEW r \in Requests, TxCommit(r) PROVE IInv'
  <2>1. resp' \in [Requests -> Answer]
    BY <1>1 DEF TxCommit, IInv, TypeOK
  <2> QED BY <1>1, <2>1, PublishStep DEF TxCommit
<1>2. ASSUME NEW r \in Requests, TxCommitLost(r) PROVE IInv'
  <2>1. resp' \in [Requests -> Answer]
    BY <1>2 DEF TxCommitLost, Reply, IInv, TypeOK, Answer
  <2> QED BY <1>2, <2>1, PublishStep DEF TxCommitLost, Reply
<1>3. CASE UNCHANGED vars
  BY <1>3, StutterStep
<1> QED BY <1>1, <1>2, <1>3, CreateBeginStep, UpdateBeginStep, TxInsertStep, TxInsertRefusedStep,
           TxUpdateStep, TxHistoryStep, TxReadStep, FailStep, RespondStep, AddMemberStep
           DEF Next, Work, Quiet

-----------------------------------------------------------------------------
\* What holds between any two steps of the service, whatever the interleaving.
THEOREM Inductive == Spec => []IInv
<1>1. Init => IInv
  BY InitIInv
<1>2. IInv /\ [Next]_vars => IInv'
  BY NextIInv
<1> QED BY <1>1, <1>2, PTL DEF Spec

\* Every variable keeps the type its column or local has in the code.
THEOREM TypeCorrect == Spec => []TypeOK
<1>1. IInv => TypeOK
  BY DEF IInv
<1> QED BY <1>1, Inductive, PTL

\* Row and history event are written together or not at all: a task at version
\* v has exactly v - 1 events.
THEOREM VersionsCounted == Spec => []VersionCountsHistory
<1>1. IInv => VersionCountsHistory
  BY DEF IInv
<1> QED BY <1>1, Inductive, PTL

\* The assignee of a task is a member of its team.
THEOREM AssigneesAreMembers == Spec => []AssigneeIsMember
<1>1. IInv => AssigneeIsMember
  BY DEF IInv
<1> QED BY <1>1, Inductive, PTL

-----------------------------------------------------------------------------
(* What a commit does.                                                     *)

\* The keys of a history event are the fields that differed when it was planned.
LEMMA KeysOfChanges ==
    ASSUME NEW fields \in SUBSET Fields, NEW old \in Vals, NEW new \in Vals
    PROVE  Keys(Changes(fields, old, new)) = fields
<1>1. \A f \in Fields : [old |-> old[f], new |-> new[f]] \in Change
  BY ValsTyped DEF Change
<1> QED BY <1>1, NoChangeAssumption DEF Keys, Changes

\* The stored values differ from the request's by an explicit null at most.
LEMMA StoredFields ==
    ASSUME NEW v \in WireVals, NEW f \in Fields
    PROVE  Stored(v)[f] = IF f = "assignee_id" /\ v[f] = ExplicitNull THEN NoUser ELSE v[f]
BY DEF Stored, WireVals, Fields

\* Who passes the WHERE of the UPDATE with the mask of the changed fields is the
\* owner, an admin, the creator, or the assignee who changes the status alone.
LEMMA MaskEntitles ==
    ASSUME NEW u, NEW row, NEW mem, NEW fields \in SUBSET Fields, fields # {},
           CapacitiesOf(u, row, mem) \cap Allow(fields) # {}
    PROVE  \/ mem[u] \in {"owner", "admin"}
           \/ row.created_by = u
           \/ row.val["assignee_id"] = u /\ fields = {"status"}
<1>1. PICK c : c \in CapacitiesOf(u, row, mem) /\ c \in Allow(fields)
  OBVIOUS
<1>2. CASE c = "TaskAssignee"
  <2>1. \A f \in fields : f = "status"
    BY <1>1, <1>2 DEF Allow, AllowFor, Capacities
  <2> QED BY <1>1, <1>2, <2>1 DEF CapacitiesOf
<1>3. CASE c # "TaskAssignee"
  BY <1>1, <1>3 DEF CapacitiesOf
<1> QED BY <1>2, <1>3

\* The commit of an update, as seen in the tables.
EditsRow(r) ==
    LET p == plan[r]
        t == p.id
        row == task[t]
        new == Stored(p.new)
        fields == p.changed
    IN  /\ p \in Plan /\ t \in TaskIds /\ row \in Task /\ new \in Vals
        /\ fields \in SUBSET Fields /\ fields # {}
        /\ \/ role[row.team][p.user] \in {"owner", "admin"}
           \/ row.created_by = p.user
           \/ row.val["assignee_id"] = p.user /\ fields = {"status"}
        /\ new["assignee_id"] = row.val["assignee_id"] \/ AssigneeOK(new["assignee_id"], role[row.team])
        /\ \A f \in Fields \ fields : new[f] = row.val[f]
        /\ Recorded(r) \in Event
        /\ Recorded(r).changes = Changes(fields, row.val, new)
        /\ Keys(Recorded(r).changes) = fields
        /\ "status" \notin fields => p.closed_at = row.closed_at
        /\ "status" \in fields =>
             /\ p.closed_at = IF new["status"] \in Closing THEN row.version + 1 ELSE Never
             /\ (p.closed_at # Never) <=> (new["status"] \in Closing)
        /\ task' = [task EXCEPT ![t] = Written(row, p.new, p.closed_at)]
        /\ history[t] \in Seq(Event)
        /\ history' = [history EXCEPT ![t] = Append(@, Recorded(r))]

LEMMA CommitOfUpdate ==
    ASSUME IInv, NEW r \in Requests, pc[r] = "commit", Publish(r), plan[r].op = "update"
    PROVE  EditsRow(r)
<1> DEFINE p == plan[r]
           t == p.id
           row == task[t]
           new == Stored(p.new)
<1>1. p \in Plan /\ PlanFollowsRow(r) /\ UpdateInTx(r)
  BY DEF IInv, Processes, Process, InTx
<1>2. /\ t \in TaskIds /\ row \in Task /\ history[t] \in Seq(Event)
      /\ p.old = row.val /\ p.changed = Changed(row.val, p.new)
      /\ p.changed # {} /\ p.version = row.version
      /\ p.closed_at = ClosedAt(row, p.new, p.version + 1)
  BY <1>1 DEF PlanFollowsRow, UpdateInTx, IInv, TypeOK
<1>3. p.new \in WireVals /\ p.old \in Vals /\ p.user \in Users /\ row.version \in Nat /\ row.val \in Vals
  BY <1>1, <1>2 DEF Plan, Task
<1>4. new \in Vals
  BY <1>3, StoredTyped
<1>5. p.changed \in SUBSET Fields
  BY <1>2 DEF Changed
<1>6. Recorded(r) \in Event
  BY <1>1, <1>3, RecordedTyped
<1>7. Recorded(r).changes = Changes(p.changed, row.val, new)
  BY <1>2 DEF Recorded
<1>8. Keys(Recorded(r).changes) = p.changed
  BY <1>3, <1>4, <1>5, <1>7, KeysOfChanges
<1>9. /\ \/ role[row.team][p.user] \in {"owner", "admin"}
         \/ row.created_by = p.user
         \/ row.val["assignee_id"] = p.user /\ p.changed = {"status"}
      /\ p.new["assignee_id"] = row.val["assignee_id"] \/ AssigneeOK(p.new["assignee_id"], role[row.team])
  BY <1>1, <1>2, <1>5, MaskEntitles DEF UpdateInTx, UpdateWhere
<1>10. row.val["assignee_id"] # ExplicitNull
  BY <1>3, DistinctAssumption DEF Vals
<1>11. new["assignee_id"] = row.val["assignee_id"] \/ AssigneeOK(new["assignee_id"], role[row.team])
  <2>1. "assignee_id" \in Fields
    BY DEF Fields
  <2>2. new["assignee_id"] = IF p.new["assignee_id"] = ExplicitNull THEN NoUser ELSE p.new["assignee_id"]
    BY <1>3, <2>1, StoredFields
  <2> QED BY <1>9, <1>10, <2>2, DistinctAssumption DEF AssigneeOK
<1>12. ASSUME NEW f \in Fields \ p.changed PROVE new[f] = row.val[f]
  <2>1. p.new[f] = row.val[f]
    BY <1>2 DEF Changed
  <2> QED BY <1>3, <1>10, <2>1, StoredFields
<1>13. "status" \in Fields /\ new["status"] = p.new["status"]
  <2>1. "status" \in Fields BY DEF Fields
  <2> QED BY <1>3, <2>1, StoredFields
<1>14. "status" \notin p.changed => p.closed_at = row.closed_at
  BY <1>2, <1>13 DEF Changed, ClosedAt
<1>15. "status" \in p.changed =>
         /\ p.closed_at = IF new["status"] \in Closing THEN row.version + 1 ELSE Never
         /\ (p.closed_at # Never) <=> (new["status"] \in Closing)
  BY <1>2, <1>3, <1>13 DEF Changed, ClosedAt, Never
<1>16. task' = [task EXCEPT ![t] = Written(row, p.new, p.closed_at)]
  BY <1>1 DEF Publish, UpdateInTx
<1>17. history' = [history EXCEPT ![t] = Append(@, Recorded(r))]
  <2>1. tx[r].events = <<Recorded(r)>>
    BY <1>1 DEF UpdateInTx
  <2>2. Append(history[t], Recorded(r)) = history[t] \o <<Recorded(r)>>
    BY <1>2, <1>6, AppendIsConcat
  <2> QED BY <2>1, <2>2 DEF Publish, CommittedHistory
<1> QED BY <1>1, <1>2, <1>4, <1>5, <1>6, <1>7, <1>8, <1>9, <1>11, <1>12, <1>14, <1>15, <1>16, <1>17 DEF EditsRow

\* The commit of a creation.
OpensRow(r) ==
    LET p == plan[r] IN
    /\ p.id \in TaskIds /\ task[p.id] = NoTask
    /\ p.team \in Teams /\ p.user \in Users
    /\ NewRow(p) \in Task
    /\ IsMember(p.user, role[p.team])
    /\ AssigneeOK(Stored(p.new)["assignee_id"], role[p.team])
    /\ task' = [task EXCEPT ![p.id] = NewRow(p)]
    /\ history' = history

LEMMA CommitOfCreate ==
    ASSUME IInv, NEW r \in Requests, pc[r] = "commit", Publish(r), plan[r].op # "update"
    PROVE  OpensRow(r)
<1> DEFINE p == plan[r]
           t == p.id
<1>1. p \in Plan /\ CreateInTx(r)
  BY DEF IInv, Processes, Process, InTx
<1>2. p.team \in Teams /\ p.user \in Users /\ p.new \in WireVals
  BY <1>1 DEF Plan
<1>3. NewRow(p) \in Task
  BY <1>2, StoredTyped DEF NewRow, Task, Never
<1>4. AssigneeOK(Stored(p.new)["assignee_id"], role[p.team])
  <2>1. "assignee_id" \in Fields
    BY DEF Fields
  <2> QED BY <1>1, <1>2, <2>1, StoredFields, DistinctAssumption DEF CreateInTx, InsertWhere, AssigneeOK
<1>5. history' = history
  <2>1. history[t] \in Seq(Event) /\ tx[r].events = <<>> /\ history \in [TaskIds -> Seq(Event)]
    BY <1>1 DEF CreateInTx, IInv, TypeOK
  <2>2. history[t] \o <<>> = history[t]
    BY <2>1, ConcatEmptySeq
  <2> QED BY <2>1, <2>2 DEF Publish, CommittedHistory
<1> QED BY <1>1, <1>2, <1>3, <1>4, <1>5 DEF OpensRow, CreateInTx, InsertWhere, Publish

\* Every step commits an update, commits a creation, adds a member, or leaves
\* the tables alone.
LEMMA KindsOfSteps ==
    ASSUME IInv, [Next]_vars
    PROVE  \/ \E r \in Requests : EditsRow(r) /\ UNCHANGED role
           \/ \E r \in Requests : OpensRow(r) /\ UNCHANGED role
           \/ AddMember
           \/ UNCHANGED <<role, task, history>>
<1>1. ASSUME NEW r \in Requests, TxCommit(r) \/ TxCommitLost(r)
      PROVE  (EditsRow(r) \/ OpensRow(r)) /\ UNCHANGED role
  <2>1. pc[r] = "commit" /\ Publish(r) /\ UNCHANGED role
    BY <1>1 DEF TxCommit, TxCommitLost
  <2> QED BY <2>1, CommitOfUpdate, CommitOfCreate
<1>2. ASSUME NEW r \in Requests, CreateBegin(r) \/ UpdateBegin(r) \/ Work(r) \/ Fail(r), ~TxCommit(r)
      PROVE  UNCHANGED <<role, task, history>>
  BY <1>2 DEF CreateBegin, UpdateBegin, Work, TxInsert, TxInsertRefused, TxUpdate, TxHistory, TxRead,
              Respond, Fail
<1> QED BY <1>1, <1>2 DEF Next, Quiet, vars, Work

-----------------------------------------------------------------------------
(* The refinement: the commit of an update is an Edit of the ledger, that  *)
(* of a creation an Open; everything else stutters.                        *)

\* The ledger reads the same rules: TaskRules instantiated with the constants
\* it already has.
LEMMA SameRules ==
    /\ Ledger!Fields = Fields /\ Ledger!Vals = Vals /\ Ledger!Closing = Closing
    /\ Ledger!Never = Never
    /\ \A c : Ledger!Keys(c) = Keys(c)
    /\ \A f, o, n : Ledger!Changes(f, o, n) = Changes(f, o, n)
    /\ \A as, mem : Ledger!AssigneeOK(as, mem) = AssigneeOK(as, mem)
    /\ \A u, mem : Ledger!IsMember(u, mem) = IsMember(u, mem)
<1>1. Ledger!Fields = Fields /\ Ledger!Vals = Vals /\ Ledger!Closing = Closing /\ Ledger!Never = Never
  BY DEF Ledger!Fields, Fields, Ledger!Vals, Vals, Ledger!Value, Value, Ledger!Closing, Closing,
         Ledger!Never, Never
<1>2. \A c : Ledger!Keys(c) = Keys(c)
  BY <1>1 DEF Ledger!Keys, Keys
<1>3. \A f, o, n : Ledger!Changes(f, o, n) = Changes(f, o, n)
  BY <1>1 DEF Ledger!Changes, Changes
<1>4. \A as, mem : Ledger!AssigneeOK(as, mem) = AssigneeOK(as, mem)
  BY DEF Ledger!AssigneeOK, AssigneeOK, Ledger!IsMember, IsMember
<1>5. \A u, mem : Ledger!IsMember(u, mem) = IsMember(u, mem)
  BY DEF Ledger!IsMember, IsMember
<1> QED BY <1>1, <1>2, <1>3, <1>4, <1>5

LEMMA EditIsEdit ==
    ASSUME IInv, NEW r \in Requests, EditsRow(r), UNCHANGED role
    PROVE  Ledger!Edit
<1> DEFINE p == plan[r]
           t == p.id
           row == task[t]
           e == Recorded(r)
           w == Written(row, p.new, p.closed_at)
<1>1. /\ t \in TaskIds /\ row \in Task /\ e \in Event /\ e.by = p.user
      /\ task \in [TaskIds -> Task \cup {NoTask}] /\ history \in [TaskIds -> Seq(Event)]
  BY DEF EditsRow, IInv, TypeOK, Recorded
<1>2. task'[t] = w /\ w # NoTask /\ w.val = Stored(p.new) /\ w.closed_at = p.closed_at
  <2>1. p.new \in WireVals /\ p.closed_at \in Nat
    BY DEF EditsRow, Plan
  <2>2. w \in Task /\ w.val = Stored(p.new) /\ w.closed_at = p.closed_at
    BY <1>1, <2>1, WrittenTyped
  <2>3. task'[t] = w
    BY <1>1 DEF EditsRow
  <2> QED BY <2>2, <2>3, NoTaskAssumption
<1>3. history'[t] = Append(history[t], e)
  BY <1>1 DEF EditsRow
<1>4. Len(history'[t]) = Len(history[t]) + 1 /\ history'[t][Len(history[t]) + 1] = e
  BY <1>1, <1>3, AppendProperties
<1>5. task' = [task EXCEPT ![t] = [team |-> row.team, created_by |-> row.created_by,
                   val |-> w.val, closed_at |-> w.closed_at, version |-> row.version + 1]]
  BY DEF EditsRow, Written
<1>6. row # NoTask
  BY <1>1, NoTaskAssumption
<1>7. Ledger!Alter(t, e.by, Keys(e.changes), w.val, w.closed_at, e)
  BY <1>1, <1>2, <1>5, <1>6, SameRules DEF EditsRow, Ledger!Alter, Ledger!Entitled
<1> QED BY <1>1, <1>2, <1>4, <1>7, SameRules DEF Ledger!Edit

LEMMA OpenIsOpen ==
    ASSUME IInv, NEW r \in Requests, OpensRow(r), UNCHANGED role
    PROVE  Ledger!Open
<1> DEFINE p == plan[r]
           t == p.id
           w == NewRow(p)
<1>1. t \in TaskIds /\ task[t] = NoTask /\ w \in Task /\ w # NoTask
      /\ task \in [TaskIds -> Task \cup {NoTask}]
  BY NoTaskAssumption DEF OpensRow, IInv, TypeOK
<1>2. task'[t] = w /\ w.val = Stored(p.new) /\ w.val \in Vals
  BY <1>1 DEF OpensRow, NewRow, Task
<1>3. task' = [task EXCEPT ![t] =
        [team |-> p.team, created_by |-> p.user, val |-> w.val, closed_at |-> Never, version |-> 1]]
  BY <1>1 DEF OpensRow, NewRow
<1>4. /\ p.team \in Teams /\ p.user \in Users /\ UNCHANGED <<role, history>>
      /\ IsMember(p.user, role[p.team]) /\ AssigneeOK(w.val["assignee_id"], role[p.team])
  BY <1>2 DEF OpensRow
<1>5. /\ Ledger!IsMember(p.user, role[p.team])
      /\ Ledger!AssigneeOK(task'[t].val["assignee_id"], role[p.team])
      /\ task'[t].val \in Ledger!Vals
      /\ task' = [task EXCEPT ![t] = [team |-> p.team, created_by |-> p.user,
                     val |-> task'[t].val, closed_at |-> Ledger!Never, version |-> 1]]
  BY <1>2, <1>3, <1>4, SameRules
<1> QED BY <1>1, <1>2, <1>4, <1>5 DEF Ledger!Open

\* Every step of the requests is a step of the ledger or leaves it alone.
LEMMA StepsAreLedgerSteps ==
    ASSUME IInv, [Next]_vars
    PROVE  [Ledger!Next]_(Ledger!ledger)
<1>1. AddMember => Ledger!Join
  BY DEF AddMember, Ledger!Join
<1> QED BY <1>1, KindsOfSteps, EditIsEdit, OpenIsOpen DEF Ledger!Next, Ledger!ledger

\* TaskUpdate implements TaskLedger: whatever the requests, transactions and
\* failures, the tables change as if tasks were opened and edited one at a time
\* by people entitled to it, from the current state.
THEOREM ImplementsLedger == Spec => LedgerSpec
<1>1. Init => Ledger!Init
  BY DEF Init, Ledger!Init
<1>2. IInv /\ [Next]_vars => [Ledger!Next]_(Ledger!ledger)
  BY StepsAreLedgerSteps
<1> QED BY <1>1, <1>2, Inductive, PTL DEF Spec, LedgerSpec, Ledger!Spec

-----------------------------------------------------------------------------
(* The first and the last event of a set.                                  *)

LEMMA FirstExists ==
    ASSUME NEW S \in SUBSET Nat, S # {}
    PROVE  First(S) \in S /\ \A k \in S : First(S) <= k
<1> DEFINE R == OpToRel(<, Nat)
<1>1. PICK x \in S : \A y \in S : ~ (<<y, x>> \in R)
  <2>1. IsWellFoundedOn(R, Nat)
    BY NatLessThanWellFounded
  <2> HIDE DEF R
  <2> QED BY <2>1, WFMin
<1>2. ASSUME NEW y \in S PROVE x <= y
  <2>1. x \in Nat /\ y \in Nat
    OBVIOUS
  <2>2. <<y, x>> \in Nat \X Nat /\ <<y, x>>[1] = y /\ <<y, x>>[2] = x
    BY <2>1
  <2>3. ~(y < x)
    BY <1>1, <2>2 DEF OpToRel
  <2> QED BY <2>1, <2>3
<1> QED BY <1>2 DEF First

LEMMA FirstIs ==
    ASSUME NEW S \in SUBSET Nat, NEW j \in S, \A k \in S : j <= k
    PROVE  First(S) = j
<1>1. S # {}
  OBVIOUS
<1>2. First(S) \in S /\ First(S) <= j
  BY <1>1, FirstExists
<1>3. First(S) \in Nat /\ j \in Nat /\ j <= First(S)
  BY <1>2
<1> QED BY <1>2, <1>3

LEMMA LastExists ==
    ASSUME NEW n \in Nat, NEW S \in SUBSET (1..n), S # {}
    PROVE  Last(S) \in S /\ \A k \in S : k <= Last(S)
<1> DEFINE T == {n - k : k \in S}
<1>1. T \in SUBSET Nat /\ T # {}
  <2>1. \A k \in S : n - k \in Nat
    OBVIOUS
  <2>2. PICK k \in S : TRUE
    OBVIOUS
  <2>3. n - k \in T
    OBVIOUS
  <2> QED BY <2>1, <2>3
<1>2. First(T) \in T /\ \A m \in T : First(T) <= m
  BY <1>1, FirstExists
<1>3. PICK k \in S : First(T) = n - k
  BY <1>2
<1>4. \A j \in S : n - k <= n - j
  BY <1>2, <1>3
<1>5. \A j \in S : j <= k
  BY <1>4
<1> QED BY <1>5 DEF Last

LEMMA LastIs ==
    ASSUME NEW S \in SUBSET Nat, NEW j \in S, \A k \in S : k <= j
    PROVE  Last(S) = j
<1>1. Last(S) \in S /\ \A k \in S : k <= Last(S)
  BY DEF Last
<1>2. Last(S) \in Nat /\ j \in Nat /\ j <= Last(S) /\ Last(S) <= j
  BY <1>1
<1> QED BY <1>2

-----------------------------------------------------------------------------
(* The past is settled: an event more does not change what the history     *)
(* tells of the time before it.                                            *)

\* The history of t after an edit, event by event.
LEMMA EditedHistory ==
    ASSUME IInv, NEW r \in Requests, EditsRow(r)
    PROVE  LET t == plan[r].id
               n == Len(history[t])
           IN  /\ n \in Nat /\ Len(history'[t]) = n + 1
               /\ \A j \in 1..n : history'[t][j] = history[t][j]
               /\ history'[t][n + 1] = Recorded(r)
               /\ history'[t] \in Seq(Event)
               /\ task'[t] = Written(task[t], plan[r].new, plan[r].closed_at)
               /\ \A s \in TaskIds \ {t} : history'[s] = history[s] /\ task'[s] = task[s]
<1> DEFINE t == plan[r].id
<1>1. t \in TaskIds /\ history[t] \in Seq(Event) /\ Recorded(r) \in Event
  BY DEF EditsRow
<1>2. history'[t] = Append(history[t], Recorded(r))
  BY <1>1 DEF EditsRow, IInv, TypeOK
<1>3. task'[t] = Written(task[t], plan[r].new, plan[r].closed_at)
  BY <1>1 DEF EditsRow, IInv, TypeOK
<1>4. \A s \in TaskIds \ {t} : history'[s] = history[s] /\ task'[s] = task[s]
  BY DEF EditsRow, IInv, TypeOK
<1>5. Len(history[t]) \in Nat
  BY <1>1, LenProperties
<1> QED BY <1>1, <1>2, <1>3, <1>4, <1>5, AppendProperties

\* The events from the i-th on that change f, before and after an edit.
LEMMA EditedChanges ==
    ASSUME IInv, NEW r \in Requests, EditsRow(r), NEW t, t = plan[r].id,
           NEW f \in Fields, NEW i \in 1..(Len(history[t]) + 1)
    PROVE  ChangesFrom(t, f, i)' =
             ChangesFrom(t, f, i) \cup
               (IF f \in plan[r].changed THEN {Len(history[t]) + 1} ELSE {})
<1> DEFINE n == Len(history[t])
<1>1. Keys(Recorded(r).changes) = plan[r].changed
  BY DEF EditsRow
<1>2. /\ n \in Nat /\ Len(history'[t]) = n + 1
      /\ \A j \in 1..n : history'[t][j] = history[t][j]
      /\ history'[t][n + 1] = Recorded(r)
  BY EditedHistory
<1>3. ASSUME NEW j \in i..n PROVE j \in ChangesFrom(t, f, i)' <=> j \in ChangesFrom(t, f, i)
  BY <1>2, <1>3 DEF ChangesFrom
<1>4. n + 1 \in ChangesFrom(t, f, i)' <=> f \in plan[r].changed
  BY <1>1, <1>2 DEF ChangesFrom
<1>5. ChangesFrom(t, f, i)' \subseteq i..(n + 1) /\ ChangesFrom(t, f, i) \subseteq i..n
  BY <1>2 DEF ChangesFrom
<1>6. n + 1 \notin i..n /\ \A j \in i..(n + 1) : j \in i..n \/ j = n + 1
  <2>1. n \in Nat /\ i \in Nat
    BY <1>2
  <2> HIDE DEF n
  <2> QED BY <2>1
<1> HIDE DEF n
<1> QED BY <1>3, <1>4, <1>5, <1>6 DEF n

\* The value of every field just before each event, and the last, is settled.
LEMMA PastIsSettled ==
    ASSUME IInv, NEW r \in Requests, EditsRow(r), NEW t, t = plan[r].id,
           NEW f \in Fields, NEW i \in 1..(Len(history[t]) + 1)
    PROVE  ValueBefore(t, f, i)' = ValueBefore(t, f, i)
<1> DEFINE n == Len(history[t])
           C == ChangesFrom(t, f, i)
           D == ChangesFrom(t, f, i)'
<1>1. D = C \cup (IF f \in plan[r].changed THEN {n + 1} ELSE {})
  BY EditedChanges
<1>2. /\ n \in Nat /\ Len(history'[t]) = n + 1
      /\ \A j \in 1..n : history'[t][j] = history[t][j]
      /\ history'[t][n + 1] = Recorded(r)
      /\ task'[t] = Written(task[t], plan[r].new, plan[r].closed_at)
  BY EditedHistory
<1>3. C \subseteq i..n /\ C \subseteq 1..n
  BY <1>2 DEF ChangesFrom
<1>4. f \in plan[r].changed => Recorded(r).changes[f].old = task[t].val[f]
  <2>1. Recorded(r).changes = Changes(plan[r].changed, task[t].val, Stored(plan[r].new))
    BY DEF EditsRow
  <2> QED BY <2>1 DEF Changes
<1>5. f \notin plan[r].changed => task'[t].val[f] = task[t].val[f]
  <2>1. task'[t].val = Stored(plan[r].new)
    BY <1>2 DEF Written
  <2> QED BY <2>1 DEF EditsRow
<1>6. ValueBefore(t, f, i) = IF C = {} THEN task[t].val[f] ELSE history[t][First(C)].changes[f].old
  BY DEF ValueBefore
<1>7. ValueBefore(t, f, i)' = IF D = {} THEN task'[t].val[f] ELSE history'[t][First(D)].changes[f].old
  BY DEF ValueBefore, First
<1> HIDE DEF C, D, n
<1>8. CASE C # {}
  <2>1. First(C) \in C /\ \A k \in C : First(C) <= k
    <3>1. C \in SUBSET Nat
      BY <1>2, <1>3
    <3> QED BY <1>8, <3>1, FirstExists
  <2>2. D \in SUBSET Nat /\ First(C) \in D /\ \A k \in D : First(C) <= k
    <3>1. First(C) \in 1..n
      BY <1>3, <2>1
    <3>2. First(C) \in Nat /\ First(C) <= n + 1
      BY <1>2, <3>1
    <3> QED BY <1>1, <1>2, <1>3, <2>1, <3>2
  <2>3. First(D) = First(C)
    BY <2>2, FirstIs
  <2> QED BY <1>2, <1>3, <1>6, <1>7, <1>8, <2>1, <2>2, <2>3
<1>9. CASE C = {} /\ f \in plan[r].changed
  <2>1. D = {n + 1}
    BY <1>1, <1>9
  <2>2. First(D) = n + 1
    <3>1. D \in SUBSET Nat /\ n + 1 \in D /\ \A k \in D : n + 1 <= k
      BY <1>2, <2>1
    <3> QED BY <3>1, FirstIs
  <2> QED BY <1>2, <1>4, <1>6, <1>7, <1>9, <2>1, <2>2
<1>10. CASE C = {} /\ f \notin plan[r].changed
  BY <1>1, <1>5, <1>6, <1>7, <1>10
<1> QED BY <1>8, <1>9, <1>10

\* After the last event comes the row.
LEMMA PresentIsRow ==
    ASSUME NEW t, NEW f, history[t] \in Seq(Event)
    PROVE  ValueBefore(t, f, Len(history[t]) + 1) = task[t].val[f]
<1>1. Len(history[t]) \in Nat
  BY LenProperties
<1>2. ChangesFrom(t, f, Len(history[t]) + 1) = {}
  BY <1>1 DEF ChangesFrom
<1> QED BY <1>2 DEF ValueBefore

-----------------------------------------------------------------------------
(* What every step does to the history.                                    *)

\* The past of a task: its events so far, and the values around them.
Kept(t) ==
    /\ task'[t] # NoTask
    /\ task'[t].team = task[t].team /\ task'[t].created_by = task[t].created_by
    /\ Len(history'[t]) \in Nat /\ Len(history[t]) <= Len(history'[t])
    /\ \A i \in 1..Len(history[t]) : history'[t][i] = history[t][i]
    /\ \A f \in Fields, i \in 1..(Len(history[t]) + 1) : ValueBefore(t, f, i)' = ValueBefore(t, f, i)

LEMMA SameTables ==
    ASSUME UNCHANGED <<task, history>>, NEW t, NEW f, NEW i
    PROVE  ValueBefore(t, f, i)' = ValueBefore(t, f, i)
BY DEF ValueBefore, ChangesFrom, First

\* Values around events depend on the task's own row and events alone.
LEMMA SameTask ==
    ASSUME NEW t, task'[t] = task[t], history'[t] = history[t], NEW f, NEW i
    PROVE  ValueBefore(t, f, i)' = ValueBefore(t, f, i)
<1>1. ChangesFrom(t, f, i)' = ChangesFrom(t, f, i)
  BY DEF ChangesFrom
<1> QED BY <1>1 DEF ValueBefore, First

LEMMA PastStays ==
    ASSUME IInv, [Next]_vars, NEW t \in Rows
    PROVE  Kept(t)
<1>1. t \in TaskIds /\ task[t] \in Task /\ history[t] \in Seq(Event) /\ Len(history[t]) \in Nat
  BY LenProperties DEF Rows, IInv, TypeOK
<1>2. ASSUME task'[t] = task[t], history'[t] = history[t] PROVE Kept(t)
  BY <1>1, <1>2, SameTask DEF Kept, Rows
<1>3. ASSUME NEW r \in Requests, EditsRow(r) PROVE Kept(t)
  <2>1. CASE t # plan[r].id
    BY <1>1, <1>2, <1>3, <2>1, EditedHistory
  <2>2. CASE t = plan[r].id
    <3>1. /\ Len(history'[t]) = Len(history[t]) + 1
          /\ \A i \in 1..Len(history[t]) : history'[t][i] = history[t][i]
          /\ task'[t] = Written(task[t], plan[r].new, plan[r].closed_at)
      BY <1>3, <2>2, EditedHistory
    <3>2. task'[t] \in Task /\ task'[t].team = task[t].team /\ task'[t].created_by = task[t].created_by
      <4>1. plan[r].new \in WireVals /\ plan[r].closed_at \in Nat
        BY <1>3 DEF EditsRow, Plan
      <4>2. LET w == Written(task[t], plan[r].new, plan[r].closed_at)
            IN  w \in Task /\ w.team = task[t].team /\ w.created_by = task[t].created_by
        BY <1>1, <4>1, WrittenTyped
      <4> QED BY <3>1, <4>2
    <3>3. \A f \in Fields, i \in 1..(Len(history[t]) + 1) :
            ValueBefore(t, f, i)' = ValueBefore(t, f, i)
      BY <1>3, <2>2, PastIsSettled
    <3>4. Len(history'[t]) \in Nat /\ Len(history[t]) <= Len(history'[t])
      BY <1>1, <3>1
    <3> QED BY <3>1, <3>2, <3>3, <3>4, NoTaskAssumption DEF Kept
  <2> QED BY <2>1, <2>2
<1>4. ASSUME NEW r \in Requests, OpensRow(r) PROVE Kept(t)
  <2>1. t # plan[r].id
    BY <1>4 DEF OpensRow, Rows
  <2>2. task'[t] = task[t] /\ history'[t] = history[t]
    BY <1>1, <1>4, <2>1 DEF OpensRow, IInv, TypeOK
  <2> QED BY <1>2, <2>2
<1> QED BY <1>2, <1>3, <1>4, KindsOfSteps DEF AddMember

\* An event that is new was made by the commit of an update.
LEMMA NewEvents ==
    ASSUME IInv, [Next]_vars, NEW t \in Rows', NEW i \in Events(t)'
    PROVE  \/ t \in Rows /\ i \in Events(t)
           \/ \E r \in Requests : /\ EditsRow(r) /\ UNCHANGED role
                                /\ t = plan[r].id /\ i = Len(history[t]) + 1
<1>1. t \in TaskIds /\ history[t] \in Seq(Event) /\ Len(history[t]) \in Nat
  BY LenProperties DEF Rows, IInv, TypeOK
<1>2. task[t] = NoTask => Events(t) = {}
  <2>1. task[t] = NoTask => history[t] = <<>>
    BY <1>1 DEF IInv, VersionCountsHistory
  <2> QED BY <2>1 DEF Events
<1>3. ASSUME history'[t] = history[t]
      PROVE  t \in Rows /\ i \in Events(t)
  <2>1. i \in Events(t)
    BY <1>3 DEF Events
  <2> QED BY <1>1, <1>2, <2>1 DEF Rows
<1>4. ASSUME NEW r \in Requests, EditsRow(r), UNCHANGED role
      PROVE  \/ t \in Rows /\ i \in Events(t)
             \/ t = plan[r].id /\ i = Len(history[t]) + 1
  <2>1. CASE t # plan[r].id
    BY <1>1, <1>3, <1>4, <2>1, EditedHistory
  <2>2. CASE t = plan[r].id
    <3>1. task[t] # NoTask
      BY <1>4, <2>2, NoTaskAssumption DEF EditsRow
    <3>2. i \in 1..(Len(history[t]) + 1)
      BY <1>4, <2>2, EditedHistory DEF Events
    <3> QED BY <1>1, <2>2, <3>1, <3>2 DEF Rows, Events
  <2> QED BY <2>1, <2>2
<1>5. ASSUME NEW r \in Requests, OpensRow(r) PROVE history'[t] = history[t]
  BY <1>5 DEF OpensRow
<1> QED BY <1>3, <1>4, <1>5, KindsOfSteps DEF AddMember

\* Roles are given, never changed or taken away.
LEMMA RolesStay ==
    ASSUME IInv, [Next]_vars, NEW m \in Teams, NEW u \in Users, role[m][u] # "none"
    PROVE  role'[m][u] = role[m][u]
<1>1. CASE AddMember
  BY <1>1 DEF AddMember, IInv, TypeOK
<1> QED BY <1>1, KindsOfSteps

-----------------------------------------------------------------------------
(* The events of a task form a chain, and were made by those entitled.     *)

\* Each event leaves what the next one finds: the first part of HistoryReplays.
Chained ==
    \A t \in Rows : \A i \in Events(t) :
        LET c == history[t][i].changes
        IN  \A f \in Keys(c) : c[f].new = ValueBefore(t, f, i + 1)

LEMMA ChainedStep == IInv /\ Chained /\ [Next]_vars => Chained'
<1> SUFFICES ASSUME IInv, Chained, [Next]_vars, NEW t \in Rows', NEW i \in Events(t)',
                    NEW f \in Keys(history'[t][i].changes)
             PROVE  history'[t][i].changes[f].new = ValueBefore(t, f, i + 1)'
  BY DEF Chained
<1>1. f \in Fields
  BY DEF Keys
<1>2. CASE t \in Rows /\ i \in Events(t)
  <2>1. Kept(t)
    BY <1>2, PastStays
  <2>2. history[t] \in Seq(Event) /\ Len(history[t]) \in Nat /\ i \in 1..Len(history[t])
    BY <1>2, LenProperties DEF Rows, Events, IInv, TypeOK
  <2>3. history'[t][i] = history[t][i]
    BY <2>1, <2>2 DEF Kept
  <2>4. ValueBefore(t, f, i + 1)' = ValueBefore(t, f, i + 1)
    <3>1. i + 1 \in 1..(Len(history[t]) + 1)
      BY <2>2
    <3> QED BY <1>1, <2>1, <3>1 DEF Kept
  <2> QED BY <1>2, <2>3, <2>4 DEF Chained
<1>3. CASE \E r \in Requests : EditsRow(r) /\ t = plan[r].id /\ i = Len(history[t]) + 1
  <2>1. PICK r \in Requests : EditsRow(r) /\ t = plan[r].id /\ i = Len(history[t]) + 1
    BY <1>3
  <2>2. /\ Len(history'[t]) = i /\ history'[t][i] = Recorded(r)
        /\ task'[t] = Written(task[t], plan[r].new, plan[r].closed_at)
        /\ history'[t] \in Seq(Event)
    BY <2>1, EditedHistory
  <2>3. /\ Recorded(r).changes = Changes(plan[r].changed, task[t].val, Stored(plan[r].new))
        /\ Keys(Recorded(r).changes) = plan[r].changed
    BY <2>1 DEF EditsRow
  <2>4. history'[t][i].changes[f].new = task'[t].val[f]
    <3>1. f \in plan[r].changed
      BY <2>2, <2>3
    <3>2. task'[t].val = Stored(plan[r].new)
      BY <2>2 DEF Written
    <3> QED BY <1>1, <2>2, <2>3, <3>1, <3>2 DEF Changes
  <2>5. ValueBefore(t, f, i + 1)' = task'[t].val[f]
    <3>1. (history[t] \in Seq(Event) => ValueBefore(t, f, Len(history[t]) + 1) = task[t].val[f])'
      BY PresentIsRow, PTL
    <3> QED BY <2>2, <3>1
  <2> QED BY <2>4, <2>5
<1> QED BY <1>2, <1>3, NewEvents

LEMMA AuthorizedStep == IInv /\ EventsAuthorized /\ [Next]_vars => EventsAuthorized'
<1> SUFFICES ASSUME IInv, EventsAuthorized, [Next]_vars, NEW t \in Rows', NEW i \in Events(t)'
             PROVE  LET e == history'[t][i]
                    IN  \/ role'[task'[t].team][e.by] \in {"owner", "admin"}
                        \/ task'[t].created_by = e.by
                        \/ Keys(e.changes) = {"status"} /\ ValueBefore(t, "assignee_id", i)' = e.by
  BY DEF EventsAuthorized
<1> DEFINE e == history'[t][i]
<1>1. "assignee_id" \in Fields
  BY DEF Fields
<1>2. CASE t \in Rows /\ i \in Events(t)
  <2>1. Kept(t)
    BY <1>2, PastStays
  <2>2. /\ history[t] \in Seq(Event) /\ Len(history[t]) \in Nat /\ i \in 1..Len(history[t])
        /\ task[t] \in Task
    BY <1>2, LenProperties DEF Rows, Events, IInv, TypeOK
  <2>3. e = history[t][i] /\ task'[t].team = task[t].team /\ task'[t].created_by = task[t].created_by
    BY <2>1, <2>2 DEF Kept
  <2>4. ValueBefore(t, "assignee_id", i)' = ValueBefore(t, "assignee_id", i)
    <3>1. i \in 1..(Len(history[t]) + 1)
      BY <2>2
    <3> QED BY <1>1, <2>1, <3>1 DEF Kept
  <2>5. \/ role[task[t].team][e.by] \in {"owner", "admin"}
        \/ task[t].created_by = e.by
        \/ Keys(e.changes) = {"status"} /\ ValueBefore(t, "assignee_id", i) = e.by
    BY <1>2, <2>3 DEF EventsAuthorized
  <2>6. role[task[t].team][e.by] \in {"owner", "admin"}
        => role'[task[t].team][e.by] \in {"owner", "admin"}
    <3>1. history[t][i] \in Event
      BY <2>2, ElementOfSeq
    <3>2. e.by \in Users /\ task[t].team \in Teams
      BY <2>2, <2>3, <3>1 DEF Event, Task
    <3> QED BY <3>2, RolesStay
  <2> QED BY <2>3, <2>4, <2>5, <2>6
<1>3. CASE \E r \in Requests : /\ EditsRow(r) /\ UNCHANGED role
                             /\ t = plan[r].id /\ i = Len(history[t]) + 1
  <2>1. PICK r \in Requests : /\ EditsRow(r) /\ UNCHANGED role
                             /\ t = plan[r].id /\ i = Len(history[t]) + 1
    BY <1>3
  <2>2. e = Recorded(r) /\ e.by = plan[r].user
    BY <2>1, EditedHistory DEF Recorded
  <2>3. /\ t \in TaskIds /\ history[t] \in Seq(Event) /\ Len(history[t]) \in Nat
        /\ t \in Rows /\ i \in 1..(Len(history[t]) + 1)
    BY <2>1, LenProperties, NoTaskAssumption DEF EditsRow, Rows
  <2>4. ValueBefore(t, "assignee_id", i)' = task[t].val["assignee_id"]
    BY <1>1, <2>1, <2>3, PastIsSettled, PresentIsRow
  <2>5. /\ \/ role[task[t].team][e.by] \in {"owner", "admin"}
           \/ task[t].created_by = e.by
           \/ task[t].val["assignee_id"] = e.by /\ plan[r].changed = {"status"}
        /\ Keys(e.changes) = plan[r].changed
    BY <2>1, <2>2 DEF EditsRow
  <2>6. task'[t].team = task[t].team /\ task'[t].created_by = task[t].created_by
    BY <2>3, PastStays DEF Kept
  <2> QED BY <2>1, <2>4, <2>5, <2>6
<1> QED BY <1>2, <1>3, NewEvents

-----------------------------------------------------------------------------
(* closed_at and the last change of status.                                *)

\* What ClosedAtFollowsStatus says of one task.
ClosedAtTells(t) ==
    LET moves == ChangesFrom(t, "status", 1)
    IN  IF moves = {} THEN task[t].closed_at = Never
        ELSE task[t].closed_at =
               IF history[t][Last(moves)].changes["status"].new \in Closing
               THEN Last(moves) + 1 ELSE Never

LEMMA ClosedAtSame ==
    ASSUME NEW t, task'[t] = task[t], history'[t] = history[t], ClosedAtTells(t)
    PROVE  ClosedAtTells(t)'
<1>1. ChangesFrom(t, "status", 1)' = ChangesFrom(t, "status", 1)
  BY DEF ChangesFrom
<1> QED BY <1>1 DEF ClosedAtTells, Last

LEMMA ClosedAtStep ==
    (IInv /\ \A t \in Rows : ClosedAtTells(t)) /\ [Next]_vars => (\A t \in Rows : ClosedAtTells(t))'
<1> SUFFICES ASSUME IInv, \A t \in Rows : ClosedAtTells(t), [Next]_vars, NEW t \in Rows'
             PROVE  ClosedAtTells(t)'
  OBVIOUS
<1>1. /\ t \in TaskIds /\ task[t] \in Task \cup {NoTask} /\ task \in [TaskIds -> Task \cup {NoTask}]
      /\ history[t] \in Seq(Event) /\ Len(history[t]) \in Nat
  BY LenProperties DEF Rows, IInv, TypeOK
<1>2. CASE task'[t] = task[t] /\ history'[t] = history[t]
  <2>1. t \in Rows
    BY <1>1, <1>2 DEF Rows
  <2> QED BY <1>2, <2>1, ClosedAtSame
<1>3. ASSUME NEW r \in Requests, OpensRow(r), t = plan[r].id PROVE ClosedAtTells(t)'
  <2>1. history'[t] = <<>>
    <3>1. history[t] = <<>>
      BY <1>1, <1>3 DEF OpensRow, IInv, VersionCountsHistory
    <3> QED BY <1>3, <3>1 DEF OpensRow
  <2>2. task'[t].closed_at = Never
    BY <1>1, <1>3 DEF OpensRow, NewRow
  <2>3. ChangesFrom(t, "status", 1)' = {}
    BY <2>1 DEF ChangesFrom
  <2> QED BY <2>2, <2>3 DEF ClosedAtTells
<1>4. ASSUME NEW r \in Requests, EditsRow(r), t = plan[r].id PROVE ClosedAtTells(t)'
  <2> DEFINE n == Len(history[t])
             C == ChangesFrom(t, "status", 1)
             D == ChangesFrom(t, "status", 1)'
  <2>1. t \in Rows /\ ClosedAtTells(t) /\ task[t].version = n + 1
    <3>1. t \in Rows
      BY <1>1, <1>4, NoTaskAssumption DEF EditsRow, Rows
    <3> QED BY <1>1, <3>1 DEF IInv, VersionCountsHistory, Rows
  <2>2. /\ \A j \in 1..n : history'[t][j] = history[t][j]
        /\ history'[t][n + 1] = Recorded(r)
        /\ task'[t] = Written(task[t], plan[r].new, plan[r].closed_at)
    BY <1>4, EditedHistory
  <2>3. task'[t].closed_at = plan[r].closed_at
    BY <2>2 DEF Written
  <2>4. D = C \cup (IF "status" \in plan[r].changed THEN {n + 1} ELSE {})
    <3>1. "status" \in Fields /\ 1 \in 1..(Len(history[t]) + 1)
      BY <1>1 DEF Fields
    <3> QED BY <1>4, <3>1, EditedChanges
  <2>5. C \subseteq 1..n
    BY DEF ChangesFrom
  <2>6. CASE "status" \notin plan[r].changed
    <3>1. D = C
      BY <2>4, <2>6
    <3>2. task'[t].closed_at = task[t].closed_at
      BY <1>4, <2>3, <2>6 DEF EditsRow
    <3>3. C # {} => history'[t][Last(C)] = history[t][Last(C)]
      <4> HIDE DEF C
      <4>1. n \in Nat
        BY <1>1
      <4> QED BY <2>2, <2>5, <4>1, LastExists
    <3>4. (Last(ChangesFrom(t, "status", 1)))' = Last(D)
      BY DEF Last
    <3> QED BY <2>1, <3>1, <3>2, <3>3, <3>4 DEF ClosedAtTells
  <2>7. CASE "status" \in plan[r].changed
    <3>1. Last(D) = n + 1 /\ D # {}
      <4> HIDE DEF C, D, n
      <4>1. n \in Nat
        BY <1>1 DEF n
      <4>2. D \in SUBSET Nat /\ n + 1 \in D /\ \A k \in D : k <= n + 1
        BY <2>4, <2>5, <2>7, <4>1
      <4> QED BY <4>2, LastIs
    <3>2. Recorded(r).changes["status"].new = Stored(plan[r].new)["status"]
      <4>1. Recorded(r).changes = Changes(plan[r].changed, task[t].val, Stored(plan[r].new))
        BY <1>4 DEF EditsRow
      <4> QED BY <2>7, <4>1 DEF Changes, Fields
    <3>3. plan[r].closed_at =
            IF Stored(plan[r].new)["status"] \in Closing THEN task[t].version + 1 ELSE Never
      BY <1>4, <2>7 DEF EditsRow
    <3>4. (Last(ChangesFrom(t, "status", 1)))' = Last(D)
      BY DEF Last
    <3> QED BY <2>1, <2>2, <2>3, <3>1, <3>2, <3>3, <3>4 DEF ClosedAtTells
  <2> QED BY <2>6, <2>7
<1>5. ASSUME NEW r \in Requests, EditsRow(r) \/ OpensRow(r), t # plan[r].id
      PROVE  task'[t] = task[t] /\ history'[t] = history[t]
  BY <1>1, <1>5, EditedHistory DEF OpensRow, IInv, TypeOK
<1> QED BY <1>2, <1>3, <1>4, <1>5, KindsOfSteps DEF AddMember

-----------------------------------------------------------------------------
(* What the requests are told.                                             *)

\* The answer to a planned request is true of the history, and stays true.
Told(r) ==
    LET p == plan[r]
        v == resp[r].task.version
        h == history[p.id]
    IN  /\ p \in Plan /\ p.id \in Rows
        /\ p.op = "create" =>
             \A f \in Fields : resp[r].task.val[f] = ValueBefore(p.id, f, 1)
        /\ p.op = "update" =>
             v - 1 \in 1..Len(h) /\ h[v - 1].req = r /\ h[v - 1].changes = Recorded(r).changes

\* A request has no plan before it begins and no success before it is done; what
\* it read at the end of its transaction is what it commits.
Answering(r) ==
    /\ pc[r] = "idle" => plan[r] = NoPlan
    /\ pc[r] # "done" => resp[r].code # "ok"
    /\ pc[r] = "commit" => resp[r].task = tx[r].row
    /\ pc[r] = "cache" => Told(r)
    /\ resp[r].code = "ok" /\ plan[r] # NoPlan => Told(r)

Answers == \A r \in Requests : Answering(r)

LEMMA ToldStays ==
    ASSUME IInv, [Next]_vars, NEW r \in Requests, Told(r),
           plan'[r] = plan[r], resp'[r].task = resp[r].task
    PROVE  Told(r)'
<1> DEFINE v == resp[r].task.version
<1>1. PICK t \in Rows : t = plan[r].id
  BY DEF Told
<1>2. Kept(t)
  BY PastStays
<1>3. t \in TaskIds /\ history[t] \in Seq(Event) /\ Len(history[t]) \in Nat
  BY LenProperties DEF Rows, IInv, TypeOK
<1>4. t \in Rows'
  BY <1>2, <1>3 DEF Kept, Rows
<1>5. ASSUME plan[r].op = "create", NEW f \in Fields
      PROVE  resp'[r].task.val[f] = ValueBefore(plan[r].id, f, 1)'
  <2>1. resp[r].task.val[f] = ValueBefore(t, f, 1)
    BY <1>1, <1>5 DEF Told
  <2>2. ValueBefore(t, f, 1)' = ValueBefore(t, f, 1)
    BY <1>2, <1>3 DEF Kept
  <2>3. ValueBefore(plan[r].id, f, 1)' = ValueBefore(t, f, 1)'
    BY <1>1 DEF ValueBefore, ChangesFrom
  <2> QED BY <2>1, <2>2, <2>3
<1>6. ASSUME plan[r].op = "update"
      PROVE  /\ v - 1 \in 1..Len(history'[t])
             /\ history'[t][v - 1].req = r /\ history'[t][v - 1].changes = Recorded(r).changes
  <2>1. v - 1 \in 1..Len(history[t]) /\ history[t][v - 1].req = r
        /\ history[t][v - 1].changes = Recorded(r).changes
    BY <1>1, <1>6 DEF Told
  <2>2. ASSUME NEW j \in 1..Len(history[t])
        PROVE  history'[t][j] = history[t][j] /\ j \in 1..Len(history'[t])
    BY <1>2, <1>3 DEF Kept
  <2> QED BY <2>1, <2>2
<1>7. Recorded(r)' = Recorded(r)
  BY DEF Recorded
<1> QED BY <1>1, <1>4, <1>5, <1>6, <1>7 DEF Told

\* A commit makes true what the transaction read.
LEMMA CommitTells ==
    ASSUME IInv, NEW r \in Requests, pc[r] = "commit", Publish(r),
           resp[r].task = tx[r].row, plan' = plan, resp' = resp
    PROVE  Told(r)'
<1>1. plan[r] \in Plan /\ Recorded(r)' = Recorded(r)
  BY DEF IInv, Processes, Process, InTx, Recorded
<1>2. CASE plan[r].op = "update"
  <2>1. EditsRow(r) /\ tx[r].row = Written(task[plan[r].id], plan[r].new, plan[r].closed_at)
    BY <1>2, CommitOfUpdate DEF IInv, Processes, Process, UpdateInTx, InTx
  <2>2. PICK t \in TaskIds : t = plan[r].id
    BY <2>1 DEF EditsRow
  <2>3. task[t] \in Task /\ task[t] # NoTask /\ history[t] \in Seq(Event) /\ Len(history[t]) \in Nat
    BY <2>1, <2>2, LenProperties, NoTaskAssumption DEF EditsRow
  <2>4. task[t].version = Len(history[t]) + 1
    BY <2>3 DEF IInv, VersionCountsHistory
  <2>5. /\ task'[t] = tx[r].row /\ Len(history'[t]) = Len(history[t]) + 1
        /\ history'[t][Len(history[t]) + 1] = Recorded(r)
    BY <2>1, <2>2, EditedHistory
  <2>6. tx[r].row \in Task /\ tx[r].row.version = task[t].version + 1
    <3>1. plan[r].new \in WireVals /\ plan[r].closed_at \in Nat
      BY <1>1 DEF Plan
    <3> QED BY <2>1, <2>2, <2>3, <3>1, WrittenTyped
  <2>7. t \in Rows'
    BY <2>5, <2>6, NoTaskAssumption DEF Rows
  <2>8. resp'[r].task.version - 1 = Len(history[t]) + 1
    BY <2>3, <2>4, <2>6
  <2>9. Len(history[t]) + 1 \in 1..Len(history'[t])
    BY <2>3, <2>5
  <2>10. Recorded(r).req = r
    BY DEF Recorded
  <2> QED BY <1>1, <1>2, <2>2, <2>5, <2>7, <2>8, <2>9, <2>10 DEF Told
<1>3. CASE plan[r].op # "update"
  <2>1. OpensRow(r) /\ tx[r].row = NewRow(plan[r])
    BY <1>3, CommitOfCreate DEF IInv, Processes, Process, CreateInTx, InTx
  <2>2. PICK t \in TaskIds : t = plan[r].id
    BY <2>1 DEF OpensRow
  <2>3. task'[t] = tx[r].row /\ tx[r].row \in Task /\ task[t] = NoTask
    BY <2>1, <2>2 DEF OpensRow, IInv, TypeOK
  <2>4. history'[t] = <<>>
    <3>1. history[t] = <<>>
      BY <2>3 DEF IInv, VersionCountsHistory
    <3> QED BY <2>1, <3>1 DEF OpensRow
  <2>5. t \in Rows'
    BY <2>3, NoTaskAssumption DEF Rows
  <2>6. ASSUME NEW f \in Fields PROVE ValueBefore(t, f, 1)' = task'[t].val[f]
    <3>1. ChangesFrom(t, f, 1)' = {}
      BY <2>4 DEF ChangesFrom
    <3> QED BY <3>1 DEF ValueBefore
  <2>7. ASSUME NEW f \in Fields
        PROVE  resp'[r].task.val[f] = ValueBefore(plan[r].id, f, 1)'
    <3>1. ValueBefore(plan[r].id, f, 1)' = ValueBefore(t, f, 1)'
      BY <2>2 DEF ValueBefore, ChangesFrom
    <3> QED BY <2>3, <2>6, <3>1
  <2> QED BY <1>1, <1>3, <2>2, <2>5, <2>7 DEF Told
<1> QED BY <1>2, <1>3

\* A request of which nothing moves is told the same.
LEMMA OthersAnswering ==
    ASSUME IInv, [Next]_vars, NEW r \in Requests, Answering(r),
           pc'[r] = pc[r], plan'[r] = plan[r], resp'[r] = resp[r],
           pc[r] = "commit" => tx'[r] = tx[r]
    PROVE  Answering(r)'
BY ToldStays DEF Answering

\* A request that is not answered 200, nor about to be, is told nothing.
LEMMA NothingTold ==
    ASSUME NEW r, pc'[r] \notin {"idle", "commit", "cache"}, resp'[r].code # "ok"
    PROVE  Answering(r)'
BY DEF Answering

LEMMA AnswersStep == IInv /\ Answers /\ [Next]_vars => Answers'
<1> SUFFICES ASSUME IInv, Answers, [Next]_vars, NEW r \in Requests PROVE Answering(r)'
  BY DEF Answers
<1>1. Answering(r)
  BY DEF Answers
<1>2. pc[r] \in PC /\ pc \in [Requests -> PC] /\ DOMAIN plan = Requests /\ DOMAIN resp = Requests
      /\ DOMAIN tx = Requests /\ resp[r] \in Answer
  BY DEF IInv, TypeOK
<1>3. ASSUME NEW q \in Requests, q # r,
             CreateBegin(q) \/ UpdateBegin(q) \/ Work(q) \/ TxCommitLost(q) \/ Fail(q)
      PROVE  Answering(r)'
  <2>1. pc'[r] = pc[r] /\ plan'[r] = plan[r] /\ resp'[r] = resp[r] /\ tx'[r] = tx[r]
    BY <1>2, <1>3 DEF CreateBegin, UpdateBegin, Work, TxInsert, TxInsertRefused, TxUpdate, TxHistory,
         TxRead, TxCommit, Respond, TxCommitLost, Fail, Publish, Reply
  <2> QED BY <1>1, <2>1, OthersAnswering
<1>4. CASE CreateBegin(r)
  BY <1>1, <1>2, <1>4, NothingTold DEF CreateBegin, Reply, Answering
<1>5. CASE UpdateBegin(r)
  <2>1. pc[r] = "idle" /\ resp[r].code # "ok" /\ plan[r] = NoPlan
    BY <1>1, <1>5 DEF UpdateBegin, Answering
  <2>2. \/ plan' = plan /\ pc' = [pc EXCEPT ![r] = "done"]
        \/ resp' = resp /\ pc' = [pc EXCEPT ![r] = "tx"]
    <3>1. PICK u \in Users, t \in TaskIds, version \in 1..MaxVersion,
               ti \in Titles, de \in Descriptions, st \in Status,
               as \in Users \cup {NoUser, ExplicitNull} :
            LET row == task[t]
                new == Wire(ti, de, st, as)
            IN  IF row = NoTask \/ (row # NoTask /\ ~IsMember(u, role[row.team]))
                THEN Reply(r, "not_found", NoTask) /\ UNCHANGED plan
                ELSE IF version # row.version
                THEN Reply(r, "conflict", row) /\ UNCHANGED plan
                ELSE IF Changed(row.val, new) = {}
                THEN Reply(r, "ok", row) /\ UNCHANGED plan
                ELSE /\ plan' = [plan EXCEPT ![r] = UpdatePlan(u, t, row, new, version)]
                     /\ pc' = [pc EXCEPT ![r] = "tx"]
                     /\ UNCHANGED resp
      BY <1>5 DEF UpdateBegin
    <3> QED BY <3>1 DEF Reply
  <2> QED BY <1>2, <2>1, <2>2 DEF Answering
<1>6. CASE TxInsert(r) \/ TxHistory(r)
  BY <1>1, <1>2, <1>6, NothingTold DEF TxInsert, TxHistory, Answering
<1>7. CASE TxInsertRefused(r)
  BY <1>1, <1>2, <1>7, NothingTold DEF TxInsertRefused, Reply
<1>8. CASE TxUpdate(r)
  BY <1>1, <1>2, <1>8, NothingTold DEF TxUpdate, Reply, Answering
<1>9. CASE TxRead(r)
  <2>1. pc[r] = "read" /\ resp[r].code # "ok" /\ plan'[r] = plan[r] /\ tx'[r] = tx[r]
        /\ pc'[r] = "commit" /\ resp'[r] = [resp[r] EXCEPT !.task = tx[r].row]
    BY <1>1, <1>2, <1>9 DEF TxRead, Answering
  <2>2. resp'[r].code # "ok" /\ resp'[r].task = tx[r].row
    BY <1>2, <2>1 DEF Answer
  <2> QED BY <2>1, <2>2 DEF Answering
<1>10. CASE TxCommit(r)
  <2>1. pc[r] = "commit" /\ Publish(r) /\ pc'[r] = "cache" /\ plan' = plan /\ resp' = resp
    BY <1>2, <1>10 DEF TxCommit
  <2>2. Told(r)' /\ resp'[r].code # "ok"
    BY <1>1, <2>1, CommitTells DEF Answering
  <2> QED BY <2>1, <2>2 DEF Answering
<1>11. CASE TxCommitLost(r) \/ Fail(r)
  BY <1>2, <1>11, NothingTold DEF TxCommitLost, Fail, Reply
<1>12. CASE Respond(r)
  <2>1. pc[r] = "cache" /\ pc'[r] = "done" /\ plan'[r] = plan[r] /\ resp'[r].task = resp[r].task
    BY <1>2, <1>12 DEF Respond, Reply
  <2>2. Told(r)'
    BY <1>1, <2>1, ToldStays DEF Answering
  <2> QED BY <2>1, <2>2 DEF Answering
<1>13. CASE AddMember \/ UNCHANGED vars
  <2>1. pc'[r] = pc[r] /\ plan'[r] = plan[r] /\ resp'[r] = resp[r] /\ tx'[r] = tx[r]
    BY <1>13 DEF AddMember, vars
  <2> QED BY <1>1, <2>1, OthersAnswering
<1> QED BY <1>3, <1>4, <1>5, <1>6, <1>7, <1>8, <1>9, <1>10, <1>11, <1>12, <1>13
        DEF Next, Work, Quiet

-----------------------------------------------------------------------------
(* The theorems.                                                           *)

\* What is added to IInv for the history.
HInv == Chained /\ EventsAuthorized /\ Answers

THEOREM HistoryInductive == Spec => [](IInv /\ HInv)
<1>1. Init => HInv
  <2>1. ASSUME Init PROVE Rows = {}
    BY <2>1 DEF Init, Rows
  <2>2. ASSUME Init, NEW r \in Requests PROVE Answering(r)
    BY <2>2 DEF Init, Answering, NoAnswer
  <2> QED BY <2>1, <2>2 DEF HInv, Chained, EventsAuthorized, Answers
<1>2. IInv /\ HInv /\ [Next]_vars => HInv'
  BY ChainedStep, AuthorizedStep, AnswersStep DEF HInv
<1> QED BY <1>1, <1>2, Inductive, PTL DEF Spec

\* Reading a task's history backwards from its row gives every past state of
\* the task, down to the one POST /tasks answered with.
THEOREM HistoryTellsAll == Spec => []HistoryReplays
<1>1. HInv => HistoryReplays
  BY DEF HInv, Chained, HistoryReplays, Answers, Answering, Told
<1> QED BY <1>1, HistoryInductive, PTL

\* closed_at is the time of the last change of status, when that closed the task.
THEOREM ClosedAtIsTold == Spec => []ClosedAtFollowsStatus
<1> DEFINE CInv == \A t \in Rows : ClosedAtTells(t)
<1>1. Init => CInv
  BY DEF Init, Rows
<1>2. IInv /\ CInv /\ [Next]_vars => CInv'
  BY ClosedAtStep
<1>3. CInv => ClosedAtFollowsStatus
  BY DEF ClosedAtFollowsStatus, ClosedAtTells
<1> HIDE DEF CInv
<1> QED BY <1>1, <1>2, <1>3, Inductive, PTL DEF Spec

\* No event was made by somebody not entitled to it at the time.
THEOREM EventsWereAuthorized == Spec => []EventsAuthorized
<1>1. HInv => EventsAuthorized
  BY DEF HInv
<1> QED BY <1>1, HistoryInductive, PTL

\* An update answered 200 with version v is the (v-1)-th event of the task from
\* then on: it is not lost, and nobody else was told of that version.
THEOREM NoLostUpdate == Spec => []AcknowledgedIsRecorded
<1>1. HInv => AcknowledgedIsRecorded
  BY DEF HInv, Answers, Answering, Told, AcknowledgedIsRecorded
<1> QED BY <1>1, HistoryInductive, PTL
=============================================================================
