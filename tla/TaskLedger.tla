----------------------------- MODULE TaskLedger ------------------------------
(***************************************************************************)
(* What the task service promises about tasks, without requests,           *)
(* transactions or locks: tasks change one at a time, each change is made  *)
(* by somebody entitled to it at that moment, and is recorded together     *)
(* with the values it replaced.                                            *)
(***************************************************************************)
EXTENDS TaskRules, Sequences

VARIABLES role, task, history

ledger == <<role, task, history>>

Init ==
    /\ \E creator \in [Teams -> Users] :
          role = [m \in Teams |-> [u \in Users |-> IF u = creator[m] THEN "owner" ELSE "none"]]
    /\ task = [t \in TaskIds |-> NoTask]
    /\ history = [t \in TaskIds |-> <<>>]

Join ==
    /\ \E m \in Teams, u \in Users, new \in {"admin", "member"} :
         /\ role[m][u] = "none"
         /\ role' = [role EXCEPT ![m][u] = new]
    /\ UNCHANGED <<task, history>>

\* A member opens a task and may give it to a member.
Open ==
    /\ \E t \in TaskIds, m \in Teams, u \in Users :
         LET v == task'[t].val IN
         /\ task[t] = NoTask
         /\ task'[t] # NoTask
         /\ v \in Vals
         /\ IsMember(u, role[m])
         /\ AssigneeOK(v["assignee_id"], role[m])
         /\ task' = [task EXCEPT ![t] =
               [team |-> m, created_by |-> u, val |-> v, closed_at |-> Never, version |-> 1]]
    /\ UNCHANGED <<role, history>>

\* Owner, admin and creator change anything; the assignee the status alone.
Entitled(u, row, mem, fields) ==
    \/ mem[u] \in {"owner", "admin"}
    \/ row.created_by = u
    \/ row.val["assignee_id"] = u /\ fields = {"status"}

\* From the current state of the task: every recorded old value is the one the
\* change replaces, every field not recorded stays as it is.
Alter(t, u, fields, new, closedAt, event) ==
    LET row == task[t] IN
    /\ row # NoTask
    /\ fields # {}
    /\ Entitled(u, row, role[row.team], fields)
    /\ new["assignee_id"] = row.val["assignee_id"] \/ AssigneeOK(new["assignee_id"], role[row.team])
    /\ \A f \in Fields \ fields : new[f] = row.val[f]
    /\ event.by = u
    /\ event.changes = Changes(fields, row.val, new)
    /\ "status" \notin fields => closedAt = row.closed_at
    /\ "status" \in fields => ((closedAt # Never) <=> (new["status"] \in Closing))
    /\ task' = [task EXCEPT ![t] =
          [team |-> row.team, created_by |-> row.created_by,
           val |-> new, closed_at |-> closedAt, version |-> row.version + 1]]
    /\ history' = [history EXCEPT ![t] = Append(@, event)]
    /\ UNCHANGED role

\* The outcome of the step says what was changed, by whom.
Edit ==
    \E t \in TaskIds :
        /\ task'[t] # NoTask
        /\ Len(history'[t]) = Len(history[t]) + 1
        /\ LET event == history'[t][Len(history[t]) + 1]
           IN  Alter(t, event.by, Keys(event.changes), task'[t].val, task'[t].closed_at, event)

Next == Join \/ Open \/ Edit

Spec == Init /\ [][Next]_ledger
=============================================================================
