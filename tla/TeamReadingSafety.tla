-------------------------- MODULE TeamReadingSafety --------------------------
(* What the list of teams and the report may be relied on for.             *)
EXTENDS TeamReading

\* Every part of the state keeps its form.
TypeOK ==
    /\ role \in [Teams -> [Users -> Roles]]
    /\ task \in [TaskIds -> Task \cup {NoTask}]
    /\ list \in [Listers -> List]
    /\ report \in [Reporters -> Reporting]

\* The merges give each team its members and its tasks, all that were fetched and
\* no other's: collectMembers and collectTasks, for teams without any, for the last
\* team and the last row.
TeamsAreGrouped ==
    \A l \in Listers, m \in Teams :
        LET x == list[l]
            members == {r \in x.fetchedMembers : r.team = m}
            tasks == {t \in x.fetchedTasks : task[t].team = m}
        IN  x.code = "ok" =>
              /\ ToSet(x.members[m]) = members /\ Len(x.members[m]) = Cardinality(members)
              /\ ToSet(x.tasks[m]) = tasks /\ Len(x.tasks[m]) = Cardinality(tasks)

\* TS.md:38: a user sees their own teams only.  Though teams and members are read by
\* two statements, the caller is among the members of every team shown, each team
\* shows exactly one owner, and a team not shown has no members or tasks.
CallersSeeTheirTeams ==
    \A l \in Listers :
        LET x == list[l] IN
        x.code = "ok" =>
            /\ \A m \in ToSet(x.ids) : x.withMembers =>
                 /\ \E r \in ToSet(x.members[m]) : r.user = x.user
                 /\ Cardinality({r \in ToSet(x.members[m]) : r.role = "owner"}) = 1
            /\ \A m \in Teams \ ToSet(x.ids) : x.members[m] = <<>> /\ x.tasks[m] = <<>>

-----------------------------------------------------------------------------
(* The report                                                              *)

\* The sum of the values of the given metrics.
Total(metrics) == SumFunction([x \in metrics |-> x.value])

OfType(r, type) == {x \in report[r].metrics : x.type = type}

\* The metrics agree with each other, though they are counted by different columns,
\* status and closed_at, whatever sequence of closing, reopening and reassigning led
\* there: the leaders have not closed more tasks than there are closed ones; there
\* is an average when there is a leader, and closed tasks when there is an average;
\* leaders are no more than asked for, and each detail appears once.
ReportsAddUp ==
    \A r \in Reporters :
        report[r].code = "ok" =>
            LET closed == Total({x \in OfType(r, "status_stats") : x.detail \in Closing})
                led == Total(OfType(r, "top3_assignees"))
                average == Total(OfType(r, "avg_close_days"))
            IN  /\ led <= closed
                /\ led > 0 => average > 0
                /\ average > 0 => closed > 0
                /\ Cardinality(OfType(r, "top3_assignees")) <= Top
                /\ \A x, y \in report[r].metrics :
                     x.type = y.type /\ x.detail = y.detail => x = y

\* TS.md:41-42, README.md:139: the report is for the owner and the admins, and shows
\* nothing of other teams: as many tasks and comments as the team has when it is
\* asked for, to somebody entitled by the tables at that moment, whatever the token
\* says.  None of the four parts of the statement is an answer to anybody else.
ReportsShowTheTeam ==
    [][\A r \in Reporters : report[r].code = "none" /\ report'[r].code = "ok" =>
         LET m == report[r].team
             rows == {t \in TaskIds : task[t] # NoTask /\ task[t].team = m}
             of(type) == {x \in report'[r].metrics : x.type = type}
         IN  /\ role[m][report'[r].user] \in {"owner", "admin"}
             /\ Total(of("status_stats")) = Cardinality(rows)
             /\ Total(of("total_comments")) = SumFunction([t \in rows |-> task[t].comments])]_vars

-----------------------------------------------------------------------------
\* TS.md:87-94, api.go:235: the team's report is what the owner or an admin gets;
\* nothing in the team's tasks makes it impossible.
ReportsCanBeMade == \A r \in Reporters : report[r].code # "error"
=============================================================================
