---------------------------- MODULE TeamReading ------------------------------
(***************************************************************************)
(* GET /teams and GET /teams/{id}/stats among the requests that change what *)
(* they show.  A list is up to three statements without a transaction; a    *)
(* report is a single one.  Members and tasks appear and change around them *)
(* as TeamAccess and TaskUpdate let them.                                   *)
(***************************************************************************)
EXTENDS Report, Merging, SequencesExt

CONSTANTS
    Listers, Reporters,      \* requests for the list, requests for a report
    Scenarios,               \* bound: which of them come together
    MaxComments              \* bound: comments, together

ASSUME TeamIdsAssumption == Teams \subseteq Nat /\ IsFiniteSet(Teams)
ASSUME MaxCommentsAssumption == MaxComments \in Nat
ASSUME ScenariosAssumption == Scenarios \subseteq SUBSET (Listers \cup Reporters)

VARIABLES
    role,            \* team_members: role[team][user]
    task,            \* tasks
    list, report     \* the requests

vars == <<role, task, list, report>>

-----------------------------------------------------------------------------
Roles == {"none", "owner", "admin", "member"}

Member == [team: Teams, user: Users, role: Roles \ {"none"}]

\* ids: the teams found.  Auxiliary: fetched, the rows of the other statements.
List == [pc: {"idle", "teams", "members", "tasks", "done"}, user: Users \cup {NoUser},
         withMembers: BOOLEAN, withTasks: BOOLEAN, ids: Seq(Teams),
         members: [Teams -> Seq(Member)], tasks: [Teams -> Seq(TaskIds)],
         fetchedMembers: SUBSET Member, fetchedTasks: SUBSET TaskIds,
         code: {"none", "ok", "bad_request", "error"}]

Reporting == [pc: {"idle", "done"}, user: Users \cup {NoUser}, team: Teams,
              code: {"none", "ok", "forbidden", "error"}, metrics: SUBSET Metric]

Nothing == [m \in Teams |-> <<>>]

NewList == [pc |-> "idle", user |-> NoUser, withMembers |-> FALSE, withTasks |-> FALSE,
            ids |-> <<>>, members |-> Nothing, tasks |-> Nothing,
            fetchedMembers |-> {}, fetchedTasks |-> {}, code |-> "none"]

Init ==
    /\ role = [m \in Teams |-> [u \in Users |-> "none"]]
    /\ task = [t \in TaskIds |-> NoTask]
    /\ \E here \in Scenarios :
         /\ list = [l \in Listers |-> [NewList EXCEPT !.pc = IF l \in here THEN "idle" ELSE "done"]]
         /\ report \in [Reporters -> {[pc |-> IF here \cap Reporters = {} THEN "done" ELSE "idle",
                user |-> NoUser, team |-> m, code |-> "none", metrics |-> {}] : m \in Teams}]

Committed == {t \in TaskIds : task[t] # NoTask}

\* The rows a statement finds for team m.
TasksOf(m) == {[id |-> t, row |-> task[t]] : t \in {o \in Committed : task[o].team = m}}

-----------------------------------------------------------------------------
(* The writers, as committed                                               *)

\* POST /teams: the team and its owner at once.
Found ==
    /\ \E m \in Teams, u \in Users :
         /\ \A o \in Users : role[m][o] = "none"
         /\ role' = [role EXCEPT ![m][u] = "owner"]
    /\ UNCHANGED <<task, list, report>>

\* POST /teams/{id}/invite
Invite ==
    /\ \E m \in Teams, by \in Users, u \in Users, new \in {"admin", "member"} :
         /\ role[m][u] = "none"
         /\ role[m][by] = "owner" \/ (role[m][by] = "admin" /\ new = "member")
         /\ role' = [role EXCEPT ![m][u] = new]
    /\ UNCHANGED <<task, list, report>>

MembersOf(m) == {u \in Users : role[m][u] # "none"}

\* Somebody is still going to look at what the tasks are like.
Looked == \E r \in Reporters : report[r].pc = "idle"

\* POST /tasks: whatever its status, closed_at is NULL.
Publish ==
    /\ \E t \in TaskIds \ Committed, m \in Teams, s \in Status :
         \E as \in MembersOf(m) \cup {NoUser} :
           /\ MembersOf(m) # {}
           /\ task' = [task EXCEPT ![t] =
                [team |-> m, assignee |-> as, status |-> s, closed |-> "never", comments |-> 0]]
    /\ UNCHANGED <<role, list, report>>

ClosedAfter_Keep(row, s) == IF s \in Closing /\ s # row.status THEN "recent" ELSE row.closed

\* PUT /tasks/{id}: closed_at follows the status (TaskRules!ClosedAt).
ClosedAfter(row, s) ==
    IF s = row.status THEN row.closed ELSE IF s \in Closing THEN "recent" ELSE "never"

Move ==
    /\ Looked
    /\ \E t \in Committed, s \in Status :
         \E as \in MembersOf(task[t].team) \cup {NoUser} :
           task' = [task EXCEPT ![t].status = s, ![t].assignee = as,
                                ![t].closed = ClosedAfter(task[t], s)]
    /\ UNCHANGED <<role, list, report>>

\* POST /tasks/{id}/comments: one INSERT, maybe of several rows (TaskReading!Selected).
Comment ==
    /\ Looked
    /\ \E t \in Committed, n \in 1..MaxComments :
         /\ MapThenSumSet(LAMBDA o : task[o].comments, Committed) + n <= MaxComments
         /\ task' = [task EXCEPT ![t].comments = @ + n]
    /\ UNCHANGED <<role, list, report>>

\* Thirty days go by.
Age ==
    /\ Looked
    /\ \E t \in Committed :
         task[t].closed = "recent" /\ task' = [task EXCEPT ![t].closed = "old"]
    /\ UNCHANGED <<role, list, report>>

-----------------------------------------------------------------------------
(* GET /teams?with_members&with_tasks                                      *)

\* parseListRequest: the parameters are true, false, or a 400.
ListStart(l) ==
    /\ list[l].pc = "idle"
    /\ \/ \E u \in Users, wm, wt \in BOOLEAN :
            list' = [list EXCEPT ![l].pc = "teams", ![l].user = u,
                                 ![l].withMembers = wm, ![l].withTasks = wt]
       \/ list' = [list EXCEPT ![l].pc = "done", ![l].code = "bad_request"]
    /\ UNCHANGED <<role, task, report>>

TeamsOf_Everybody(u) == {m \in Teams : MembersOf(m) # {}}

\* storage.List, sorted by id.
TeamsOf(u) == {m \in Teams : role[m][u] # "none"}

InOrder(teams) == OrderBy(teams, [m \in teams |-> m])

\* The request after a statement: on to the next one asked for, or answered.
Then(x, rest) ==
    LET asked == rest \cap ((IF x.withMembers THEN {"members"} ELSE {})
                               \cup (IF x.withTasks THEN {"tasks"} ELSE {}))
    IN  IF x.ids = <<>> \/ asked = {} THEN [x EXCEPT !.pc = "done", !.code = "ok"]
        ELSE [x EXCEPT !.pc = IF "members" \in asked THEN "members" ELSE "tasks"]

ListTeams(l) ==
    /\ list[l].pc = "teams"
    /\ list' = [list EXCEPT ![l] =
          Then([@ EXCEPT !.ids = InOrder(TeamsOf(list[l].user))], {"members", "tasks"})]
    /\ UNCHANGED <<role, task, report>>

\* GetMembers and GetTasks: ... IN (...) ORDER BY team_id.
MemberRows(ids) ==
    {[team |-> m, user |-> u, role |-> role[m][u]] : m \in ids, u \in Users}
        \ {[team |-> m, user |-> u, role |-> "none"] : m \in ids, u \in Users}

ListMembers(l) ==
    LET x == list[l]
        found == MemberRows(ToSet(x.ids))
        rows == OrderBy(found, [r \in found |-> r.team])
        keys == [i \in DOMAIN rows |-> rows[i].team]
    IN  /\ x.pc = "members"
        /\ list' = [list EXCEPT ![l] =
              Then([@ EXCEPT !.members = Collect(x.ids, keys, rows, Nothing), !.fetchedMembers = found],
                    {"tasks"})]
        /\ UNCHANGED <<role, task, report>>

ListTasks(l) ==
    LET x == list[l]
        found == {t \in Committed : task[t].team \in ToSet(x.ids)}
        rows == OrderBy(found, [t \in found |-> task[t].team])
        keys == [i \in DOMAIN rows |-> task[rows[i]].team]
    IN  /\ x.pc = "tasks"
        /\ list' = [list EXCEPT ![l] =
              Then([@ EXCEPT !.tasks = Collect(x.ids, keys, rows, Nothing), !.fetchedTasks = found], {})]
        /\ UNCHANGED <<role, task, report>>

\* An error of any of the statements is the answer.
ListFails(l) ==
    /\ list[l].pc \in {"teams", "members", "tasks"}
    /\ list' = [list EXCEPT ![l].pc = "done", ![l].code = "error"]
    /\ UNCHANGED <<role, task, report>>

-----------------------------------------------------------------------------
(* GET /teams/{id}/stats                                                   *)

\* token: whether the roles in the token let the user pass.  They may say anything,
\* for README.md:139 has the tables decide whatever is in the token.  The statement
\* itself does not fail here.
GenReport(r) ==
    LET m == report[r].team
        rows == TasksOf(m)
    IN  /\ report[r].pc = "idle"
        /\ \E u \in Users, token \in BOOLEAN :
           \E leaders \in Leaders(Accessible(role[m], u, rows)) :
             LET a == IF token THEN Answer(Rows(role[m], u, rows, leaders))
                      ELSE [code |-> "forbidden", metrics |-> {}]
             IN  report' = [report EXCEPT ![r].pc = "done", ![r].user = u,
                                          ![r].code = a.code, ![r].metrics = a.metrics]
        /\ UNCHANGED <<role, task, list>>

\* Everybody has been answered.
Quiet ==
    /\ \A l \in Listers : list[l].pc = "done"
    /\ \A r \in Reporters : report[r].pc = "done"
    /\ UNCHANGED vars

Next ==
    \/ Found \/ Invite \/ Publish \/ Move \/ Comment \/ Age
    \/ \E l \in Listers : ListStart(l) \/ ListTeams(l) \/ ListMembers(l) \/ ListTasks(l) \/ ListFails(l)
    \/ \E r \in Reporters : GenReport(r)
    \/ Quiet

Spec == Init /\ [][Next]_vars
=============================================================================
