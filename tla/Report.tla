------------------------------- MODULE Report --------------------------------
(***************************************************************************)
(* The statement of GET /teams/{id}/stats as a function of the tables, and *)
(* what Go makes of its rows.  A task is abstracted to what it counts.     *)
(***************************************************************************)
EXTENDS Naturals, FiniteSets, FiniteSetsExt, Functions

CONSTANTS
    Users, Teams, TaskIds,
    Status,
    NoUser,          \* NULL in assignee_id, and in what is joined to it
    NoTask,
    Top              \* how many assignees the report names: 3 in the code

ASSUME ReportAssumption ==
    /\ Status \subseteq {"todo", "in_progress", "done", "cancelled"}
    /\ IsFiniteSet(Users) /\ IsFiniteSet(TaskIds)
    /\ NoUser \notin Users /\ Top \in Nat

Closing == {"done", "cancelled"} \cap Status

\* closed: closed_at is NULL, in the last 30 days, or before.
Task == [team: Teams, assignee: Users \cup {NoUser}, status: Status,
         closed: {"never", "recent", "old"}, comments: Nat]

ASSUME NoTaskAssumption == NoTask \notin Task

\* detail is a status, a user, or fixed; value counts.
Metric == [type: {"status_stats", "top3_assignees", "avg_close_days", "total_comments"},
           detail: Status \cup Users \cup {"all", ""}, value: Nat]

-----------------------------------------------------------------------------
(* The common table expressions, over the rows of the team's tasks          *)

Access(mem, u) == mem[u] \in {"owner", "admin"}

StatusStats(rows) ==
    {[type |-> "status_stats", detail |-> s, value |-> Quantify(rows, LAMBDA t : t.row.status = s)] :
        s \in {t.row.status : t \in rows}}

\* Tasks closed in the last 30 days, and those of one assignee, or of none.
Recent(rows) == {t \in rows : t.row.closed = "recent"}
Load(rows, as) == Quantify(Recent(rows), LAMBDA t : t.row.assignee = as)

\* ORDER BY value DESC LIMIT 3: among equals the database chooses.
Leaders(rows) ==
    LET groups == {t.row.assignee : t \in Recent(rows)}
        n == IF Cardinality(groups) < Top THEN Cardinality(groups) ELSE Top
    IN  {g \in kSubset(n, groups) : \A a \in g, o \in groups \ g : Load(rows, o) <= Load(rows, a)}

TopAssignees(rows, leaders) ==
    {[type |-> "top3_assignees", detail |-> as, value |-> Load(rows, as)] : as \in leaders}

\* NULL, which value shows as 0, or at least one day (DATEDIFF + 1), shown as 1.
AvgCloseDays(rows) ==
    {[type |-> "avg_close_days", detail |-> "all",
      value |-> IF \E t \in rows : t.row.closed # "never" THEN 1 ELSE 0]}

TotalComments(rows) ==
    {[type |-> "total_comments", detail |-> "", value |-> SumFunction([t \in rows |-> t.row.comments])]}

\* CROSS JOIN access, in each of the expressions.
Accessible(mem, u, rows) == IF Access(mem, u) THEN rows ELSE {}

Rows_SingleJoin(mem, u, rows, leaders) ==
    LET seen == Accessible(mem, u, rows)
    IN  StatusStats(seen) \cup TopAssignees(seen, leaders) \cup AvgCloseDays(seen)
          \cup TotalComments(seen)

\* UNION ALL.  An aggregate without GROUP BY has a row even of no tasks: the other
\* two are joined with access once more.
Rows(mem, u, rows, leaders) ==
    LET seen == Accessible(mem, u, rows)
    IN  StatusStats(seen) \cup TopAssignees(seen, leaders)
          \cup (IF Access(mem, u) THEN AvgCloseDays(seen) \cup TotalComments(seen) ELSE {})

-----------------------------------------------------------------------------
(* GenReport                                                               *)

ScanFails_Never(metrics) == FALSE

\* Detail is a string, and NULL does not go into one.  Value may be NULL.
ScanFails(metrics) == \E x \in metrics : x.detail = NoUser

\* fixStatus only names the statuses.
Answer(metrics) ==
    IF ScanFails(metrics) THEN [code |-> "error", metrics |-> {}]
    ELSE IF metrics = {} THEN [code |-> "forbidden", metrics |-> {}]
    ELSE [code |-> "ok", metrics |-> metrics]
=============================================================================
