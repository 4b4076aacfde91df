---------------------------- MODULE TaskReading ------------------------------
(***************************************************************************)
(* Comments and readers: POST /tasks/{id}/comments, GET /tasks/{id} with   *)
(* comments or history, and a client that walks through GET /tasks page by *)
(* page, each page merged from two statements.                             *)
(*                                                                         *)
(* Tasks appear and change around them as TaskUpdate lets them: an id is   *)
(* given by the INSERT and visible from the COMMIT on, and a task at       *)
(* version v has v - 1 events (TaskProofs!VersionsCounted).  Pages come    *)
(* from the database; how much older the cache may make them is the        *)
(* subject of TaskListCache.                                               *)
(***************************************************************************)
EXTENDS Integers, FiniteSets, Sequences, SequencesExt, Merging

CONSTANTS
    Users, Teams, TaskIds,
    NoUser, NoTask,              \* model values: nobody, no such row
    Adders, Getters, Walkers,    \* requests that comment, that get; clients that walk
    Scenarios,                   \* bound: which of them come together
    MaxChanges,                  \* bound: how often tasks change, together
    MaxInt                       \* the largest value of Go's int

ASSUME ScenariosAssumption == Scenarios \subseteq SUBSET (Adders \cup Getters \cup Walkers)

ASSUME NumbersAssumption ==
    TaskIds \subseteq Nat \ {0} /\ IsFiniteSet(TaskIds) /\ MaxInt \in Nat \ {0}

VARIABLES
    task,            \* tasks, committed
    issued,          \* the ids given to tasks: open, committed or rolled back
    comment,         \* task_comments, committed
    lastComment,     \* its AUTO_INCREMENT
    adding, getting, walking

vars == <<task, issued, comment, lastComment, adding, getting, walking>>

-----------------------------------------------------------------------------
\* editors: owner, admins, creator and assignee (TaskRules!CapacitiesOf).
Task == [team: Teams, version: Nat \ {0}, editors: SUBSET Users \ {{}}]

ASSUME NoTaskAssumption == NoTask \notin Task

\* Auxiliary: entitled, whether the author could edit the task then.
Comment == [id: Nat, task: TaskIds, user: Users, entitled: BOOLEAN]

\* rows: inserted, not committed.  first: LastInsertId.
Adding == [pc: {"idle", "read", "commit", "done"}, id: TaskIds \cup {0}, user: Users \cup {NoUser},
           rows: SUBSET Comment, first: Nat, answer: SUBSET Comment,
           code: {"none", "created", "forbidden", "error"}]

\* extra: the list asked for with the task.  todo: the statements of service.Get
\* still to come.
Statements == {"task", "comments", "history"}
Getting == [pc: {"idle", "reading", "done"}, id: TaskIds \cup {0},
            extra: {"none", "comments", "history"}, todo: Seq(Statements),
            version: Nat, events: Nat, comments: SUBSET Comment,
            code: {"none", "ok", "not_found", "error"}]

\* seen: the ids of all pages; page: the last one.  Auxiliary: known, the tasks
\* committed when the walk began; fetched, the comments of the last page.
Walking == [pc: {"idle", "list", "comments", "done"}, team: Teams, limit: 1..MaxInt, cursor: TaskIds \cup {0},
            seen: Seq(TaskIds), page: Seq(TaskIds), merged: [TaskIds -> Seq(Comment)],
            known: SUBSET TaskIds, fetched: SUBSET Comment, code: {"none", "ok", "error"}]

Committed == {t \in TaskIds : task[t] # NoTask}

\* How many rows task_history has for t: one for each change committed.
EventsOf(t) == IF t \in Committed THEN task[t].version - 1 ELSE 0

NoComments == [t \in TaskIds |-> <<>>]

Init ==
    /\ task = [t \in TaskIds |-> NoTask]
    /\ issued = {}
    /\ comment = {}
    /\ lastComment = 0
    /\ \E here \in Scenarios, team \in [Walkers -> Teams], limit \in [Walkers -> 1..MaxInt] :
         /\ adding = [a \in Adders |->
              [pc |-> IF a \in here THEN "idle" ELSE "done", id |-> 0, user |-> NoUser,
               rows |-> {}, first |-> 0, answer |-> {}, code |-> "none"]]
         /\ getting = [g \in Getters |->
              [pc |-> IF g \in here THEN "idle" ELSE "done", id |-> 0, extra |-> "none",
               todo |-> <<>>, version |-> 0, events |-> 0, comments |-> {}, code |-> "none"]]
         /\ walking = [w \in Walkers |->
              [pc |-> IF w \in here THEN "idle" ELSE "done", team |-> team[w],
               limit |-> limit[w], cursor |-> 0, seen |-> <<>>, page |-> <<>>,
               merged |-> NoComments, known |-> {}, fetched |-> {}, code |-> "none"]]

-----------------------------------------------------------------------------
(* The writers                                                             *)

\* The INSERT of POST /tasks takes the next id.
Open ==
    /\ \E t \in TaskIds \ issued :
         /\ \A o \in TaskIds \ issued : t <= o
         /\ issued' = issued \cup {t}
    /\ UNCHANGED <<task, comment, lastComment, adding, getting, walking>>

NewTask_VersionZero(m, editors) == [team |-> m, version |-> 0, editors |-> editors]

NewTask(m, editors) == [team |-> m, version |-> 1, editors |-> editors]

\* ... and its COMMIT, in any order, or never.
Publish ==
    /\ \E t \in issued \ Committed, m \in Teams, editors \in SUBSET Users \ {{}} :
         task' = [task EXCEPT ![t] = NewTask(m, editors)]
    /\ UNCHANGED <<issued, comment, lastComment, adding, getting, walking>>

\* PUT /tasks/{id}, as committed: it may change the assignee.
Alter ==
    /\ \E t \in Committed, editors \in SUBSET Users \ {{}} :
         /\ MapThenSumSet(EventsOf, Committed) < MaxChanges
         /\ task' = [task EXCEPT ![t].version = @ + 1, ![t].editors = editors]
    /\ UNCHANGED <<issued, comment, lastComment, adding, getting, walking>>

-----------------------------------------------------------------------------
(* POST /tasks/{id}/comments                                               *)

\* The tasks the SELECT of the INSERT finds: its WHERE does not name one.
Selected(u, id) == {t \in Committed : u \in task[t].editors}

\* One comment of the requested task per row selected; LastInsertId is the id of
\* the first.  An id without task is refused by the foreign key.
AddInsert(a) ==
    /\ adding[a].pc = "idle"
    /\ \E u \in Users, id \in TaskIds :
         LET n == Cardinality(Selected(u, id))
             row(i) == [id |-> lastComment + i, task |-> id, user |-> u,
                        entitled |-> id \in Committed /\ u \in task[id].editors]
         IN  IF n = 0 \/ id \notin Committed
             THEN /\ adding' = [adding EXCEPT ![a].pc = "done",
                                    ![a].code = IF n = 0 THEN "forbidden" ELSE "error"]
                  /\ UNCHANGED lastComment
             ELSE /\ adding' = [adding EXCEPT ![a].pc = "read", ![a].id = id, ![a].user = u,
                                    ![a].rows = {row(i) : i \in 1..n},
                                    ![a].first = lastComment + 1]
                  /\ lastComment' = lastComment + n
    /\ UNCHANGED <<task, issued, comment, getting, walking>>

ReadBack_Newest(a) ==
    LET all == {c \in comment \cup adding[a].rows : c.task = adding[a].id}
    IN  {c \in all : \A o \in all : o.id <= c.id}

\* GetCommentByID in the transaction, which sees its own rows.
ReadBack(a) == {c \in comment \cup adding[a].rows : c.id = adding[a].first}

AddRead(a) ==
    /\ adding[a].pc = "read"
    /\ adding' = [adding EXCEPT ![a].pc = "commit", ![a].answer = ReadBack(a)]
    /\ UNCHANGED <<task, issued, comment, lastComment, getting, walking>>

\* COMMIT; its answer may be lost.
AddCommit(a) ==
    /\ adding[a].pc = "commit"
    /\ comment' = comment \cup adding[a].rows
    /\ \E code \in {"created", "error"} :
         adding' = [adding EXCEPT ![a].pc = "done", ![a].code = code]
    /\ UNCHANGED <<task, issued, lastComment, getting, walking>>

\* Any error before it: the transaction is rolled back.
AddFail(a) ==
    /\ adding[a].pc # "done"
    /\ adding' = [adding EXCEPT ![a].pc = "done", ![a].code = "error"]
    /\ UNCHANGED <<task, issued, comment, lastComment, getting, walking>>

-----------------------------------------------------------------------------
(* GET /tasks/{id}/comments and /tasks/{id}/history                        *)

Order_TaskLast(extra) == <<extra, "task">>

\* Separate statements, outside a transaction; only the first looks at rights.
Order(extra) == <<"task", extra>>

Get(g) ==
    /\ getting[g].pc = "idle"
    /\ \E id \in TaskIds, extra \in {"comments", "history"} :
         getting' = [getting EXCEPT ![g].pc = "reading", ![g].id = id,
                                   ![g].extra = extra, ![g].todo = Order(extra)]
    /\ UNCHANGED <<task, issued, comment, lastComment, adding, walking>>

CommentsOf(ids) == {c \in comment : c.task \in ids}

\* A request after its next statement; after the last it is answered.
Advanced(x) == IF Len(x.todo) = 1
               THEN [x EXCEPT !.todo = <<>>, !.pc = "done", !.code = "ok"]
               ELSE [x EXCEPT !.todo = Tail(@)]

Reads(g, statement) == getting[g].pc = "reading" /\ Head(getting[g].todo) = statement

GetTask(g) ==
    LET t == getting[g].id IN
    /\ Reads(g, "task")
    /\ \/ /\ t \in Committed
          /\ getting' = [getting EXCEPT ![g] = Advanced([@ EXCEPT !.version = task[t].version])]
       \/ \* no such task, or the user is not in its team
          getting' = [getting EXCEPT ![g].pc = "done", ![g].code = "not_found"]
    /\ UNCHANGED <<task, issued, comment, lastComment, adding, walking>>

GetComments(g) ==
    /\ Reads(g, "comments")
    /\ getting' = [getting EXCEPT ![g] = Advanced([@ EXCEPT !.comments = CommentsOf({getting[g].id})])]
    /\ UNCHANGED <<task, issued, comment, lastComment, adding, walking>>

GetHistory(g) ==
    /\ Reads(g, "history")
    /\ getting' = [getting EXCEPT ![g] = Advanced([@ EXCEPT !.events = EventsOf(getting[g].id)])]
    /\ UNCHANGED <<task, issued, comment, lastComment, adding, walking>>

GetFails(g) ==
    /\ getting[g].pc = "reading"
    /\ getting' = [getting EXCEPT ![g].pc = "done", ![g].code = "error"]
    /\ UNCHANGED <<task, issued, comment, lastComment, adding, walking>>

-----------------------------------------------------------------------------
(* Walking through GET /tasks?team_id&limit&cursor&with_comments           *)

\* ORDER BY task_id, created_at; when a comment was made is not modelled.
Sorted(cs) == OrderBy(cs, [c \in cs |-> c.task])

\* limit + 1 in an int.
Plus1(n) == IF n = MaxInt THEN -MaxInt - 1 ELSE n + 1

Walk(w) ==
    /\ walking[w].pc = "idle"
    /\ walking' = [walking EXCEPT ![w].pc = "list",
                      ![w].known = {t \in Committed : task[t].team = walking[w].team}]
    /\ UNCHANGED <<task, issued, comment, lastComment, adding, getting>>

NextCursor_Last(got, limit) == IF Len(got) > limit THEN got[limit] ELSE 0

\* One task more than asked for tells where the next page begins.
NextCursor(got, limit) == IF Len(got) > limit THEN got[limit + 1] ELSE 0

\* storage.List; a negative LIMIT is a syntax error.
WalkList(w) ==
    LET x == walking[w]
        found == {t \in Committed : task[t].team = x.team /\ t >= x.cursor}
        rows == OrderBy(found, [t \in found |-> t])
        got == SubSeq(rows, 1, IF Plus1(x.limit) < Len(rows) THEN Plus1(x.limit) ELSE Len(rows))
        page == SubSeq(got, 1, IF x.limit < Len(got) THEN x.limit ELSE Len(got))
    IN  /\ x.pc = "list"
        /\ IF Plus1(x.limit) < 0
           THEN walking' = [walking EXCEPT ![w].pc = "done", ![w].code = "error"]
           ELSE IF got = <<>>
           THEN walking' = [walking EXCEPT ![w].pc = "done", ![w].code = "ok", ![w].cursor = 0]
           ELSE walking' = [walking EXCEPT ![w].pc = "comments", ![w].page = page,
                                ![w].seen = @ \o page,
                                ![w].cursor = NextCursor(got, x.limit)]
        /\ UNCHANGED <<task, issued, comment, lastComment, adding, getting>>

\* The key of each row.
TaskOf(cs) == [i \in DOMAIN cs |-> cs[i].task]

\* GetComments and collectComments; with no next cursor this page was the last.
WalkComments(w) ==
    LET x == walking[w]
        fetched == CommentsOf(ToSet(x.page))
        rows == Sorted(fetched)
    IN  /\ x.pc = "comments"
        /\ walking' = [walking EXCEPT ![w].fetched = fetched,
               ![w].merged = Collect(x.page, TaskOf(rows), rows, NoComments),
               ![w].pc = IF x.cursor = 0 THEN "done" ELSE "list",
               ![w].code = IF x.cursor = 0 THEN "ok" ELSE "none"]
        /\ UNCHANGED <<task, issued, comment, lastComment, adding, getting>>

WalkFails(w) ==
    /\ walking[w].pc \in {"list", "comments"}
    /\ walking' = [walking EXCEPT ![w].pc = "done", ![w].code = "error"]
    /\ UNCHANGED <<task, issued, comment, lastComment, adding, getting>>

\* Everybody has been answered.
Quiet ==
    /\ \A a \in Adders : adding[a].pc = "done"
    /\ \A g \in Getters : getting[g].pc = "done"
    /\ \A w \in Walkers : walking[w].pc = "done"
    /\ UNCHANGED vars

Next ==
    \/ Open \/ Publish \/ Alter
    \/ \E a \in Adders : AddInsert(a) \/ AddRead(a) \/ AddCommit(a) \/ AddFail(a)
    \/ \E g \in Getters : Get(g) \/ GetTask(g) \/ GetComments(g) \/ GetHistory(g) \/ GetFails(g)
    \/ \E w \in Walkers : Walk(w) \/ WalkList(w) \/ WalkComments(w) \/ WalkFails(w)
    \/ Quiet

Spec == Init /\ [][Next]_vars
=============================================================================
