# Verification of the team tasks service

TLA+ models of the service in `src/` (a Go HTTP API over MariaDB and Redis, run in
several replicas), checked with TLC and proved with TLAPS. The source is the
reference: a definition translates the lines that the `map` of `PROJECT.json` names.

## The system

| Component | State it keeps | Operations | What is hard |
|---|---|---|---|
| Task creation and update (`features/tasks/service.go`, `storage.go`, `db/db.go`) | tables `tasks`, `task_history` | `Create`, `Update` | the task is read and judged outside the transaction that writes it; version, rights and assignee are looked at again by the UPDATE; row and event are two statements; a COMMIT may be lost |
| Task list cache (`features/tasks/service.go`, `cache.go`) | a Redis hash per team, a singleflight group per replica | `List`, and the invalidation at the end of `Create` and `Update` | late puts, failing Dels, shared flights, shared slices, cancelled leaders, crashes |
| Teams, accounts, tokens (`features/teams`, `features/sign`, `lib/auth`) | `users`, `teams`, `team_members`; tokens, which live at the clients | `Register`, `Login`, `teams.Create`, `teams.AddMember` | a token is a snapshot of the roles; a team and its owner are two rows |
| Comments (`service.go:515`, `storage.go:372`) | `task_comments` | `AddComment`, `GetCommentByID` | which task the INSERT selects from; several rows at once |
| Reading and merging (`collectComments`, `collectHistory`, `collectMembers`, `collectTasks`) | none | `Get`, `List`, `teams.List` | several statements without a transaction; a one-pass merge of two sorted lists |
| List pagination | none | `List` with cursor and limit | ids commit out of order; `limit+1` |
| List of teams, report (`teams/service.go`, `sql_report.go`) | none | `teams.List`, `GenReport` | NULLs, the access CTE, tasks closed at creation |
| Circuit breaker (`db/breaker.go`, `exec.go`, `errors.go`) | gobreaker's counts and state | `Execute` around every statement or transaction | which errors are failures, successes or neither; late outcomes |
| Server (`cmd/server/main.go`) | listener, connections, pools, exit code | start, request timeout, shutdown | a shutdown that gives up on running handlers; a listener that fails |
| Rate limiter, error mapping, logging, configuration, enumerations | - | - | nothing a state machine shows |

How they interact: a request passes the limiter, gets a deadline, a logger and the
user of its token. Handlers of all replicas meet in MariaDB (row and key locks,
committed rows) and in Redis (the hash of a team). Within one replica, list requests
meet in the singleflight group, and every statement and transaction in the breaker.
The teams component feeds the others: the table `team_members` decides in the
statements of the tasks component, the token's roles decide before them. A writer's
last step is the Del of the team's hash. The server takes the database and Redis away
from all of them when it ends.

What makes each component correct is stated as the properties below; what is hard
to test is listed with its line under `hazards` in `PROJECT.json`.

## Modules

| Module | Role |
|---|---|
| `TaskRules` | the pure decisions: what changed, which capacities allow it, `closed_at`, the WHERE of the UPDATE, NULL and explicit null |
| `TaskUpdate` | POST and PUT of tasks as concurrent processes over the database |
| `TaskLedger` | abstract: a task is created by a member and then changes in single, recorded, permitted steps |
| `TaskSafety` | invariants, the inductive invariant, liveness and refinement of `TaskUpdate` |
| `TaskProofs` | proofs about `TaskUpdate`: the inductive invariant; the refinement; what the history tells |
| `TaskListCache` | GET of a team's list: flights, hash, TTL, invalidation, faults |
| `TaskListSafety`, `TaskListProofs` | its properties, its inductive invariant, and what the documents claim of it; the proofs |
| `TeamAccess` | accounts, teams, roles, tokens |
| `Membership` | abstract: a team appears with its owner and then lets members in one by one, by the rights of the moment |
| `TeamSafety`, `TeamProofs` | properties of `TeamAccess`, its refinement, and proofs |
| `TaskReading` | comments, single reads, and a walk through the pages of a list |
| `TaskReadingSafety`, `TaskReadingProofs` | its properties and proofs |
| `Merging`, `MergingProofs` | ORDER BY, and the two-pointer merge, a function of two sorted lists; what they compute for every list |
| `Report` | the report's SQL as a function of the tables, and what Go makes of its rows |
| `TeamReading`, `TeamReadingSafety`, `TeamReadingProofs` | list of teams and report among the writers; what they may be relied on for; proofs |
| `Breaker` | the classification of errors, and gobreaker as configured |
| `BreakerSafety`, `BreakerProofs` | when it may open and close, that it recovers; proofs |
| `Server` | a replica from start to exit |
| `ServerSafety`, `ServerProofs` | what its end may do to requests; proofs |
| `MC...` | instances for TLC: symmetry sets, and constants a configuration cannot write |

`TaskReading` and `TeamReading` both use `Merging`, `TeamReading` composes it with
`Report`. A definition `X_Y` is `X` with a mistake `Y` in it: nothing uses it, and putting it
in the place of `X` makes a run fail.

### TaskUpdate and TaskRules

`task` and `history` are the committed tables, `role` is `team_members`, `lock` and
`tx` stand for open transactions, `pc` and `plan` for a handler and its locals, `resp`
for the answer. One action per step of the handlers: `CreateBegin` and `UpdateBegin`
read and decide (`service.go:215-228`, `403-470`), `TxInsert`/`TxInsertRefused`,
`TxUpdate`, `TxHistory`, `TxRead`, `TxCommit` are the statements of the transaction,
`Fail` is any error before COMMIT with the deferred Rollback, `TxCommitLost` the COMMIT
that took effect without its answer, `Respond` the logged-only cache invalidation and
the answer. `AddMember` is the environment: memberships as `TeamAccess` grants them.

A statement is atomic and sees committed rows and its own transaction's; a written row
stays locked until the transaction ends, and a statement on it waits. This is what the
code relies on of InnoDB, and all it is assumed to give. Times are named by the version
they belong to (`closed_at` is the version of the update that set it). Texts are model
values; `ExplicitNull` is a JSON `null`, which the code tells apart from a NULL column.

### TaskListCache

The database's content is the number of committed changes, so a list is the number it
shows. `cache` and `ttl` are the team's hash in Redis, `flight` the singleflight map of
each replica, `list` and `write` the requests, `shared` says whether the slice handed
out by a flight has had comments and history written into it. Flights go get, load,
put, deliver as in `getOrLoadTasks`; `Load` needs the leader's context, `LoadFails` is
delivered to everyone. `Collect` writes into the shared slice without
synchronisation, so `Encode` of another request meanwhile may see it before, after or
half-way (Go's data race: a slice header with a length and no array panics). `Crash`
takes the requests and flights of a replica and the Dels it still owed. `CONSTANT
Faults` selects the failures of an instance, `Placements` says where the lists are
asked for and which fields they ask for.

What a request asks for is abstracted to one of `Keys`; that `buildCacheKey` and
`buildCacheField` give different lists different names is taken as read.

Entry field `over`, and `lost` of a change, are auxiliary: no guard reads them.

The model also shows, without a run of its own, four things a reader of the documents
may not expect. A list loaded before a commit may be put after that commit's Del, so a
change that was acknowledged may stay out of the cached list until the hash expires
(the second reason of `StaleForKnownReasons`; `TS.md:106` says that the cache is updated
or invalidated after a change). The TTL belongs to the hash and every `Put` renews it for all fields
(`PutTTL`, `cache.go:57`), so a field may outlive it (`TS.md:105` speaks of a TTL of
five minutes) for as long as requests for other fields keep coming: `StaleEntriesGoAway`
speaks of the time after the last request, and no property bounds the age of a field. A cache hit, or a list from a flight that another user leads, is
answered without a query about the user's rights, on the word of the token
(`README.md:139` promises a check in the database for every request). And a list may
come with comments that its request did not ask for, when another one of its flight did
(`api.go:156` has `with_comments` false by default); `ExtrasWereAskedFor` says how far
that goes.

### TeamAccess

`account`, `creator`, `role` are the three tables, `tokens` all tokens not expired,
`slot` the requests under way, `grantor` an auxiliary record of who gave a role. Login
reads the roles in one step and issues the token in another. The INSERT of a team waits
while another open transaction holds the name. Refusals change nothing and are the
absence of a step.

Memberships only become more. `TS.md:29` gives the owner the right to change roles, and
`README.md:135` speaks of removal, promotion and demotion, but no operation of the code
does any of this, and so none is modelled: there are no properties about it. What is
shown of tokens (`TokensNeverExceed`) rests on it. A token can only be behind by
memberships that were added; with an operation that removes or demotes, it could say too
much, and the answers of the list cache, which have no other check, would go by it.

### TaskReading

`task` and `comment` are the committed tables; `issued` the ids already given by an
INSERT, since ids are given before COMMIT and appear in any order. A task is abstracted
to its team, its version and its `editors`, the users whose capacities
(`TaskRules!CapacitiesOf`) would let them edit it. `adding`, `getting` and `walking`
are the requests that comment, the requests for one task, and clients that follow
`next_cursor` from page to page. `AddInsert`, `AddRead`, `AddCommit`, `AddFail` are the
transaction of `AddComment`; the INSERT's SELECT has no condition on the task's id, and
`Selected` is written that way. `GetTask`, `GetComments`, `GetHistory` are the separate
statements of `service.Get`, `Order` their order. `WalkList` is the query with
`limit + 1` rows (`Plus1` in an int of `MaxInt`), `NextCursor` what becomes of the extra
row, `WalkComments` the second statement and its merge. Row locks between the writers
are left out here: they only forbid some of the orders. The check of the token's roles
before a list is a refusal, and like other refusals it ends a walk in `WalkFails`.

### Merging, Report, TeamReading

The services write the same merge out four times (`collectComments`,
`collectHistory`, `collectMembers`, `collectTasks`); `Merging!Collect` is that loop as a
recursive function: one index over the ids, one over the rows, `End` the end of a run.
`OrderBy` is what the statements' ORDER BY does with the rows found; it is written as a
fold that takes a row with the least key, because a sort chosen among the permutations
(the community modules' `SetToSortSeq`) cannot be expanded in a proof, and says nothing
of rows with equal keys.

`Report` follows the CTEs of `sql_report.go` one by one over rows abstracted to their
team, assignee, status, whether `closed_at` is NULL, recent or old, and the number of
comments; a LEFT JOIN without partner yields `NoUser`, which is NULL. A metric's value
is the number it counts; the average is abstracted to whether there is one, 0 standing for
NULL and 1 for a number of days, which is never less than one (`DATEDIFF + 1`). The
aggregates without GROUP BY have a row even of no tasks, and are joined with the access
CTE a second time; `Rows` has both joins. Sums are `SumFunction` of the community modules.
`ScanFails` is what database/sql does with a NULL for a Go string.

`TeamReading` runs `teams.List` (up to three statements, `ListTeams`, `ListMembers`,
`ListTasks`, any of which may fail) and `GenReport` (one statement) among the committed
effects of `Found`, `Invite`, `Publish`, `Move` and `Comment` (one INSERT, maybe of
several rows), each as the write-side modules let it. The token of a `GenReport` says
anything, also that its user may see the report when the tables do not: `README.md:139`
promises that the tables decide whatever the token says, and that is what
`ReportsShowTheTeam` checks of the statement, though by `TokensNeverExceed` no token says
too much today. `Move` has every status and assignee at once; whether a mover is
entitled is the matter of `TaskUpdate`. `Age` is the thirty days of the report passing for one task. `closed_at`
is NULL for a task created closed, so the report's leaders and average leave such tasks
out while its status counts have them: `ReportsAddUp` states the relation that is left.

### Breaker

`window` is the sequence of requests gobreaker remembers in the present generation, a
handler standing for its call under way and a kind for the outcome of one. `Request`
and `Refuse` are `beforeRequest`, `Finish` is `afterRequest` with the verdict that
`MapMySqlError`, `IsSuccessful` and `IsExcluded` give, `FinishLate` an outcome that
belongs to an earlier generation or has slid out. `Kinds` are the outcomes of a call.
Only an error *of the server* is a failure: a duplicate key is turned into `ErrConflict`
before the breaker sees it, a cancelled request counts as nothing, and a refused or lost
connection, which is no `*mysql.MySQLError`, counts as a *success*. The properties are
stated in terms of the kinds, not of the verdicts. `ClosesAfterProbes` therefore does not
say that the probes were answered: `dot.env.example:86-87` has the circuit close if all
probes succeed and open again if one failed, and in the code a probe that did not reach the
database counts among the successful ones, so that the breaker may close while the
database cannot be reached. It opens at the configured ratio already, `dot.env.example:97`
says when it is exceeded (`при превышении`); `TripsAreDeserved` follows the code. `halfOpenMaxReq` is any configured
int, cast to a uint32 of `Width` values: a negative one becomes a huge number of probes
where `dot.env.example:88` promises one. Two things of the library are left open:
`Slide` drops any number of old requests, and `returned` says whether the slot of an
excluded probe is given back (if not, half-open may last for ever: the hypothesis of
`Recovers`).

### Server

`phase` is main's goroutine, `listener` the goroutine in `ListenAndServe`, `conn` what
each client connection is (`new`: accepted, without a request; `active`: with a running
handler) and `age` for how long. `Signal` may come at any time, `Shutdown` and
`ListenerLost` are the two arms of the select, `Drain` and `GiveUp` the two ends of
`http.Server.Shutdown`, `Exit` the end of the deferred closing. `cut` records which
handlers ran when the database was closed. A handler outlives its deadline by `Overrun`
at most: its statements end with its context, and for what does not, the reading of a body
(`SERVER_READ_TIMEOUT`) and calls of Redis (`REDIS_TIMEOUT`, 5 seconds by default, each),
`Overrun` has to allow. `net/http` lets a connection stay without a request for `NewGrace`
at most.

## What the runs show

| Run | Instance | Result |
|---|---|---|
| `task_race` | 2 users, 3 requests, 1 task, versions up to 2 | no lost update: `HistoryReplays` (the events, replayed from the present, chain without a gap back to the creation), `VersionCountsHistory`, `AcknowledgedIsRecorded` (an answered update is in the history for good), `EventsAuthorized`, `AssigneeIsMember`, the inductive invariant `IInv`; and `LedgerSpec`: the transactions implement `TaskLedger` |
| `task_answers` | 1 user, 3 requests, fairness | every begun request is answered, lock waits end; `closed_at` is the time of the last change of status if that closed the task (one closing status here; a change from one to the other is in the theorem `ClosedAtIsTold`) |
| `list_faults` | 2 replicas, 2 fields, 2 lists, 1 change, all faults, fairness | a cached list misses an acknowledged change only if its Del was lost or the list was put after it by a late flight; flights forget nobody; what is written into a shared slice never reaches Redis; `IInv`; every list request ends, and with no more requests the hash, and what is stale in it, goes away |
| `team_roles` | 3 users, 1 team, 2 handlers | one owner per team; tokens of any age say nothing untrue; grants only by right; `IInv`; and `MembershipSpec`: tables, tokens and transactions implement `Membership` |
| `reading` | 3 tasks, 1 user who may edit all; two comments and a walk of limit 1 to 3, or a comment and a reader | the comment a 201 shows is the sender's and is stored; history answered with a task is never behind its version; a finished walk has met each older task once, in order, whatever appears meanwhile; a page's comments are those of its tasks |
| `team_reading` | 2 users, 2 teams, 2 tasks, 2 statuses; a list, or a report | each team is shown with its members and tasks, the caller among them, one owner each; the metrics of a report agree with each other and, at the moment it is made, with the tables, and it goes to owners and admins only, whatever the token says |
| `breaker` | 3 handlers, a window of 3, half of at least 2 must fail; probes configured -1, 0 or 2; fairness | it opens only for enough errors of the server, closes only after the configured number of probes ended without an error of the server (be it that they did not reach it), and closes for good once the database is well and asked |
| `server` | 2 connections, 4 settings of the timeouts, fairness | exit code 0 means that nobody lost their database; with enough time a signal never takes it from a handler; a signal or a dead listener always ends the process |

Runs whose property the code violates, each a finding in `PROJECT.json`:

| Run | What the code does |
|---|---|
| `task_race_answer` | the loser of two concurrent updates is told 403 where the interface says 409 |
| `list_leader_gone` | one client's disconnect fails the list of others |
| `comments` | who may edit some task may comment on every task |
| `team_report` | tasks without assignee, closed in the last thirty days, make a report a 500 when they are among its leaders |

Bounds. Two racing updates, or an update racing a membership, are enough for each
conflict in the update path, since its guards speak of one task, one plan and the
present row; three requests let a second update see the outcome of a lost one.
`MaxVersion` bounds the version clients send, and with it the number of updates that
can succeed. For the cache the conflicts are between one flight and one change, and
between two requests in one flight; two replicas are needed because flights are per
replica and the hash is common; the second field shows the hash-wide TTL and Del.
`Placed` names the first request's replica and field, which is all the symmetry there is
between them. A team's roles need three users: an owner, an admin,
and somebody to be invited. A walk needs three tasks for a full page, a last page, and a
task that appears behind the cursor; `Scenarios` says which requests come together, and
`MaxChanges` how often the tasks change. A merge needs two ids and two rows: a team
without rows before or after one with several. The report's ties and its limit (`Top`,
here 1) need two assignees; `MaxComments` bounds the comments, and writers stop (`Looked`)
when nobody reads any more. A ratio needs a window of three: below the minimum, at it,
and above; `MaxWindow` bounds what is under way while the breaker is closed, `Width` is
the range of a uint32. Two connections let one end while another begins; time only
matters relative to the three timeouts, of which the four settings are one on each side
of the bound `Roomy`, the defaults' proportion, and zero. The proofs below have none of
these bounds.

Fairness. `TaskUpdate!FairSpec`: weak fairness of the steps of a begun handler: its
goroutine runs and the database serves statements it can serve. Nothing is assumed of
new requests, failures or members. `TaskListCache!FairSpec`: weak fairness of handlers
and flights (a query is answered or fails within the request timeout, Redis within the
5 seconds of the flight's context) and of the clock. Writers and new requests are under
no fairness. `Breaker!FairSpec`: a call ends, by the request timeout at the latest, and
the open timeout passes; that clients keep coming (`Traffic`) is a hypothesis of
`Recovers` alone, as is that the database stays well. `Server!FairSpec`: main's
goroutine and handlers are scheduled, connections without a request are closed in the
end, time passes; nothing is assumed of signals, the listener and the clients.

## What is proved

Every safety property that a run checks is a theorem, for all values of the constants that
satisfy the named assumptions: special values are distinct from users, tasks, requests
and so on; the statuses are among the four of the code; ids of tasks and teams are
numbers; users, teams and tasks are finitely many (`ReportAssumption`,
`TeamIdsAssumption`), since a row can only be counted, or sorted, among finitely many;
handlers are no kinds of outcomes.

* `TaskProofs`: `Inductive` (`Spec => []IInv`), and from it `TypeCorrect`,
  `VersionsCounted`, `AssigneesAreMembers`. The properties are not inductive alone: the
  UPDATE writes what was decided from an earlier read. `IInv` adds that a plan's team and
  old values are those of the row as long as the row has the plan's version
  (`PlanFollowsRow`), that the uncommitted row of a transaction is what its plan makes of
  the committed one, whose lock it holds (`UpdateInTx`, `CreateInTx`, `Locks`), so that
  COMMIT publishes something already valid. One lemma per action.
  `ImplementsLedger` (`Spec => LedgerSpec`). Initial states map to
  initial states; every step either leaves the committed tables alone, or opens a row, or
  edits one with its event (`KindsOfSteps`), and under `IInv` the latter two are `Open` and
  `Edit` of the ledger. Its heart is `EditsRow`: at COMMIT the plan still describes the
  committed row, because the WHERE of the UPDATE had the plan's version and the row has
  been locked since.
  `HistoryTellsAll`, `ClosedAtIsTold`, `EventsWereAuthorized`,
  `NoLostUpdate`. On top of the steps of the ledger: an event appended to the history
  leaves what was said of the earlier ones as it was (the value before event *i* is told by
  the events after it), and `Answers`: what a request has been, or is about to be, told is
  at its place in the history, which only grows. `HInv` joins the three parts.
* `TeamProofs`: `Inductive`, and from it `TokensTellTheTruth`, `OneOwner`, `NoTeamTwice`,
  `NobodyLetsThemselvesIn`. The
  strengthening (`SlotsAreCurrent`) says that roles a login has read are still true, and
  that a team held by a transaction is nobody's yet. `TokensTellTheTruth` is why the
  unchecked answers of the list cache still go to members only.
  `ImplementsMembership` (`Spec => MembershipSpec`): the tables alone behave as
  `Membership` says. A COMMIT founds a team, since by `NamesAreUnique` the name it holds is
  nobody else's (`CommitFounds`); an invitation admits, since the EXISTS of its INSERT asks
  for the right at that moment, not when the token was issued (`InviteAdmits`); all
  else stutters. Besides `IInv` it needs that only accounts hold tokens, have requests
  under way and are members (`Registered`).
* `TaskListProofs`: `Inductive`, and from it `StalenessIsAccountedFor`, `ExtrasStayOut`,
  `HashNeverStays`, `FlightsServeTheirRequests`. The strengthening: a flight's slice is
  untouched until it is delivered, because only requests that have got it write into it
  (`SlicesAreFresh`), each replica has at most one flight per field with one leader that
  waits for it, and a field of the hash is either current or carries the mark of why it
  is not. `ExtrasComeFromSharers` needs one thing more: comments are in a slice only if a
  request that asked for them holds it (`Holding`).
* `MergingProofs`: `OrderByArranges`, `CollectGives`, and `MergeGroups`, which joins them.
  The recursion of `Collect` goes on by one id or by one run of rows, so what is left of
  the two lists is a measure: `MeasureRecursion` says that such a recursion has a
  solution, `MeasureInduction` that what each step preserves holds everywhere
  (`Settled`: from a place on, each id has its part of the rows that are left, provided
  no row before the place was one of its own). No operator is passed to a theorem:
  sets and functions take the place of predicates.
* `TaskReadingProofs`: `CommentsAreStored` and `HistoryIsNotBehind`, each from its own
  invariant. `CommentInv`: numbers of comments are given once and in order, also by open
  transactions, so that the row `LastInsertId` names is the request's own. `ReaderInv`:
  versions only grow, and the history is read after the task. `ReadingIsTyped`,
  `WalksMissNothing` and `PagesKeepTheirComments` follow from `ReadingInv`: a walk has met
  every task that was there at its begin and is behind its cursor, in order and once
  (`Walked`), because the page is the least ids beyond the cursor and the cursor the last
  id it keeps; what a page's merge gave its tasks is what `MergeGroups` says (`Grouped`).
* `TeamReadingProofs`: `TeamReadingIsTyped`, `TeamsKeepTheirOwn`, `CallersAreShown`,
  `MetricsAddUp` and the action property `ReportsAreOfTheTeam`, from `TeamReadingInv`. Of
  the tables it says that a team has nobody or one owner, and that a task with `closed_at`
  has a status that closes (`TablesOK`, `OwnersOK`); every step of a writer keeps that,
  and takes away neither a role nor a task from its team (`Written`), which is why what a
  list has read by its first statement still holds at its second (`ListStays`): the caller
  is among the members though they were read later. Of a list it says what it has found
  so far (`IdsFound`, `MembersFound`, `TasksFound`, `CallerFound`). The report rests on
  sums over finite sets: `SumRule` (a sum does not depend on the order of its terms),
  `GroupsAddUp` (counting group by group and adding is counting), `SameSum`; with them a
  GROUP BY over all rows adds up to all rows (`GroupsTotal`), the leaders' loads to at
  most what is recent, and what is recent is closed.
* `BreakerProofs`: `Inductive`, `TypeCorrect`, `OpensForFaults`, `ClosesForProbes`. The
  library's counts, which are about verdicts, are compared with the properties', which
  are about what the calls came to; a call under way is in the window at most once, and
  half-open remembers no failure. The theorems have the hypothesis that the configured
  numbers fit into a uint32, without which they are false (a large minimum wraps to a
  small one).
* `ServerProofs`: `Inductive`, `SuccessIsDrained`, `EnoughTime`. `DrainIsBounded`: a
  connection still open while the server drains was accepted before the shutdown, so its
  last request began within `NewGrace` of it and ends within its lifetime; the drain is
  over by `NewGrace + RequestTimeout + Overrun`. `EnoughTime` asks for a
  shutdown timeout above that (`Roomy`). The defaults do not have it: 10 s for the shutdown
  are not more than 5 s for a request and the 5 s `net/http` gives a new connection, even
  without any `Overrun`. The theorem says what to configure, not what is configured.

Only model-checked: everything under fairness (`EveryRequestAnswered`,
`EveryListAnswered`, `StaleEntriesGoAway`, `Recovers`, `ProcessEnds`), liveness and ENABLED
being out of the prover's reach.

## Plan

1. Done: every component that keeps state or has several steps is a module with its
   runs; every safety and action property of a run is a theorem; `TaskUpdate` implements
   `TaskLedger` and `TeamAccess` implements `Membership`.
2. Next in the proofs: that what `TaskUpdate` and `TeamReading` assume of the writers next
   to them (`AddMember`; `Found`, `Invite`, `Publish`, `Move`) is what `Membership` and
   `TaskLedger` allow, so that the theorems about the readers hold of the writers' own
   models.
3. Next in the models: a walk over a list whose filters a change may enter or leave, and
   over pages from the cache.

## Not modelled

The rate limiter, configuration, logging, routing, password rules, the encryption of
tokens, the map from errors to status codes and the encodings of JSON are sequential or
belong to libraries; where their outcome matters the models name it. The generated API
description, scripts and deployment files hold no logic. Pagination is modelled in part:
the filters by status and assignee are not in the walk (a list without `team_id`, which the
service could make, is refused by `parseListQuery`).
The API deletes nothing, so foreign keys act only on ids that do not exist. The database
is not modelled below the level of statements and row locks.
