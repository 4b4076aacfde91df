---------------------------- MODULE TaskListCache ----------------------------
(***************************************************************************)
(* GET /tasks of one team: the replicas keep the team's lists in one Redis *)
(* hash (a field per filter, cursor and limit), and each of them lets the  *)
(* concurrent requests for one field share a single flight, which asks     *)
(* Redis and, on a miss, the database.  Writers invalidate the hash after  *)
(* their commit.                                                           *)
(*                                                                         *)
(* The content of the database is the number of changes committed so far:  *)
(* a list read from it shows exactly the changes up to that one.  Redis,   *)
(* x/sync's singleflight and the passing of time are external.             *)
(***************************************************************************)
EXTENDS Naturals, FiniteSets

CONSTANTS
    Replicas,
    Keys,            \* fields of the hash: the lists of the team asked for
    Lists,           \* GET /tasks requests
    Writes,          \* requests that create or update a task of the team
    Placements,      \* bound: where the lists are asked for, and which
    TTL,             \* CACHE_TASKS_TTL, in ticks
    Faults,          \* which failures the environment has
    NoList, NoEntry

ASSUME PlacementsAssumption == Placements \subseteq [Lists -> Replicas \X Keys]
ASSUME TTLAssumption == TTL \in Nat \ {0}
ASSUME FaultsAssumption == Faults \subseteq {"db", "get", "corrupt", "put", "del", "cancel", "crash"}

VARIABLES
    db,              \* how many changes are committed
    cache,           \* the team's hash
    ttl,             \* ticks until Redis drops the hash; 0 when there is none
    flight,          \* flight[replica, key], the singleflight group's map
    shared,          \* per flight (its leader): the slice handed out has extras
    list,            \* the GET requests
    write            \* the writing requests

vars == <<db, cache, ttl, flight, shared, list, write>>

-----------------------------------------------------------------------------
\* ver, extras: what was marshalled.  Auxiliary: over, the changes whose Del
\* came before the put.
Entry == [ver: Nat, extras: BOOLEAN, over: SUBSET Writes]

ASSUME NoneAssumption == NoList \notin Lists /\ NoEntry \notin Entry

Flight == [stage: {"none", "get", "load", "put"}, leader: Lists \cup {NoList}, ver: Nat]

\* with: asks for comments or history.  ver and extras describe the answer; ref
\* is the flight, named by its leader, whose slice the request holds.
List == [pc: {"idle", "wait", "got", "collect", "encode", "done"},
         at: Replicas, key: Keys, with: BOOLEAN,
         ref: Lists \cup {NoList},
         code: {"none", "ok", "forbidden", "error", "cancelled", "panic", "crashed"},
         ver: Nat, extras: BOOLEAN]

\* change is the number its commit got; lost: its Del never reached Redis.
Write == [pc: {"idle", "del", "done"}, at: Replicas, change: Nat, lost: BOOLEAN,
          code: {"none", "ok", "crashed"}]

NoFlight == [stage |-> "none", leader |-> NoList, ver |-> 0]
EmptyHash == [k \in Keys |-> NoEntry]

Init ==
    /\ db = 0
    /\ cache = EmptyHash
    /\ ttl = 0
    /\ flight = [f \in Replicas \X Keys |-> NoFlight]
    /\ shared = [l \in Lists |-> FALSE]
    /\ \E place \in Placements, with \in [Lists -> BOOLEAN] :
         list = [l \in Lists |->
           [pc |-> "idle", at |-> place[l][1], key |-> place[l][2], with |-> with[l],
            ref |-> NoList, code |-> "none", ver |-> 0, extras |-> FALSE]]
    /\ \E at \in [Writes -> Replicas] :
         write = [w \in Writes |->
           [pc |-> "idle", at |-> at[w], change |-> 0, lost |-> FALSE, code |-> "none"]]

-----------------------------------------------------------------------------
(* The end of a request, and the end of a flight.                          *)

Finish(l, code) == list' = [list EXCEPT ![l].pc = "done", ![l].code = code]


Joined_Leader(f) == {l \in Lists : list[l].pc = "wait" /\ l = flight[f].leader}

\* Everybody who waits for flight f.
Joined(f) == {l \in Lists : list[l].pc = "wait" /\ <<list[l].at, list[l].key>> = f}

\* Leader and followers get the same slice; the flight is forgotten.
Deliver(f, ver) ==
    /\ list' = [l \in Lists |->
         IF l \in Joined(f)
         THEN [list[l] EXCEPT !.pc = "got", !.ref = flight[f].leader, !.ver = ver]
         ELSE list[l]]
    /\ flight' = [flight EXCEPT ![f] = NoFlight]

\* The flight returns an error: to everybody who waits for it.
DeliverError(f) ==
    /\ list' = [l \in Lists |->
         IF l \in Joined(f) THEN [list[l] EXCEPT !.pc = "done", !.code = "error"] ELSE list[l]]
    /\ flight' = [flight EXCEPT ![f] = NoFlight]

-----------------------------------------------------------------------------
(* A list request                                                          *)

\* The roles in the token decide who may ask at all.
Refuse(l) ==
    /\ list[l].pc = "idle"
    /\ Finish(l, "forbidden")
    /\ UNCHANGED <<db, cache, ttl, flight, shared, write>>

\* DoChan: joins the flight under way, or leads a new one.
Start(l) ==
    LET f == <<list[l].at, list[l].key>> IN
    /\ list[l].pc = "idle"
    /\ list' = [list EXCEPT ![l].pc = "wait"]
    /\ flight' = IF flight[f].stage # "none" THEN flight
                 ELSE [flight EXCEPT ![f] = [NoFlight EXCEPT !.stage = "get", !.leader = l]]
    /\ UNCHANGED <<db, cache, ttl, shared, write>>

\* The client is gone: ctx.Done while it waits, or a failing query after that.
Cancel(l) ==
    /\ "cancel" \in Faults
    /\ \/ list[l].pc = "wait"
       \/ list[l].pc = "got" /\ list[l].with
    /\ Finish(l, "cancelled")
    /\ UNCHANGED <<db, cache, ttl, flight, shared, write>>

-----------------------------------------------------------------------------
(* A flight                                                                *)

CacheHit(f) ==
    /\ flight[f].stage = "get"
    /\ cache[f[2]] # NoEntry
    /\ Deliver(f, cache[f[2]].ver)
    /\ shared' = [shared EXCEPT ![flight[f].leader] = cache[f[2]].extras]
    /\ UNCHANGED <<db, cache, ttl, write>>

ToBase(f) == flight' = [flight EXCEPT ![f].stage = "load"]

\* Not in the hash, or Redis failed.
CacheMiss(f) ==
    /\ flight[f].stage = "get"
    /\ cache[f[2]] = NoEntry \/ "get" \in Faults
    /\ ToBase(f)
    /\ UNCHANGED <<db, cache, ttl, shared, list, write>>

\* Redis forgets a hash without fields.
TtlOf(hash) == IF hash = EmptyHash THEN 0 ELSE ttl

\* The entry does not unmarshal: HDel.
CacheCorrupt(f) ==
    /\ flight[f].stage = "get"
    /\ "corrupt" \in Faults
    /\ cache[f[2]] # NoEntry
    /\ cache' = [cache EXCEPT ![f[2]] = NoEntry]
    /\ ttl' = TtlOf(cache')
    /\ ToBase(f)
    /\ UNCHANGED <<db, shared, list, write>>

LeaderGone(f) == list[flight[f].leader].code = "cancelled"

Load_DeliverFirst(f) ==
    /\ flight[f].stage = "load"
    /\ ~LeaderGone(f)
    /\ flight' = [flight EXCEPT ![f].stage = "put", ![f].ver = db]
    /\ list' = [l \in Lists |->
         IF l \in Joined(f)
         THEN [list[l] EXCEPT !.pc = "got", !.ref = flight[f].leader, !.ver = db] ELSE list[l]]
    /\ UNCHANGED <<db, cache, ttl, shared, write>>

\* storage.List runs with the leader's request context.
Load(f) ==
    /\ flight[f].stage = "load"
    /\ ~LeaderGone(f)
    /\ flight' = [flight EXCEPT ![f].stage = "put", ![f].ver = db]
    /\ UNCHANGED <<db, cache, ttl, shared, list, write>>

LoadFails(f) ==
    /\ flight[f].stage = "load"
    /\ LeaderGone(f) \/ "db" \in Faults
    /\ DeliverError(f)
    /\ UNCHANGED <<db, cache, ttl, shared, write>>

\* Changes whose Del Redis has executed.
Deleted == {w \in Writes : write[w].pc = "done" /\ ~write[w].lost}

\* What is marshalled is the slice as it is now.
NewEntry(f) ==
    [ver |-> flight[f].ver, extras |-> shared[flight[f].leader], over |-> Deleted]

PutTTL_None == ttl

PutTTL_Extended == ttl + TTL

\* EXPIRE is of the whole hash.
PutTTL == TTL

\* HSET and EXPIRE in one script, then the result goes out.
Put(f) ==
    /\ flight[f].stage = "put"
    /\ cache' = [cache EXCEPT ![f[2]] = NewEntry(f)]
    /\ ttl' = PutTTL
    /\ Deliver(f, flight[f].ver)
    /\ UNCHANGED <<db, shared, write>>

\* The error is only logged.
PutFails(f) ==
    /\ flight[f].stage = "put"
    /\ "put" \in Faults
    /\ Deliver(f, flight[f].ver)
    /\ UNCHANGED <<db, cache, ttl, shared, write>>

-----------------------------------------------------------------------------
(* With the list in hand                                                   *)

\* GetComments, GetHistory: fresh from the database, and not yet in the slice.
Fetch(l) ==
    /\ list[l].pc = "got"
    /\ list[l].with
    /\ list' = [list EXCEPT ![l].pc = "collect"]
    /\ UNCHANGED <<db, cache, ttl, flight, shared, write>>

FetchFails(l) ==
    /\ list[l].pc = "got"
    /\ list[l].with
    /\ "db" \in Faults
    /\ Finish(l, "error")
    /\ UNCHANGED <<db, cache, ttl, flight, shared, write>>

\* collectComments and collectHistory write into the elements of the slice
\* every request of the flight holds.
Collect(l) ==
    /\ list[l].pc = "collect"
    /\ shared' = [shared EXCEPT ![list[l].ref] = TRUE]
    /\ list' = [list EXCEPT ![l].pc = "encode"]
    /\ UNCHANGED <<db, cache, ttl, flight, write>>

\* Another request of the flight is writing while this one reads.
Racing(l) == \E o \in Lists \ {l} : list[o].pc = "collect" /\ list[o].ref = list[l].ref

\* Marshals what the slice holds; one being written is read before, after, or
\* half-way, a slice header with a length and no array: a panic.
Encode(l) ==
    /\ list[l].pc = IF list[l].with THEN "encode" ELSE "got"
    /\ \/ \E extras \in BOOLEAN :
            /\ extras = shared[list[l].ref] \/ (extras /\ Racing(l))
            /\ list' = [list EXCEPT ![l].pc = "done", ![l].code = "ok", ![l].extras = extras]
       \/ Racing(l) /\ Finish(l, "panic")
    /\ UNCHANGED <<db, cache, ttl, flight, shared, write>>

-----------------------------------------------------------------------------
(* A writing request, once TaskUpdate has its transaction ready            *)

Commit(w) ==
    /\ write[w].pc = "idle"
    /\ db' = db + 1
    /\ write' = [write EXCEPT ![w].pc = "del", ![w].change = db + 1]
    /\ UNCHANGED <<cache, ttl, flight, shared, list>>

AfterDel_OneField(w) == \* per-field deletion
    IF \E k \in Keys : cache[k] # NoEntry
    THEN [cache EXCEPT ![CHOOSE k \in Keys : cache[k] # NoEntry] = NoEntry] ELSE cache

AfterDel(w) == EmptyHash

\* invalidateCache drops the hash, and the 200 or 201.
Del(w) ==
    /\ write[w].pc = "del"
    /\ cache' = AfterDel(w)
    /\ ttl' = TtlOf(cache')
    /\ write' = [write EXCEPT ![w].pc = "done", ![w].code = "ok"]
    /\ UNCHANGED <<db, flight, shared, list>>

\* Redis or the context fails: only logged, and the same answer.
DelFails(w) ==
    /\ write[w].pc = "del"
    /\ "del" \in Faults
    /\ write' = [write EXCEPT ![w].pc = "done", ![w].code = "ok", ![w].lost = TRUE]
    /\ UNCHANGED <<db, cache, ttl, flight, shared, list>>

-----------------------------------------------------------------------------
(* The environment                                                         *)

\* A replica dies and comes back: its flights and requests are gone, a change
\* committed there is never invalidated.
Crash(r) ==
    /\ "crash" \in Faults
    /\ flight' = [f \in Replicas \X Keys |-> IF f[1] = r THEN NoFlight ELSE flight[f]]
    /\ list' = [l \in Lists |->
         IF list[l].at = r /\ list[l].pc \notin {"idle", "done"}
         THEN [list[l] EXCEPT !.pc = "done", !.code = "crashed"] ELSE list[l]]
    /\ write' = [w \in Writes |->
         IF write[w].at = r /\ write[w].pc = "del"
         THEN [write[w] EXCEPT !.pc = "done", !.code = "crashed", !.lost = TRUE] ELSE write[w]]
    /\ UNCHANGED <<db, cache, ttl, shared>>

\* A tick passes; with the last one Redis drops the hash.
Tick ==
    /\ ttl > 0
    /\ ttl' = ttl - 1
    /\ cache' = IF ttl = 1 THEN EmptyHash ELSE cache
    /\ UNCHANGED <<db, flight, shared, list, write>>

\* All requests answered, the hash dropped.
Quiet ==
    /\ \A l \in Lists : list[l].pc = "done"
    /\ \A w \in Writes : write[w].pc = "done"
    /\ cache = EmptyHash
    /\ UNCHANGED vars

Fly(f) ==
    CacheHit(f) \/ CacheMiss(f) \/ CacheCorrupt(f) \/ Load(f) \/ LoadFails(f)
        \/ Put(f) \/ PutFails(f)

Handle(l) == Fetch(l) \/ FetchFails(l) \/ Collect(l) \/ Encode(l)

Next ==
    \/ \E l \in Lists : Refuse(l) \/ Start(l) \/ Cancel(l) \/ Handle(l)
    \/ \E f \in Replicas \X Keys : Fly(f)
    \/ \E w \in Writes : Commit(w) \/ Del(w) \/ DelFails(w)
    \/ \E r \in Replicas : Crash(r)
    \/ Tick
    \/ Quiet

Spec == Init /\ [][Next]_vars

\* Goroutines are scheduled, flights end (a query by an answer or an error, Redis
\* within the 5 seconds of the flight's context), and time passes.
FairSpec ==
    /\ Spec
    /\ \A l \in Lists : WF_vars(Handle(l))
    /\ \A f \in Replicas \X Keys : WF_vars(Fly(f))
    /\ WF_vars(Tick)
=============================================================================
