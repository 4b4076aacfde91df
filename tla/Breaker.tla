------------------------------- MODULE Breaker -------------------------------
(***************************************************************************)
(* The circuit breaker around the database: which errors of a statement or *)
(* a transaction it takes for failures, and what gobreaker, configured as  *)
(* the code configures it, does with them.  The library is external: its   *)
(* window of requests, its three states, and their transitions.            *)
(***************************************************************************)
EXTENDS Integers, Sequences, FiniteSets, SequencesExt

CONSTANTS
    Handlers,                \* goroutines that call the database
    HalfOpenMaxReqs,         \* the values of DB_CB_HALFOPEN_MAX_REQ considered
    WindowMinReq,
    RatioNum, RatioDen,      \* FailureRatio = RatioNum / RatioDen
    Width,                   \* 2^32, the values of a uint32
    MaxWindow                \* bound: requests the window holds

ASSUME ConfigAssumption ==
    /\ HalfOpenMaxReqs \subseteq Int /\ WindowMinReq \in Int
    /\ RatioNum \in Nat /\ RatioDen \in Nat \ {0}
    /\ Width \in Nat \ {0} /\ MaxWindow \in Nat

VARIABLES
    state,           \* of the breaker
    window,          \* its requests since the last change of state, oldest first
    caller,          \* what each handler is doing, or what its last call came to
    healthy,         \* whether the database answers what it is rightly asked
    halfOpenMaxReq,  \* configured
    returned         \* whether the library gives the slot of an excluded probe back

vars == <<state, window, caller, healthy, halfOpenMaxReq, returned>>

-----------------------------------------------------------------------------
(* Errors                                                                  *)

\* ok: an answer, or an error of the domain such as no row.  duplicate: a unique
\* key.  provoked: an error of the server that the request brought about, such as
\* the foreign key of a comment on no task, or a negative LIMIT.  server: any other
\* error of the server.  connection: the server is not reached.
Kinds == {"ok", "duplicate", "provoked", "server", "connection", "cancelled"}

ASSUME HandlersAssumption == Handlers \cap Kinds = {}

\* *mysql.MySQLError is what the server answers with, not the lack of an answer.
MySQLErrors == {"duplicate", "provoked", "server"}

MapMySqlError_Wrapped(k) == k

\* ErrConflict, without the driver's type.
MapMySqlError(k) == IF k = "duplicate" THEN "conflict" ELSE k

IsSuccessful(e) == e \notin MySQLErrors

IsExcluded_Never(e) == FALSE

\* context.Canceled and context.DeadlineExceeded.
IsExcluded(e) == e = "cancelled"

\* What the breaker sees of a call that came to k.
Verdict(k) ==
    LET e == MapMySqlError(k)
    IN  IF IsExcluded(e) THEN "excluded" ELSE IF IsSuccessful(e) THEN "success" ELSE "failure"

-----------------------------------------------------------------------------
(* The window: a handler stands for its call under way, a kind for the      *)
(* outcome of one.                                                          *)

Window == Seq(Handlers \cup Kinds)

Number(w, v) == Cardinality({i \in DOMAIN w : w[i] \in Kinds /\ Verdict(w[i]) = v})

Uint32(n) == n % Width

\* gobreaker takes 0 for 1.
MaxRequests == IF Uint32(halfOpenMaxReq) = 0 THEN 1 ELSE Uint32(halfOpenMaxReq)

ReadyToTrip_AllRequests(w) ==
    /\ Len(w) >= Uint32(WindowMinReq)
    /\ Number(w, "failure") * RatioDen >= RatioNum * (Len(w) - Number(w, "excluded"))

\* The calls under way count as requests.
ReadyToTrip(w) ==
    LET requests == Len(w) - Number(w, "excluded") IN
    /\ requests >= Uint32(WindowMinReq)
    /\ Number(w, "failure") * RatioDen >= RatioNum * requests

\* How many requests have been let through half-open.
Admitted == Len(window)

Init ==
    /\ state = "closed"
    /\ window = <<>>
    /\ caller = [h \in Handlers |-> "idle"]
    /\ healthy = TRUE
    /\ halfOpenMaxReq \in HalfOpenMaxReqs
    /\ returned \in BOOLEAN

\* Executed within an execution, counted twice.
Request_Nested(h) ==
    /\ caller[h] # "query"
    /\ \/ state = "closed" /\ Len(window) < MaxWindow
       \/ state = "halfOpen" /\ Admitted < MaxRequests
    /\ caller' = [caller EXCEPT ![h] = "query"]
    /\ window' = window \o <<h, h>>
    /\ UNCHANGED <<state, healthy, halfOpenMaxReq, returned>>

-----------------------------------------------------------------------------
(* CircuitBreaker.Execute: a method of storageWithExecutor, or a whole      *)
(* transaction (DB.InTx), whose statements use the raw storage.             *)

Request(h) ==
    /\ caller[h] # "query"
    /\ \/ state = "closed" /\ Len(window) < MaxWindow
       \/ state = "halfOpen" /\ Admitted < MaxRequests
    /\ caller' = [caller EXCEPT ![h] = "query"]
    /\ window' = Append(window, h)
    /\ UNCHANGED <<state, healthy, halfOpenMaxReq, returned>>

\* ErrOpenState, ErrTooManyRequests: the database is not asked.
Refuse(h) ==
    /\ caller[h] # "query"
    /\ \/ state = "open"
       \/ state = "halfOpen" /\ Admitted >= MaxRequests
    /\ caller' = [caller EXCEPT ![h] = "refused"]
    /\ UNCHANGED <<state, window, healthy, halfOpenMaxReq, returned>>

\* What a call may come to.
Outcomes == IF healthy THEN {"ok", "duplicate"} ELSE Kinds

\* The window with h's call come to k.
Recorded(h, k) ==
    IF Verdict(k) = "excluded" /\ returned
    THEN RemoveAt(window, CHOOSE i \in DOMAIN window : window[i] = h)
    ELSE [i \in DOMAIN window |-> IF window[i] = h THEN k ELSE window[i]]

\* A new generation of counts.
Switch(to) == state' = to /\ window' = <<>>

\* afterRequest: a failure may trip, or ends the probing; enough successes close.
Finish(h) ==
    /\ caller[h] = "query"
    /\ h \in ToSet(window)
    /\ \E k \in Outcomes :
         LET w == Recorded(h, k)
             v == Verdict(k)
             trips == v = "failure" /\ (state = "halfOpen" \/ ReadyToTrip(w))
             closes == v = "success" /\ state = "halfOpen" /\ Number(w, "success") >= MaxRequests
         IN  /\ caller' = [caller EXCEPT ![h] = k]
             /\ IF trips THEN Switch("open")
                ELSE IF closes THEN Switch("closed")
                ELSE window' = w /\ UNCHANGED state
    /\ UNCHANGED <<healthy, halfOpenMaxReq, returned>>

\* A call of an earlier generation, or one the window has left behind: its outcome
\* concerns the caller only.
FinishLate(h) ==
    /\ caller[h] = "query"
    /\ h \notin ToSet(window)
    /\ \E k \in Outcomes : caller' = [caller EXCEPT ![h] = k]
    /\ UNCHANGED <<state, window, healthy, halfOpenMaxReq, returned>>

-----------------------------------------------------------------------------
(* Time, and the database                                                   *)

\* OpenTimeout is over.
Timeout ==
    /\ state = "open"
    /\ Switch("halfOpen")
    /\ UNCHANGED <<caller, healthy, halfOpenMaxReq, returned>>

\* BucketPeriod is over: the oldest requests leave the window.
Slide ==
    /\ state = "closed"
    /\ \E n \in 1..Len(window) : window' = SubSeq(window, n + 1, Len(window))
    /\ UNCHANGED <<state, caller, healthy, halfOpenMaxReq, returned>>

\* The database, the network or the clients get worse or better.
Change ==
    /\ healthy' = ~healthy
    /\ UNCHANGED <<state, window, caller, halfOpenMaxReq, returned>>

Answer(h) == Finish(h) \/ FinishLate(h)

Next ==
    \/ \E h \in Handlers : Request(h) \/ Refuse(h) \/ Answer(h)
    \/ Timeout \/ Slide \/ Change

Spec == Init /\ [][Next]_vars

\* A call ends, within the request timeout at the latest, and time passes.
FairSpec == Spec /\ WF_vars(Timeout) /\ \A h \in Handlers : WF_vars(Answer(h))
=============================================================================
