------------------------------- MODULE Server --------------------------------
(***************************************************************************)
(* The life of a replica: main and run of cmd/server.  It starts, serves,  *)
(* and ends by a signal, which drains it, or by a failing listener, which  *)
(* does not; the deferred calls then close Redis and the database.  Time   *)
(* passes in ticks.  The library net/http is external, described from how  *)
(* run uses it.                                                            *)
(***************************************************************************)
EXTENDS Naturals, FiniteSets

CONSTANTS
    Conns,           \* connections of clients, each with one request at a time
    Configs,         \* the timeouts considered
    NewGrace,        \* how long an accepted connection may stay without a request
    Overrun          \* how long a handler may outlive its deadline

Config == [RequestTimeout: Nat, ShutdownTimeout: Nat]

ASSUME TimesAssumption == Configs \subseteq Config /\ NewGrace \in Nat /\ Overrun \in Nat

VARIABLES
    cfg,             \* SERVER_REQUEST_TIMEOUT, SERVER_SHUTDOWN_TIMEOUT
    phase,           \* of main's goroutine
    signalled,       \* SIGINT or SIGTERM has arrived: ctx is done
    listener,        \* the goroutine in ListenAndServe
    conn, age,       \* the connections, and for how long each has been so
    clock,           \* ticks since Shutdown was called
    cut,             \* auxiliary: connections with a handler when the database closed
    code             \* the exit code

vars == <<cfg, phase, signalled, listener, conn, age, clock, cut, code>>

-----------------------------------------------------------------------------
Phases == {"starting", "serving", "draining", "closing", "exited"}

Init ==
    /\ cfg \in Configs
    /\ phase = "starting"
    /\ signalled = FALSE
    /\ listener = "none"
    /\ conn = [c \in Conns |-> "closed"]
    /\ age = [c \in Conns |-> 0]
    /\ clock = 0
    /\ cut = {}
    /\ code = 2                                  \* not yet

Active == {c \in Conns : conn[c] = "active"}

Become(c, s) == conn' = [conn EXCEPT ![c] = s] /\ age' = [age EXCEPT ![c] = 0]

\* run returns err or nil: the deferred calls begin, db.Close the last of them.
Return(status) ==
    /\ phase' = "closing"
    /\ code' = status
    /\ cut' = Active

-----------------------------------------------------------------------------
(* main and run                                                            *)

\* signal.NotifyContext
Signal ==
    /\ phase # "exited"
    /\ signalled' = TRUE
    /\ UNCHANGED <<cfg, phase, listener, conn, age, clock, cut, code>>

\* The database is open, the handlers are there, the listener's goroutine is started.
Start ==
    /\ phase = "starting"
    /\ phase' = "serving"
    /\ listener' = "starting"
    /\ UNCHANGED <<cfg, signalled, conn, age, clock, cut, code>>

\* config.Load, database.Open (which looks at the signal's context) or the limiter's
\* store fails.
StartFails ==
    /\ phase = "starting"
    /\ Return(1)
    /\ UNCHANGED <<cfg, signalled, listener, conn, age, clock>>

\* select: the signal.  Shutdown closes the listener and the idle connections.
Shutdown ==
    /\ phase = "serving"
    /\ signalled
    /\ phase' = "draining"
    /\ listener' = IF listener = "failed" THEN "failed" ELSE "closed"
    /\ UNCHANGED <<cfg, signalled, conn, age, clock, cut, code>>

\* Only logged.
ListenerLost_Logged ==
    /\ phase = "serving"
    /\ listener = "failed"
    /\ UNCHANGED vars

\* select: the listener's error, whether or not there is a signal, too.  Nobody
\* waits for the handlers.
ListenerLost ==
    /\ phase = "serving"
    /\ listener = "failed"
    /\ Return(1)
    /\ UNCHANGED <<cfg, signalled, listener, conn, age, clock>>

Drained_NoWait == TRUE

Drained == \A c \in Conns : conn[c] = "closed"

\* Shutdown returns nil.
Drain ==
    /\ phase = "draining"
    /\ Drained
    /\ Return(0)
    /\ UNCHANGED <<cfg, signalled, listener, conn, age, clock>>

GiveUpCode_Ok == 0

GiveUpCode == 1

\* Shutdown returns the error of its context; handlers go on.
GiveUp ==
    /\ phase = "draining"
    /\ clock = cfg.ShutdownTimeout
    /\ Return(GiveUpCode)
    /\ UNCHANGED <<cfg, signalled, listener, conn, age, clock>>

\* db.Close is through, its error joined; main returns or calls os.Exit.
Exit ==
    /\ phase = "closing"
    /\ phase' = "exited"
    /\ code' \in {code, 1}
    /\ conn' = [c \in Conns |-> "closed"]
    /\ UNCHANGED <<cfg, signalled, listener, age, clock, cut>>

-----------------------------------------------------------------------------
(* The listener                                                            *)

Listen ==
    /\ listener = "starting" /\ phase = "serving"
    /\ listener' = "up"
    /\ UNCHANGED <<cfg, phase, signalled, conn, age, clock, cut, code>>

\* The address is taken, or Accept fails for good.
ListenFails ==
    /\ listener \in {"starting", "up"} /\ phase = "serving"
    /\ listener' = "failed"
    /\ UNCHANGED <<cfg, phase, signalled, conn, age, clock, cut, code>>

Accept(c) ==
    /\ phase = "serving" /\ listener = "up"
    /\ conn[c] = "closed"
    /\ Become(c, "new")
    /\ UNCHANGED <<cfg, phase, signalled, listener, clock, cut, code>>

-----------------------------------------------------------------------------
(* Connections                                                             *)

\* A request is read and its handler begins, even while the server is draining.
Begin(c) ==
    /\ phase # "exited"
    /\ conn[c] = "new"
    /\ Become(c, "active")
    /\ UNCHANGED <<cfg, phase, signalled, listener, clock, cut, code>>

\* The client, the read timeout or Shutdown closes a connection without request.
Close(c) ==
    /\ conn[c] = "new"
    /\ Become(c, "closed")
    /\ UNCHANGED <<cfg, phase, signalled, listener, clock, cut, code>>

\* The handler returns, or panics and is recovered; a connection that stays is idle
\* and does not hold Shutdown up.
End(c) ==
    /\ conn[c] = "active"
    /\ Become(c, "closed")
    /\ UNCHANGED <<cfg, phase, signalled, listener, clock, cut, code>>

Lifetime_None == cfg.ShutdownTimeout + 1

\* requestTimeout: the context of a request ends, and its handler soon after.
Lifetime == cfg.RequestTimeout + Overrun

\* How long a connection can be as it is.
Limit(c) == CASE conn[c] = "new" -> NewGrace
              [] conn[c] = "active" -> Lifetime
              [] OTHER -> 0

Tick ==
    /\ phase \in {"serving", "draining"}
    /\ \A c \in Conns : conn[c] # "closed" => age[c] < Limit(c)
    /\ phase = "draining" => clock < cfg.ShutdownTimeout
    /\ age' = [c \in Conns |-> IF conn[c] = "closed" THEN 0 ELSE age[c] + 1]
    /\ clock' = IF phase = "draining" THEN clock + 1 ELSE clock
    /\ UNCHANGED <<cfg, phase, signalled, listener, conn, cut, code>>

\* The process is gone.
Gone == phase = "exited" /\ UNCHANGED vars

Serve == Start \/ StartFails \/ Shutdown \/ ListenerLost \/ Drain \/ GiveUp \/ Exit

Next ==
    \/ Signal \/ Serve \/ Listen \/ ListenFails
    \/ \E c \in Conns : Accept(c) \/ Begin(c) \/ Close(c) \/ End(c)
    \/ Tick
    \/ Gone

Spec == Init /\ [][Next]_vars

\* main's goroutine and the handlers are scheduled, connections without a request
\* are closed in the end, and time passes.
FairSpec ==
    /\ Spec
    /\ WF_vars(Serve) /\ WF_vars(Tick)
    /\ \A c \in Conns : WF_vars(End(c)) /\ WF_vars(Close(c))
=============================================================================
