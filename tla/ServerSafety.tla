---------------------------- MODULE ServerSafety -----------------------------
(* What a replica must do when it ends.                                    *)
EXTENDS Server

\* Every part of the state keeps its form.
TypeOK ==
    /\ cfg \in Configs
    /\ phase \in Phases
    /\ signalled \in BOOLEAN
    /\ listener \in {"none", "starting", "up", "failed", "closed"}
    /\ conn \in [Conns -> {"closed", "new", "active"}]
    /\ age \in [Conns -> Nat]
    /\ clock \in Nat
    /\ cut \subseteq Conns
    /\ code \in 0..2

\* "server shutdown successfully", exit code 0, is said only if every request that
\* was begun has been answered: none was left without its database, none killed.
SuccessMeansDrained == phase \in {"closing", "exited"} /\ code = 0 => cut = {}

\* The timeouts leave a drain the time it needs.
Roomy == NewGrace + cfg.RequestTimeout + Overrun < cfg.ShutdownTimeout

\* With such timeouts a signal never takes the database from a running handler
\* (between a COMMIT and its Del, say), though new requests may begin while the
\* server drains: only a listener that fails does.
HandlersKeepDatabase == Roomy /\ cut # {} => listener = "failed"

\* What a connection can still do while the server drains: it was accepted before,
\* a request on it begins within NewGrace, and ends within its lifetime.
DrainIsBounded ==
    \A c \in Conns :
        /\ conn[c] # "closed" => age[c] <= Limit(c)
        /\ phase = "draining" /\ conn[c] = "new" => clock <= age[c]
        /\ phase = "draining" /\ conn[c] = "active" => clock <= NewGrace + age[c]

\* The inductive invariant.
IInv ==
    /\ TypeOK
    /\ SuccessMeansDrained
    /\ HandlersKeepDatabase
    /\ DrainIsBounded
    /\ phase \in {"starting", "serving"} => clock = 0
    /\ phase \in {"starting", "serving", "draining"} => code = 2 /\ cut = {}
    /\ phase = "starting" => \A c \in Conns : conn[c] = "closed"

-----------------------------------------------------------------------------
\* A signal ends the process, in whichever phase it arrives, whatever handlers and
\* clients do; and a listener that cannot listen does not leave a process behind that
\* serves nobody.
ProcessEnds == (signalled \/ listener = "failed") ~> phase = "exited"
=============================================================================
