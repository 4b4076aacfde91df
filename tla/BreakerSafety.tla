---------------------------- MODULE BreakerSafety ----------------------------
(* What the breaker makes of the errors of the database.                   *)
EXTENDS Breaker

\* Every part of the state keeps its form; each call under way is in the window
\* at most once, and nothing is while the breaker is open.
TypeOK ==
    /\ state \in {"closed", "open", "halfOpen"}
    /\ window \in Window
    /\ caller \in [Handlers -> {"idle", "query", "refused"} \cup Kinds]
    /\ healthy \in BOOLEAN /\ returned \in BOOLEAN
    /\ halfOpenMaxReq \in HalfOpenMaxReqs
    /\ \A i \in DOMAIN window : window[i] \in Handlers =>
         caller[window[i]] = "query" /\ \A j \in DOMAIN window \ {i} : window[j] # window[i]
    /\ state = "open" => window = <<>>

-----------------------------------------------------------------------------
\* Whose call ends in this step, and the window with its outcome.
Ends(h) == caller[h] = "query" /\ caller'[h] # "query"

Seen(h) == [i \in DOMAIN window |-> IF window[i] = h THEN caller'[h] ELSE window[i]]

\* What the server itself answered with an error, other than a duplicate key.
Faults == {"server", "provoked"}

Amount(w, kinds) == Cardinality({i \in DOMAIN w : w[i] \in kinds})

\* The inductive invariant: no failure is remembered half-open, for the first one
\* opens the breaker.
IInv ==
    /\ TypeOK
    /\ state = "halfOpen" => \A i \in DOMAIN window : window[i] \notin Faults

\* breaker.go:24-30: a failure is an error of the driver that is not an expected
\* one, and the service leaves the database alone only when the configured share
\* of at least the configured number of requests came to that: not because names
\* and e-mails were taken, nor because clients went away.  The share itself is
\* enough, where dot.env.example:97 speaks of exceeding it.
TripsAreDeserved ==
    [][state # "open" /\ state' = "open" =>
         \E h \in Handlers :
            /\ Ends(h) /\ caller'[h] \in Faults
            /\ state = "closed" =>
                 LET w == Seen(h)
                     judged == Len(w) - Amount(w, {"cancelled"})
                 IN  /\ judged >= WindowMinReq
                     /\ Amount(w, Faults) * RatioDen >= RatioNum * judged]_vars

\* What the breaker takes for a success: no error of the driver's type, be it that
\* the server answered or that it was never reached.
Unfailed == {"ok", "duplicate", "connection"}

\* It trusts the database again only after as many probes as configured have ended
\* Unfailed, none of them in a fault, with cancelled ones not counted.  Of
\* dot.env.example:86-87 (the circuit closes if all probes succeed, and opens if one
\* failed) this is what breaker.go:50-62 leaves: a probe that did not reach the
\* server counts as a success, so that probes none of which reached it may close the
\* breaker.
ClosesAfterProbes ==
    [][state # "closed" /\ state' = "closed" =>
         /\ state = "halfOpen"
         /\ \E h \in Handlers :
              /\ Ends(h) /\ caller'[h] \in Unfailed
              /\ LET w == Seen(h) IN
                 /\ Amount(w, Faults) = 0
                 /\ Amount(w, Unfailed) >= halfOpenMaxReq]_vars

-----------------------------------------------------------------------------
\* Clients keep coming.
Traffic == \A h \in Handlers : WF_vars(Request(h) \/ Refuse(h))

\* A breaker that has opened closes again once the database is well and is asked,
\* whatever was under way when it recovered; provided the library gives the slot of
\* a cancelled probe back, for otherwise half-open is for ever.
Recovers == (Traffic /\ returned /\ <>[]healthy) => <>[](state = "closed")
=============================================================================
