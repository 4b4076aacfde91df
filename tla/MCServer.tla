------------------------------ MODULE MCServer -------------------------------
(* Instances of ServerSafety for TLC. *)
EXTENDS ServerSafety

\* Enough time to drain; just too little; the defaults in proportion (5 s, 10 s
\* and a grace of 5 s); and a shutdown that does not wait at all.
Timeouts ==
    {[RequestTimeout |-> 1, ShutdownTimeout |-> 5], [RequestTimeout |-> 1, ShutdownTimeout |-> 4],
     [RequestTimeout |-> 2, ShutdownTimeout |-> 4], [RequestTimeout |-> 1, ShutdownTimeout |-> 0]}
=============================================================================
