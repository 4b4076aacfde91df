---------------------------- MODULE ServerProofs -----------------------------
(***************************************************************************)
(* Proofs of ServerSafety, for every number of connections and every       *)
(* setting of the timeouts.  A drain that has time for it ends before its  *)
(* deadline: each connection it waits for was accepted before, begins its  *)
(* last request within NewGrace, and ends within its lifetime.             *)
(***************************************************************************)
EXTENDS ServerSafety, TLAPS

USE TimesAssumption


LEMMA LimitIsNat ==
    ASSUME TypeOK, NEW c \in Conns
    PROVE  Limit(c) \in Nat /\ cfg.RequestTimeout \in Nat /\ cfg.ShutdownTimeout \in Nat
BY DEF TypeOK, Limit, Lifetime, Config

\* A process begins without connections.
LEMMA InitIInv == Init => IInv
<1> SUFFICES ASSUME Init PROVE IInv
  OBVIOUS
<1>1. TypeOK
  <2>1. conn \in [Conns -> {"closed", "new", "active"}] BY DEF Init
  <2>2. age \in [Conns -> Nat] BY DEF Init
  <2>3. cfg \in Configs /\ phase \in Phases /\ signalled \in BOOLEAN BY DEF Init, Phases
  <2>4. listener \in {"none", "starting", "up", "failed", "closed"} BY DEF Init
  <2>5. clock \in Nat /\ cut \subseteq Conns /\ code \in 0..2 BY DEF Init
  <2> QED BY <2>1, <2>2, <2>3, <2>4, <2>5 DEF TypeOK
<1>2. DrainIsBounded
  BY DEF Init, DrainIsBounded
<1>3. SuccessMeansDrained /\ HandlersKeepDatabase
  BY DEF Init, SuccessMeansDrained, HandlersKeepDatabase
<1> QED BY <1>1, <1>2, <1>3 DEF Init, IInv

-----------------------------------------------------------------------------
(* main and run                                                            *)

LEMMA SignalStep == ASSUME IInv, Signal PROVE IInv'
BY DEF Signal, IInv, TypeOK, Phases, SuccessMeansDrained, HandlersKeepDatabase, DrainIsBounded,
       Limit, Lifetime, Roomy

LEMMA StartStep == ASSUME IInv, Start PROVE IInv'
BY DEF Start, IInv, TypeOK, Phases, SuccessMeansDrained, HandlersKeepDatabase, DrainIsBounded,
       Limit, Lifetime, Roomy

\* Nobody is connected yet.
LEMMA StartFailsStep == ASSUME IInv, StartFails PROVE IInv'
<1>1. Active = {} BY DEF StartFails, IInv, Active
<1> QED BY <1>1 DEF StartFails, Return, IInv, TypeOK, Phases, SuccessMeansDrained,
                    HandlersKeepDatabase, DrainIsBounded, Limit, Lifetime, Roomy

\* No time has passed since the call.
LEMMA ShutdownStep == ASSUME IInv, Shutdown PROVE IInv'
<1>1. \A c \in Conns : conn[c] # "closed" => age[c] <= Limit(c)
  BY DEF IInv, DrainIsBounded
<1>2. clock = 0 /\ cut = {} /\ code = 2 /\ age \in [Conns -> Nat]
  BY DEF IInv, TypeOK, Shutdown
<1>3. DrainIsBounded'
  BY <1>1, <1>2 DEF Shutdown, DrainIsBounded, Limit, Lifetime
<1> QED BY <1>2, <1>3 DEF Shutdown, IInv, TypeOK, Phases, SuccessMeansDrained,
                    HandlersKeepDatabase, Roomy

LEMMA ListenerLostStep == ASSUME IInv, ListenerLost PROVE IInv'
BY DEF ListenerLost, Return, Active, IInv, TypeOK, Phases, SuccessMeansDrained,
       HandlersKeepDatabase, DrainIsBounded, Limit, Lifetime, Roomy

LEMMA DrainStep == ASSUME IInv, Drain PROVE IInv'
<1>1. Active = {} BY DEF Drain, Drained, Active
<1> QED BY <1>1 DEF Drain, Return, IInv, TypeOK, Phases, SuccessMeansDrained,
                    HandlersKeepDatabase, DrainIsBounded, Limit, Lifetime, Roomy

\* At the deadline of a roomy configuration no handler is left.
LEMMA GiveUpStep == ASSUME IInv, GiveUp PROVE IInv'
<1>1. Roomy => Active = {}
  <2> SUFFICES ASSUME Roomy, NEW c \in Conns, conn[c] = "active" PROVE FALSE
    BY DEF Active
  <2>1. clock = cfg.ShutdownTimeout /\ clock <= NewGrace + age[c]
    BY DEF GiveUp, IInv, DrainIsBounded
  <2>2. age[c] <= cfg.RequestTimeout + Overrun
    BY DEF IInv, DrainIsBounded, Limit, Lifetime
  <2>3. cfg.RequestTimeout \in Nat /\ cfg.ShutdownTimeout \in Nat /\ age[c] \in Nat
    BY LimitIsNat DEF IInv, TypeOK
  <2> QED BY <2>1, <2>2, <2>3 DEF Roomy
<1> QED BY <1>1 DEF GiveUp, GiveUpCode, Return, Active, IInv, TypeOK, Phases, SuccessMeansDrained,
                    HandlersKeepDatabase, DrainIsBounded, Limit, Lifetime, Roomy

LEMMA ExitStep == ASSUME IInv, Exit PROVE IInv'
BY DEF Exit, IInv, TypeOK, Phases, SuccessMeansDrained, HandlersKeepDatabase, DrainIsBounded, Roomy

-----------------------------------------------------------------------------
(* The listener and the connections                                        *)

LEMMA ListenStep == ASSUME IInv, Listen \/ ListenFails PROVE IInv'
BY DEF Listen, ListenFails, IInv, TypeOK, Phases, SuccessMeansDrained, HandlersKeepDatabase,
       DrainIsBounded, Limit, Lifetime, Roomy

\* A connection begins an age of zero; one that becomes active while the server
\* drains was new for at most NewGrace.
LEMMA ConnStep ==
    ASSUME IInv, NEW c \in Conns, Accept(c) \/ Begin(c) \/ Close(c) \/ End(c)
    PROVE  IInv'
<1>1. TypeOK' /\ conn \in [Conns -> {"closed", "new", "active"}] /\ age \in [Conns -> Nat]
  BY DEF IInv, TypeOK, Accept, Begin, Close, End, Become
<1>2. \A o \in Conns \ {c} : conn'[o] = conn[o] /\ age'[o] = age[o]
  BY <1>1 DEF Accept, Begin, Close, End, Become
<1>3. UNCHANGED <<cfg, phase, signalled, listener, clock, cut, code>>
  BY DEF Accept, Begin, Close, End
<1>4. age'[c] = 0
  BY <1>1 DEF Accept, Begin, Close, End, Become
<1>5. (phase = "draining" /\ conn'[c] = "new") => FALSE
  BY <1>1 DEF Accept, Begin, Close, End, Become
<1>6. (phase = "draining" /\ conn'[c] = "active") => clock <= NewGrace
  <2> SUFFICES ASSUME phase = "draining", conn'[c] = "active" PROVE clock <= NewGrace
    OBVIOUS
  <2>1. conn[c] = "new"
    BY <1>1 DEF Accept, Begin, Close, End, Become
  <2>2. clock <= age[c] /\ age[c] <= NewGrace
    BY <2>1 DEF IInv, DrainIsBounded, Limit
  <2> QED BY <1>1, <2>2 DEF IInv, TypeOK
<1>7. Limit(c)' \in Nat
  BY <1>1, LimitIsNat, <1>3 DEF IInv, TypeOK, Limit, Lifetime, Config
<1>8. DrainIsBounded'
  <2> SUFFICES ASSUME NEW o \in Conns
               PROVE  /\ conn'[o] # "closed" => age'[o] <= Limit(o)'
                      /\ phase' = "draining" /\ conn'[o] = "new" => clock' <= age'[o]
                      /\ phase' = "draining" /\ conn'[o] = "active" => clock' <= NewGrace + age'[o]
    BY DEF DrainIsBounded
  <2>1. CASE o = c BY <2>1, <1>3, <1>4, <1>5, <1>6, <1>7
  <2>2. CASE o # c
    BY <2>2, <1>2, <1>3 DEF IInv, DrainIsBounded, Limit, Lifetime
  <2> QED BY <2>1, <2>2
<1>9. phase' = "starting" => \A o \in Conns : conn'[o] = "closed"
  BY <1>1, <1>2, <1>3 DEF IInv, Accept, Begin, Close, End, Become
<1> QED BY <1>1, <1>3, <1>8, <1>9 DEF IInv, SuccessMeansDrained, HandlersKeepDatabase, Roomy

\* No connection outlives its limit, and the clock of a drain goes with the ages.
LEMMA TickStep == ASSUME IInv, Tick PROVE IInv'
<1>1. age \in [Conns -> Nat] /\ clock \in Nat
  BY DEF IInv, TypeOK
<1>2. UNCHANGED <<cfg, phase, signalled, listener, conn, cut, code>>
  BY DEF Tick
<1>3. clock' \in Nat /\ (phase \in {"starting", "serving"} => clock' = clock)
        /\ (phase = "draining" => clock' = clock + 1)
  BY <1>1 DEF Tick
<1>4. \A c \in Conns : age'[c] = IF conn[c] = "closed" THEN 0 ELSE age[c] + 1
  BY DEF Tick
<1>5. TypeOK'
  BY <1>1, <1>2, <1>3, <1>4 DEF Tick, IInv, TypeOK
<1>6. DrainIsBounded'
  <2> SUFFICES ASSUME NEW c \in Conns
               PROVE  /\ conn'[c] # "closed" => age'[c] <= Limit(c)'
                      /\ phase' = "draining" /\ conn'[c] = "new" => clock' <= age'[c]
                      /\ phase' = "draining" /\ conn'[c] = "active" => clock' <= NewGrace + age'[c]
    BY DEF DrainIsBounded
  <2>1. conn[c] # "closed" => age[c] < Limit(c)
    BY DEF Tick
  <2>2. Limit(c)' = Limit(c) /\ Limit(c) \in Nat
    BY <1>2, LimitIsNat DEF IInv, Limit, Lifetime
  <2>3. /\ phase = "draining" /\ conn[c] = "new" => clock <= age[c]
        /\ phase = "draining" /\ conn[c] = "active" => clock <= NewGrace + age[c]
    BY DEF IInv, DrainIsBounded
  <2> QED BY <1>1, <1>2, <1>3, <1>4, <2>1, <2>2, <2>3
<1> QED BY <1>2, <1>3, <1>5, <1>6 DEF IInv, SuccessMeansDrained, HandlersKeepDatabase, Roomy

-----------------------------------------------------------------------------
LEMMA StepIInv == IInv /\ [Next]_vars => IInv'
<1> SUFFICES ASSUME IInv, [Next]_vars PROVE IInv'
  OBVIOUS
<1>1. CASE Signal BY <1>1, SignalStep
<1>2. CASE Serve
  BY <1>2, StartStep, StartFailsStep, ShutdownStep, ListenerLostStep, DrainStep, GiveUpStep, ExitStep
     DEF Serve
<1>3. CASE Listen \/ ListenFails BY <1>3, ListenStep
<1>4. CASE \E c \in Conns : Accept(c) \/ Begin(c) \/ Close(c) \/ End(c) BY <1>4, ConnStep
<1>5. CASE Tick BY <1>5, TickStep
<1>6. CASE UNCHANGED vars
  BY <1>6 DEF vars, IInv, TypeOK, SuccessMeansDrained, HandlersKeepDatabase, DrainIsBounded,
              Limit, Lifetime, Roomy
<1> QED BY <1>1, <1>2, <1>3, <1>4, <1>5, <1>6 DEF Next, Gone

\* In every reachable state the connections a draining server waits for are bounded
\* by the time it has been waiting.
THEOREM Inductive == Spec => []IInv
BY InitIInv, StepIInv, PTL DEF Spec

\* Exit code 0 is reported only when no request was cut off.
THEOREM SuccessIsDrained == Spec => []SuccessMeansDrained
<1>1. IInv => SuccessMeansDrained BY DEF IInv
<1> QED BY <1>1, Inductive, PTL

\* A shutdown timeout longer than the grace of a new connection, the request timeout
\* and the handlers' overrun together is enough, for any number of connections: then
\* only a failing listener takes the database from a handler.
THEOREM EnoughTime == Spec => []HandlersKeepDatabase
<1>1. IInv => HandlersKeepDatabase BY DEF IInv
<1> QED BY <1>1, Inductive, PTL
=============================================================================
