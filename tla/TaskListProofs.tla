--------------------------- MODULE TaskListProofs ----------------------------
(***************************************************************************)
(* Proofs about TaskListCache, for any replicas, lists of a team, requests *)
(* and changes, whichever failures there are.                              *)
(***************************************************************************)
EXTENDS TaskListSafety, TLAPS

Flights == Replicas \X Keys

\* Nothing has been asked for, and nothing is cached.
LEMMA InitIInv == Init => IInv
<1> SUFFICES ASSUME Init PROVE IInv
  OBVIOUS
<1>1. TypeOK
  <2>1. PICK place \in Placements, with \in [Lists -> BOOLEAN] :
          list = [l \in Lists |->
            [pc |-> "idle", at |-> place[l][1], key |-> place[l][2], with |-> with[l],
             ref |-> NoList, code |-> "none", ver |-> 0, extras |-> FALSE]]
    BY DEF Init
  <2>2. place \in [Lists -> Replicas \X Keys]
    BY PlacementsAssumption
  <2>3. list \in [Lists -> List]
    BY <2>1, <2>2 DEF List
  <2> QED BY <2>3, TTLAssumption DEF Init, TypeOK, EmptyHash, NoFlight, Flight, Write
<1>2. HashInv
  BY DEF Init, HashInv, HashExpires, StaleForKnownReasons, CachedListsArePlain, EmptyHash
<1>3. RequestInv
  BY NoneAssumption DEF Init, RequestInv, NobodyIsForgotten, SlicesAreFresh,
     IdleAreFresh, AnswersAreFinal, NoFlight
<1> QED BY <1>1, <1>2, <1>3 DEF IInv

-----------------------------------------------------------------------------
(* Requests and flights.                                                   *)

\* A request leads one flight at most.
LEMMA OneFlight ==
    ASSUME NobodyIsForgotten, NEW f \in Flights, NEW g \in Flights,
           flight[f].stage # "none", flight[g].stage # "none",
           flight[f].leader = flight[g].leader
    PROVE  f = g
BY DEF NobodyIsForgotten, Flights

\* A request goes on by itself: it keeps its slice, into which it may have
\* written, and it stops waiting only when cancelled.
LEMMA MovesKeep ==
    ASSUME IInv, NEW l \in Lists, list[l].pc # "done",
           NEW new \in List, list' = [list EXCEPT ![l] = new],
           new.at = list[l].at, new.key = list[l].key,
           new.ref = list[l].ref, new.ver = list[l].ver,
           new.pc \notin {"idle", "wait"}, new.code # "none" => new.pc = "done",
           list[l].pc = "wait" => new.code = "cancelled",
           \A o \in Lists : shared'[o] => shared[o] \/ o = list[l].ref,
           UNCHANGED flight
    PROVE  RequestInv'
<1> USE DEF Flights
<1>1. /\ list \in [Lists -> List]
      /\ \A o \in Lists : list'[o] = IF o = l THEN new ELSE list[o]
  BY DEF IInv, TypeOK
<1>2. NobodyIsForgotten'
  BY <1>1 DEF IInv, RequestInv, NobodyIsForgotten, AnswersAreFinal
<1>3. AnswersAreFinal'
  BY <1>1 DEF IInv, RequestInv, AnswersAreFinal
<1>4. SlicesAreFresh'
  BY <1>1 DEF IInv, RequestInv, SlicesAreFresh, NobodyIsForgotten
<1>5. IdleAreFresh'
  BY <1>1 DEF IInv, RequestInv, IdleAreFresh
<1> QED BY <1>2, <1>3, <1>4, <1>5 DEF RequestInv

\* A flight goes on: nobody sees.
LEMMA FlightKeeps ==
    ASSUME IInv, NEW f \in Flights, flight[f].stage # "none",
           NEW new \in Flight, flight' = [flight EXCEPT ![f] = new],
           new.stage # "none", new.leader = flight[f].leader,
           UNCHANGED <<list, shared>>
    PROVE  RequestInv'
<1> USE DEF Flights
<1>1. \A g \in Flights : flight'[g] = IF g = f THEN new ELSE flight[g]
  BY DEF IInv, TypeOK
<1>2. NobodyIsForgotten'
  BY <1>1 DEF IInv, RequestInv, TypeOK, List, NobodyIsForgotten
<1>3. SlicesAreFresh'
  BY <1>1 DEF IInv, RequestInv, SlicesAreFresh
<1> QED BY <1>2, <1>3 DEF IInv, RequestInv, IdleAreFresh, AnswersAreFinal

\* A flight hands out its slice to those who waited for it, and only they have it.
LEMMA DeliverKeeps ==
    ASSUME IInv, NEW f \in Flights, flight[f].stage # "none",
           NEW ver \in Nat, Deliver(f, ver),
           \A o \in Lists : shared'[o] => shared[o]
    PROVE  RequestInv'
<1> USE DEF Flights
<1> DEFINE lead == flight[f].leader
<1>1. /\ list \in [Lists -> List]
      /\ \A g \in Flights : flight'[g] = IF g = f THEN NoFlight ELSE flight[g]
      /\ NoFlight.stage = "none"
  BY DEF IInv, TypeOK, Deliver, NoFlight
<1>2. lead \in Lists /\ list[lead].pc # "idle"
  BY DEF IInv, RequestInv, NobodyIsForgotten, AnswersAreFinal
<1>3. \A l \in Joined(f) :
         /\ l \in Lists /\ list[l].pc = "wait" /\ <<list[l].at, list[l].key>> = f
         /\ list'[l].at = list[l].at /\ list'[l].key = list[l].key
         /\ list'[l].pc = "got" /\ list'[l].ref = lead
         /\ list'[l].ver = ver /\ list'[l].code = list[l].code
  BY <1>1 DEF Deliver, Joined, List
<1>4. \A l \in Lists \ Joined(f) : list'[l] = list[l]
  BY DEF Deliver
<1>5. \A l \in Lists : list'[l].at = list[l].at /\ list'[l].key = list[l].key
  BY <1>3, <1>4
<1>6. NobodyIsForgotten'
  <2>1. ASSUME NEW l \in Lists, list'[l].pc = "wait"
        PROVE  flight'[<<list'[l].at, list'[l].key>>].stage # "none"
    <3>1. l \notin Joined(f) /\ list[l].pc = "wait"
      BY <1>3, <1>4, <2>1
    <3>2. <<list[l].at, list[l].key>> \in Flights /\ <<list[l].at, list[l].key>> # f
      BY <1>1, <3>1 DEF Joined, List
    <3> QED BY <1>1, <1>4, <3>1, <3>2 DEF IInv, RequestInv, NobodyIsForgotten
  <2>2. ASSUME NEW g \in Flights, flight'[g].stage # "none"
        PROVE  LET l == flight'[g].leader IN
               /\ l \in Lists
               /\ <<list'[l].at, list'[l].key>> = g
               /\ list'[l].pc = "wait" \/ list'[l].code = "cancelled"
    <3> DEFINE l == flight[g].leader
    <3>1. g # f /\ flight'[g] = flight[g]
      BY <1>1, <2>2
    <3>2. l \in Lists /\ <<list[l].at, list[l].key>> = g
      BY <2>2, <3>1 DEF IInv, RequestInv, NobodyIsForgotten
    <3>3. list'[l] = list[l]
      BY <1>3, <1>4, <3>1, <3>2
    <3> QED BY <2>2, <3>1, <3>2, <3>3 DEF IInv, RequestInv, NobodyIsForgotten
  <2> QED BY <2>1, <2>2 DEF NobodyIsForgotten
<1>7. SlicesAreFresh'
  <2> SUFFICES ASSUME NEW g \in Flights, flight'[g].stage # "none"
               PROVE  /\ ~shared'[flight'[g].leader]
                      /\ \A l \in Lists : list'[l].ref # flight'[g].leader
    BY DEF SlicesAreFresh
  <2>1. g # f /\ flight'[g] = flight[g]
    BY <1>1
  <2>2. flight[g].leader \in Lists /\ flight[g].leader # lead
    BY <2>1, OneFlight DEF IInv, RequestInv, NobodyIsForgotten
  <2> QED BY <1>3, <1>4, <2>1, <2>2 DEF IInv, RequestInv, SlicesAreFresh
<1>8. IdleAreFresh'
  BY <1>2, <1>3, <1>4 DEF IInv, RequestInv, IdleAreFresh
<1>9. AnswersAreFinal'
  BY <1>3, <1>4 DEF IInv, RequestInv, AnswersAreFinal
<1> QED BY <1>6, <1>7, <1>8, <1>9 DEF RequestInv

\* A failing flight ends the requests that waited for it, and no other.
LEMMA DeliverErrorKeeps ==
    ASSUME IInv, NEW f \in Flights, DeliverError(f), UNCHANGED shared
    PROVE  RequestInv'
<1> USE DEF Flights
<1>1. /\ list \in [Lists -> List]
      /\ \A g \in Flights : flight'[g] = IF g = f THEN NoFlight ELSE flight[g]
      /\ NoFlight.stage = "none"
  BY DEF IInv, TypeOK, DeliverError, NoFlight
<1>2. \A l \in Joined(f) :
         /\ l \in Lists /\ list[l].pc = "wait" /\ <<list[l].at, list[l].key>> = f
         /\ list'[l].pc = "done"
  BY <1>1 DEF DeliverError, Joined, List
<1>3. \A l \in Lists \ Joined(f) : list'[l] = list[l]
  BY DEF DeliverError
<1>4. \A l \in Lists :
         /\ list'[l].at = list[l].at /\ list'[l].key = list[l].key
         /\ list'[l].ref = list[l].ref /\ list'[l].ver = list[l].ver
  BY <1>1, <1>3 DEF DeliverError, Joined, List
<1>5. NobodyIsForgotten'
  <2>1. ASSUME NEW l \in Lists, list'[l].pc = "wait"
        PROVE  flight'[<<list'[l].at, list'[l].key>>].stage # "none"
    <3>1. l \notin Joined(f) /\ list[l].pc = "wait"
      BY <1>2, <1>3, <2>1
    <3>2. <<list[l].at, list[l].key>> \in Flights /\ <<list[l].at, list[l].key>> # f
      BY <1>1, <3>1 DEF Joined, List
    <3> QED BY <1>1, <1>4, <3>1, <3>2 DEF IInv, RequestInv, NobodyIsForgotten
  <2>2. ASSUME NEW g \in Flights, flight'[g].stage # "none"
        PROVE  LET l == flight'[g].leader IN
               /\ l \in Lists
               /\ <<list'[l].at, list'[l].key>> = g
               /\ list'[l].pc = "wait" \/ list'[l].code = "cancelled"
    <3> DEFINE l == flight[g].leader
    <3>1. g # f /\ flight'[g] = flight[g]
      BY <1>1, <2>2
    <3>2. l \in Lists /\ <<list[l].at, list[l].key>> = g
      BY <2>2, <3>1 DEF IInv, RequestInv, NobodyIsForgotten
    <3>3. list'[l] = list[l]
      BY <1>2, <1>3, <3>1, <3>2
    <3> QED BY <2>2, <3>1, <3>2, <3>3 DEF IInv, RequestInv, NobodyIsForgotten
  <2> QED BY <2>1, <2>2 DEF NobodyIsForgotten
<1>6. SlicesAreFresh'
  BY <1>1, <1>4 DEF IInv, RequestInv, SlicesAreFresh
<1>7. IdleAreFresh' /\ AnswersAreFinal'
  BY <1>2, <1>3, <1>4 DEF IInv, RequestInv, IdleAreFresh, AnswersAreFinal
<1> QED BY <1>5, <1>6, <1>7 DEF RequestInv

\* A new request joins its flight, or leads it with a slice of its own.
LEMMA StartKeeps == ASSUME IInv, NEW l \in Lists, Start(l) PROVE RequestInv'
<1> USE DEF Flights
<1> DEFINE f == <<list[l].at, list[l].key>>
<1>1. /\ list \in [Lists -> List] /\ f \in Flights
      /\ list[l].pc = "idle" /\ list[l].code = "none"
  BY DEF IInv, TypeOK, List, Start, RequestInv, AnswersAreFinal
<1>2. \A o \in Lists :
         /\ list'[o].at = list[o].at /\ list'[o].key = list[o].key
         /\ list'[o].ref = list[o].ref /\ list'[o].ver = list[o].ver
         /\ list'[o].code = list[o].code
         /\ list'[o].pc = IF o = l THEN "wait" ELSE list[o].pc
  BY <1>1 DEF Start, List
<1>3. \A g \in Flights :
         \/ flight'[g] = flight[g] /\ (g = f => flight[g].stage # "none")
         \/ g = f /\ flight'[g].stage = "get" /\ flight'[g].leader = l
  BY <1>1 DEF IInv, TypeOK, Start, NoFlight
<1>4. NobodyIsForgotten'
  <2>1. ASSUME NEW o \in Lists, list'[o].pc = "wait"
        PROVE  flight'[<<list'[o].at, list'[o].key>>].stage # "none"
    <3>1. <<list[o].at, list[o].key>> \in Flights
      BY <1>1 DEF List
    <3> QED BY <1>2, <1>3, <2>1, <3>1 DEF IInv, RequestInv, NobodyIsForgotten
  <2>2. ASSUME NEW g \in Flights, flight'[g].stage # "none"
        PROVE  LET o == flight'[g].leader IN
               /\ o \in Lists
               /\ <<list'[o].at, list'[o].key>> = g
               /\ list'[o].pc = "wait" \/ list'[o].code = "cancelled"
    BY <1>2, <1>3, <2>2 DEF IInv, RequestInv, NobodyIsForgotten
  <2> QED BY <2>1, <2>2 DEF NobodyIsForgotten
<1>5. AnswersAreFinal'
  BY <1>1, <1>2 DEF IInv, RequestInv, AnswersAreFinal
<1>6. SlicesAreFresh' /\ IdleAreFresh'
  BY <1>1, <1>2, <1>3 DEF IInv, RequestInv, SlicesAreFresh, IdleAreFresh, Start
<1> QED BY <1>4, <1>5, <1>6 DEF RequestInv

\* A replica's requests go with its flights.
LEMMA CrashKeeps == ASSUME IInv, NEW r \in Replicas, Crash(r) PROVE RequestInv'
<1> USE DEF Flights
<1>1. \A g \in Flights : flight'[g] = IF g[1] = r THEN NoFlight ELSE flight[g]
  BY DEF Crash
<1>2. list \in [Lists -> List] /\ NoFlight.stage = "none"
  BY DEF IInv, TypeOK, NoFlight
<1>3. \A l \in Lists :
         /\ list'[l].at = list[l].at /\ list'[l].key = list[l].key
         /\ list'[l].ref = list[l].ref /\ list'[l].ver = list[l].ver
         /\ list'[l] = list[l] \/ (list'[l].pc = "done" /\ list[l].at = r)
         /\ list'[l].pc = "wait" => list[l].at # r
         /\ list'[l].pc = "idle" => list[l].pc = "idle"
  BY <1>2 DEF Crash, List
<1>4. NobodyIsForgotten'
  <2>1. ASSUME NEW l \in Lists, list'[l].pc = "wait"
        PROVE  flight'[<<list'[l].at, list'[l].key>>].stage # "none"
    <3>1. <<list[l].at, list[l].key>> \in Flights /\ list[l].at # r /\ list'[l] = list[l]
      BY <1>2, <1>3, <2>1 DEF List
    <3> QED BY <1>1, <2>1, <3>1 DEF IInv, RequestInv, NobodyIsForgotten
  <2>2. ASSUME NEW g \in Flights, flight'[g].stage # "none"
        PROVE  LET l == flight'[g].leader IN
               /\ l \in Lists
               /\ <<list'[l].at, list'[l].key>> = g
               /\ list'[l].pc = "wait" \/ list'[l].code = "cancelled"
    <3>1. g[1] # r /\ flight'[g] = flight[g]
      BY <1>1, <1>2, <2>2
    <3>2. flight[g].leader \in Lists /\ list[flight[g].leader].at = g[1]
      BY <2>2, <3>1 DEF IInv, RequestInv, NobodyIsForgotten
    <3>3. list'[flight[g].leader] = list[flight[g].leader]
      BY <1>3, <3>1, <3>2
    <3> QED BY <2>2, <3>1, <3>2, <3>3 DEF IInv, RequestInv, NobodyIsForgotten
  <2> QED BY <2>1, <2>2 DEF NobodyIsForgotten
<1>5. AnswersAreFinal'
  BY <1>3 DEF IInv, RequestInv, AnswersAreFinal
<1>6. shared' = shared
  BY DEF Crash
<1>7. SlicesAreFresh'
  BY <1>1, <1>2, <1>3, <1>6 DEF IInv, RequestInv, SlicesAreFresh
<1>8. IdleAreFresh'
  BY <1>3, <1>6 DEF IInv, RequestInv, IdleAreFresh
<1> QED BY <1>4, <1>5, <1>7, <1>8 DEF RequestInv

-----------------------------------------------------------------------------
(* The hash.                                                               *)

\* What a writer or the clock does to the hash: it is emptied, or stays as it is
\* with a time to live.
LEMMA HashShrinks ==
    ASSUME IInv, ttl' \in 0..TTL, ttl' = 0 <=> cache' = EmptyHash,
           cache' \in [Keys -> Entry \cup {NoEntry}],
           \A k \in Keys : cache'[k] \in {cache[k], NoEntry},
           \A w \in Writes :
               /\ write'[w].change = write[w].change
               /\ write[w].lost => write'[w].lost
               /\ write'[w].pc = "done" =>
                    write[w].pc = "done" \/ write'[w].lost \/ cache' = EmptyHash
    PROVE  HashInv'
<1>1. StaleForKnownReasons'
  BY DEF IInv, HashInv, StaleForKnownReasons, EmptyHash
<1>2. CachedListsArePlain'
  BY DEF IInv, HashInv, CachedListsArePlain
<1> QED BY <1>1, <1>2 DEF HashInv, HashExpires

\* A put entry is plain, and newer than every change that was not yet deleted
\* then: the others are in its field `over`.
LEMMA PutKeeps == ASSUME IInv, NEW f \in Flights, Put(f) PROVE HashInv'
<1> USE DEF Flights
<1>1. /\ flight[f].leader \in Lists /\ ~shared[flight[f].leader]
      /\ f[2] \in Keys /\ cache \in [Keys -> Entry \cup {NoEntry}]
  BY DEF IInv, TypeOK, RequestInv, NobodyIsForgotten, SlicesAreFresh, Put
<1>2. NewEntry(f) \in Entry
  BY <1>1 DEF IInv, TypeOK, NewEntry, Entry, Flight, Deleted
<1>3. \A k \in Keys : cache'[k] = IF k = f[2] THEN NewEntry(f) ELSE cache[k]
  BY <1>1 DEF Put
<1>4. cache' # EmptyHash /\ ttl' # 0
  BY <1>1, <1>2, <1>3, NoneAssumption, TTLAssumption DEF EmptyHash, Put, PutTTL
<1>5. StaleForKnownReasons'
  BY <1>3 DEF IInv, HashInv, StaleForKnownReasons, Put, NewEntry, Deleted
<1>6. CachedListsArePlain'
  BY <1>1, <1>3 DEF IInv, HashInv, CachedListsArePlain, NewEntry
<1> QED BY <1>4, <1>5, <1>6 DEF HashInv, HashExpires

-----------------------------------------------------------------------------
(* The steps.                                                              *)

\* Steps that leave the hash and the changes alone.
LEMMA HashUnmoved == HashInv /\ UNCHANGED <<cache, ttl, write>> => HashInv'
BY DEF HashInv, HashExpires, StaleForKnownReasons, CachedListsArePlain

\* Steps that leave the requests and flights alone.
LEMMA RequestsUnmoved == RequestInv /\ UNCHANGED <<flight, shared, list>> => RequestInv'
BY DEF RequestInv, NobodyIsForgotten, SlicesAreFresh, IdleAreFresh,
   AnswersAreFinal

\* A step of a request.
LEMMA RequestStep ==
    ASSUME IInv, NEW l \in Lists, Refuse(l) \/ Start(l) \/ Cancel(l) \/ Handle(l)
    PROVE  TypeOK' /\ RequestInv'
<1> USE DEF IInv, TypeOK, RequestInv, AnswersAreFinal
<1>1. CASE Start(l)
  <2>1. [NoFlight EXCEPT !.stage = "get", !.leader = l] \in Flight
    BY DEF NoFlight, Flight
  <2>2. [list[l] EXCEPT !.pc = "wait"] \in List
    BY DEF List
  <2>3. <<list[l].at, list[l].key>> \in Replicas \X Keys
    BY DEF List
  <2>4. TypeOK'
    BY <1>1, <2>1, <2>2, <2>3 DEF Start
  <2> QED BY <1>1, <2>4, StartKeeps
<1>2. CASE Refuse(l) \/ Cancel(l) \/ FetchFails(l)
  <2>1. PICK code \in {"forbidden", "cancelled", "error"} :
           /\ Finish(l, code)
           /\ list[l].pc = "wait" => code = "cancelled"
    BY <1>2 DEF Refuse, Cancel, FetchFails
  <2> DEFINE new == [list[l] EXCEPT !.pc = "done", !.code = code]
  <2>2. list' = [list EXCEPT ![l] = new] /\ new \in List
    BY <2>1 DEF Finish, List
  <2>3. /\ list[l].pc # "done"
        /\ UNCHANGED <<db, cache, ttl, flight, shared, write>>
    BY <1>2 DEF Refuse, Cancel, FetchFails
  <2>4. /\ new.at = list[l].at /\ new.key = list[l].key /\ new.ref = list[l].ref
        /\ new.ver = list[l].ver /\ new.pc = "done" /\ new.code = code
    BY DEF List
  <2>5. RequestInv'
    BY <2>1, <2>2, <2>3, <2>4, MovesKeep
  <2> QED BY <2>2, <2>3, <2>5
<1>3. CASE Fetch(l) \/ Collect(l)
  <2>1. PICK pc1 \in {"collect", "encode"} : list' = [list EXCEPT ![l].pc = pc1]
    BY <1>3 DEF Fetch, Collect
  <2> DEFINE new == [list[l] EXCEPT !.pc = pc1]
  <2>2. list' = [list EXCEPT ![l] = new] /\ new \in List
    BY <2>1 DEF List
  <2>3. /\ list[l].pc \in {"got", "collect"}
        /\ UNCHANGED <<db, cache, ttl, flight, write>>
        /\ shared' \in [Lists -> BOOLEAN]
        /\ \A o \in Lists : shared'[o] => shared[o] \/ o = list[l].ref
    BY <1>3 DEF Fetch, Collect
  <2>4. /\ new.at = list[l].at /\ new.key = list[l].key /\ new.ref = list[l].ref
        /\ new.ver = list[l].ver /\ new.pc = pc1 /\ new.code = list[l].code
    BY DEF List
  <2>5. list[l].code = "none"
    BY <2>3
  <2>6. RequestInv'
    BY <2>2, <2>3, <2>4, <2>5, MovesKeep
  <2> QED BY <2>2, <2>3, <2>6
<1>4. CASE Encode(l)
  <2>1. PICK code \in {"ok", "panic"}, extras \in BOOLEAN :
           list' = [list EXCEPT ![l] = [list[l] EXCEPT !.pc = "done", !.code = code,
                                                       !.extras = extras]]
    <3>1. CASE Racing(l) /\ Finish(l, "panic")
      <4>1. [list[l] EXCEPT !.pc = "done", !.code = "panic"]
              = [list[l] EXCEPT !.pc = "done", !.code = "panic", !.extras = list[l].extras]
        BY DEF List
      <4>2. list[l].extras \in BOOLEAN
        BY DEF List
      <4> QED BY <3>1, <4>1, <4>2 DEF Finish
    <3>2. CASE \E extras \in BOOLEAN :
                 list' = [list EXCEPT ![l].pc = "done", ![l].code = "ok", ![l].extras = extras]
      BY <3>2
    <3> QED BY <1>4, <3>1, <3>2 DEF Encode
  <2> DEFINE new == [list[l] EXCEPT !.pc = "done", !.code = code, !.extras = extras]
  <2>2. new \in List
    BY DEF List
  <2>3. /\ list[l].pc \in {"got", "encode"}
        /\ UNCHANGED <<db, cache, ttl, flight, shared, write>>
    BY <1>4 DEF Encode
  <2>4. /\ new.at = list[l].at /\ new.key = list[l].key /\ new.ref = list[l].ref
        /\ new.ver = list[l].ver /\ new.pc = "done"
    BY DEF List
  <2>5. RequestInv'
    BY <2>1, <2>2, <2>3, <2>4, MovesKeep
  <2> QED BY <2>1, <2>2, <2>3, <2>5
<1> QED BY <1>1, <1>2, <1>3, <1>4 DEF Handle

\* A flight's end keeps the types of requests and flights.
LEMMA DeliverTypes ==
    ASSUME TypeOK, NEW f \in Flights, flight[f].leader \in Lists, NEW ver \in Nat, Deliver(f, ver)
    PROVE  list' \in [Lists -> List] /\ flight' \in [Replicas \X Keys -> Flight]
<1>1. list \in [Lists -> List] /\ NoFlight \in Flight
  BY DEF TypeOK, NoFlight, Flight
<1>2. \A l \in Lists :
         [list[l] EXCEPT !.pc = "got", !.ref = flight[f].leader, !.ver = ver] \in List
  <2> SUFFICES ASSUME NEW old \in List, NEW lead \in Lists
               PROVE  [old EXCEPT !.pc = "got", !.ref = lead, !.ver = ver] \in List
    BY <1>1
  <2> QED BY DEF List
<1> QED BY <1>1, <1>2 DEF TypeOK, Deliver, Flights

LEMMA DeliverErrorTypes ==
    ASSUME TypeOK, NEW f \in Flights, DeliverError(f)
    PROVE  list' \in [Lists -> List] /\ flight' \in [Replicas \X Keys -> Flight]
<1>1. list \in [Lists -> List] /\ NoFlight \in Flight
  BY DEF TypeOK, NoFlight, Flight
<1>2. \A l \in Lists : [list[l] EXCEPT !.pc = "done", !.code = "error"] \in List
  BY <1>1 DEF List
<1> QED BY <1>1, <1>2 DEF TypeOK, DeliverError, Flights

\* A step of a flight.
LEMMA FlightStep ==
    ASSUME IInv, NEW f \in Flights, Fly(f)
    PROVE  IInv'
<1> USE DEF Flights
<1>1. /\ flight[f].stage # "none" /\ flight[f] \in Flight /\ f[2] \in Keys
      /\ flight[f].leader \in Lists
  BY DEF IInv, TypeOK, RequestInv, NobodyIsForgotten, Fly, CacheHit, CacheMiss, CacheCorrupt,
     Load, LoadFails, Put, PutFails
<1>2. CASE CacheHit(f)
  <2>1. cache[f[2]] \in Entry /\ ~cache[f[2]].extras
    BY <1>1, <1>2 DEF CacheHit, IInv, TypeOK, HashInv, CachedListsArePlain
  <2>2. /\ cache[f[2]].ver \in Nat
        /\ shared' \in [Lists -> BOOLEAN]
        /\ \A o \in Lists : shared'[o] => shared[o]
    BY <1>2, <2>1 DEF CacheHit, Entry, IInv, TypeOK
  <2>3. TypeOK' /\ RequestInv'
    BY <1>1, <1>2, <2>2, DeliverTypes, DeliverKeeps DEF CacheHit, IInv, TypeOK
  <2> QED BY <1>2, <2>3, HashUnmoved DEF CacheHit, IInv
<1>3. CASE CacheMiss(f) \/ Load(f)
  <2>1. PICK new \in Flight : /\ flight' = [flight EXCEPT ![f] = new]
                              /\ new.stage # "none" /\ new.leader = flight[f].leader
    <3>1. CASE CacheMiss(f)
      <4> DEFINE new == [flight[f] EXCEPT !.stage = "load"]
      <4>1. new \in Flight /\ new.stage = "load" /\ new.leader = flight[f].leader
        BY <1>1 DEF Flight
      <4>2. flight' = [flight EXCEPT ![f] = new]
        BY <3>1 DEF CacheMiss, ToBase
      <4> QED BY <4>1, <4>2
    <3>2. CASE Load(f)
      <4> DEFINE new == [flight[f] EXCEPT !.stage = "put", !.ver = db]
      <4>1. db \in Nat
        BY DEF IInv, TypeOK
      <4>2. new \in Flight /\ new.stage = "put" /\ new.leader = flight[f].leader
        BY <1>1, <4>1 DEF Flight
      <4>3. flight' = [flight EXCEPT ![f] = new]
        BY <3>2 DEF Load
      <4> QED BY <4>2, <4>3
    <3> QED BY <1>3, <3>1, <3>2
  <2>2. UNCHANGED <<db, cache, ttl, shared, list, write>>
    BY <1>3 DEF CacheMiss, Load
  <2>3. RequestInv'
    BY <1>1, <2>1, <2>2, FlightKeeps
  <2>4. TypeOK'
    BY <2>1, <2>2 DEF IInv, TypeOK
  <2> QED BY <2>2, <2>3, <2>4, HashUnmoved DEF IInv
<1>4. CASE CacheCorrupt(f)
  <2> DEFINE new == [flight[f] EXCEPT !.stage = "load"]
  <2>1. /\ flight' = [flight EXCEPT ![f] = new] /\ new \in Flight
        /\ new.stage = "load" /\ new.leader = flight[f].leader
    BY <1>1, <1>4 DEF CacheCorrupt, ToBase, Flight
  <2>2. UNCHANGED <<db, shared, list, write>>
    BY <1>4 DEF CacheCorrupt
  <2>3. /\ cache' \in [Keys -> Entry \cup {NoEntry}]
        /\ \A k \in Keys : cache'[k] \in {cache[k], NoEntry}
        /\ cache # EmptyHash
    BY <1>1, <1>4 DEF CacheCorrupt, IInv, TypeOK, EmptyHash
  <2>4. ttl' \in 0..TTL /\ (ttl' = 0 <=> cache' = EmptyHash)
    BY <1>4, <2>3, TTLAssumption DEF CacheCorrupt, TtlOf, IInv, TypeOK, HashInv, HashExpires
  <2>5. RequestInv'
    BY <1>1, <2>1, <2>2, FlightKeeps
  <2>6. HashInv'
    BY <2>2, <2>3, <2>4, HashShrinks
  <2>7. TypeOK'
    BY <2>1, <2>2, <2>3, <2>4 DEF IInv, TypeOK
  <2> QED BY <2>5, <2>6, <2>7 DEF IInv
<1>5. CASE LoadFails(f)
  <2>1. TypeOK' /\ RequestInv'
    BY <1>1, <1>5, DeliverErrorTypes, DeliverErrorKeeps DEF LoadFails, IInv, TypeOK
  <2> QED BY <1>5, <2>1, HashUnmoved DEF LoadFails, IInv
<1>6. CASE Put(f)
  <2>1. flight[f].ver \in Nat /\ shared' = shared
    BY <1>1, <1>6 DEF Flight, Put
  <2>2. RequestInv' /\ list' \in [Lists -> List] /\ flight' \in [Replicas \X Keys -> Flight]
    BY <1>1, <1>6, <2>1, DeliverTypes, DeliverKeeps DEF Put, IInv
  <2>3. NewEntry(f) \in Entry
    BY <1>1 DEF IInv, TypeOK, NewEntry, Entry, Flight, Deleted
  <2>4. /\ cache' = [cache EXCEPT ![f[2]] = NewEntry(f)]
        /\ ttl' = TTL /\ TTL \in 0..TTL
        /\ UNCHANGED <<db, shared, write>>
    BY <1>6, TTLAssumption DEF Put, PutTTL
  <2>5. cache' \in [Keys -> Entry \cup {NoEntry}]
    BY <1>1, <2>3, <2>4 DEF IInv, TypeOK
  <2>6. TypeOK'
    BY <2>2, <2>4, <2>5 DEF IInv, TypeOK
  <2> QED BY <1>6, <2>2, <2>6, PutKeeps DEF IInv
<1>7. CASE PutFails(f)
  <2>1. flight[f].ver \in Nat /\ shared' = shared
    BY <1>1, <1>7 DEF Flight, PutFails
  <2>2. TypeOK' /\ RequestInv'
    BY <1>1, <1>7, <2>1, DeliverTypes, DeliverKeeps DEF PutFails, IInv, TypeOK
  <2> QED BY <1>7, <2>2, HashUnmoved DEF PutFails, IInv
<1> QED BY <1>2, <1>3, <1>4, <1>5, <1>6, <1>7 DEF Fly

\* A step of a writer.
LEMMA WriteStep ==
    ASSUME IInv, NEW w \in Writes, Commit(w) \/ Del(w) \/ DelFails(w)
    PROVE  IInv'
<1>1. RequestInv'
  BY RequestsUnmoved DEF IInv, Commit, Del, DelFails
<1>2. CASE Commit(w) \/ DelFails(w)
  <2>1. PICK new \in Write :
           /\ write' = [write EXCEPT ![w] = new]
           /\ write[w].lost => new.lost
           /\ new.change = write[w].change \/ (write[w].pc # "done" /\ new.pc = "del")
           /\ new.pc = "done" => new.lost
    <3>1. CASE Commit(w)
      <4> DEFINE new == [write[w] EXCEPT !.pc = "del", !.change = db + 1]
      <4>1. write[w] \in Write /\ db + 1 \in Nat
        BY DEF IInv, TypeOK
      <4>2. new \in Write /\ new.pc = "del" /\ new.lost = write[w].lost
        BY <4>1 DEF Write
      <4>3. write' = [write EXCEPT ![w] = new] /\ write[w].pc = "idle"
        BY <3>1 DEF Commit
      <4> QED BY <4>2, <4>3
    <3>2. CASE DelFails(w)
      <4> DEFINE new == [write[w] EXCEPT !.pc = "done", !.code = "ok", !.lost = TRUE]
      <4>1. write[w] \in Write
        BY DEF IInv, TypeOK
      <4>2. new \in Write /\ new.lost /\ new.change = write[w].change
        BY <4>1 DEF Write
      <4>3. write' = [write EXCEPT ![w] = new]
        BY <3>2 DEF DelFails
      <4> QED BY <4>2, <4>3
    <3> QED BY <1>2, <3>1, <3>2
  <2>2. TypeOK'
    BY <1>2, <2>1 DEF Commit, DelFails, IInv, TypeOK
  <2>3. HashInv'
    <3>1. UNCHANGED <<cache, ttl>>
      BY <1>2 DEF Commit, DelFails
    <3>2. \A x \in Writes : write'[x] = IF x = w THEN new ELSE write[x]
      BY <2>1 DEF IInv, TypeOK
    <3>3. StaleForKnownReasons'
      BY <2>1, <3>1, <3>2 DEF IInv, HashInv, StaleForKnownReasons
    <3> QED BY <3>1, <3>3 DEF IInv, HashInv, HashExpires, CachedListsArePlain
  <2> QED BY <1>1, <2>2, <2>3 DEF IInv
<1>3. CASE Del(w)
  <2> DEFINE new == [write[w] EXCEPT !.pc = "done", !.code = "ok"]
  <2>1. /\ write' = [write EXCEPT ![w] = new] /\ new \in Write
        /\ new.change = write[w].change /\ new.lost = write[w].lost
    BY <1>3 DEF Del, Write, IInv, TypeOK
  <2>2. /\ cache' = EmptyHash /\ ttl' = 0
        /\ UNCHANGED <<db, flight, shared, list>>
    BY <1>3 DEF Del, AfterDel, TtlOf
  <2>3. EmptyHash \in [Keys -> Entry \cup {NoEntry}] /\ \A k \in Keys : EmptyHash[k] = NoEntry
    BY DEF EmptyHash
  <2>4. ttl' \in 0..TTL
    BY <2>2, TTLAssumption
  <2>5. HashInv'
    BY <2>1, <2>2, <2>3, <2>4, HashShrinks DEF IInv, TypeOK
  <2>6. TypeOK'
    BY <2>1, <2>2, <2>3, <2>4 DEF IInv, TypeOK
  <2> QED BY <1>1, <2>5, <2>6 DEF IInv
<1> QED BY <1>2, <1>3

\* The clock.
LEMMA TickStep == ASSUME IInv, Tick PROVE IInv'
<1>1. RequestInv'
  BY RequestsUnmoved DEF IInv, Tick
<1>2. /\ cache' \in [Keys -> Entry \cup {NoEntry}]
      /\ \A k \in Keys : cache'[k] \in {cache[k], NoEntry}
      /\ ttl' \in 0..TTL /\ (ttl' = 0 <=> cache' = EmptyHash)
  BY TTLAssumption DEF Tick, IInv, TypeOK, HashInv, HashExpires, EmptyHash
<1>3. HashInv'
  BY <1>2, HashShrinks DEF Tick
<1>4. TypeOK'
  BY <1>2 DEF Tick, IInv, TypeOK
<1> QED BY <1>1, <1>3, <1>4 DEF IInv

\* A replica dies: the hash stays, without the Dels that replica still owed.
LEMMA CrashStep == ASSUME IInv, NEW r \in Replicas, Crash(r) PROVE IInv'
<1>1. /\ \A w \in Writes :
           /\ write'[w] \in Write
           /\ write'[w].change = write[w].change
           /\ write[w].lost => write'[w].lost
           /\ write'[w].pc = "done" => write[w].pc = "done" \/ write'[w].lost
      /\ write' \in [Writes -> Write]
  BY DEF Crash, Write, IInv, TypeOK
<1>2. list' \in [Lists -> List]
  <2>1. list \in [Lists -> List]
    BY DEF IInv, TypeOK
  <2>2. \A l \in Lists : [list[l] EXCEPT !.pc = "done", !.code = "crashed"] \in List
    BY <2>1 DEF List
  <2> QED BY <2>1, <2>2 DEF Crash
<1>3. flight' \in [Replicas \X Keys -> Flight]
  BY DEF Crash, NoFlight, Flight, IInv, TypeOK
<1>4. UNCHANGED <<db, cache, ttl, shared>>
  BY DEF Crash
<1>5. TypeOK'
  BY <1>1, <1>2, <1>3, <1>4 DEF IInv, TypeOK
<1>6. HashInv'
  BY <1>1, <1>4, HashShrinks DEF IInv, TypeOK, HashInv, HashExpires
<1> QED BY <1>5, <1>6, CrashKeeps DEF IInv

\* Every step keeps the invariant, whatever fails.
THEOREM Inductive == Spec => []IInv
<1>1. IInv /\ [Next]_vars => IInv'
  <2> SUFFICES ASSUME IInv, [Next]_vars PROVE IInv'
    OBVIOUS
  <2>1. ASSUME NEW l \in Lists, Refuse(l) \/ Start(l) \/ Cancel(l) \/ Handle(l) PROVE IInv'
    <3>1. UNCHANGED <<cache, ttl, write>>
      BY <2>1 DEF Refuse, Start, Cancel, Handle, Fetch, FetchFails, Collect, Encode
    <3> QED BY <2>1, <3>1, RequestStep, HashUnmoved DEF IInv
  <2>2. ASSUME NEW f \in Replicas \X Keys, Fly(f) PROVE IInv'
    BY <2>2, FlightStep DEF Flights
  <2>3. ASSUME NEW w \in Writes, Commit(w) \/ Del(w) \/ DelFails(w) PROVE IInv'
    BY <2>3, WriteStep
  <2>4. ASSUME NEW r \in Replicas, Crash(r) PROVE IInv'
    BY <2>4, CrashStep
  <2>5. ASSUME UNCHANGED vars PROVE IInv'
    BY <2>5, HashUnmoved, RequestsUnmoved DEF vars, IInv, TypeOK
  <2> QED BY <2>1, <2>2, <2>3, <2>4, <2>5, TickStep DEF Next, Quiet
<1> QED BY <1>1, InitIInv, PTL DEF Spec

\* However flights, changes, failures and crashes interleave, a list in Redis
\* misses an acknowledged change for one of the two known reasons only.
THEOREM StalenessIsAccountedFor == Spec => []StaleForKnownReasons
<1>1. IInv => StaleForKnownReasons
  BY DEF IInv, HashInv
<1> QED BY <1>1, Inductive, PTL

\* Comments and history written into a shared slice never reach Redis.
THEOREM ExtrasStayOut == Spec => []CachedListsArePlain
<1>1. IInv => CachedListsArePlain
  BY DEF IInv, HashInv
<1> QED BY <1>1, Inductive, PTL

\* The hash always has a time to live.
THEOREM HashNeverStays == Spec => []HashExpires
<1>1. IInv => HashExpires
  BY DEF IInv, HashInv
<1> QED BY <1>1, Inductive, PTL

\* Every waiting request has its flight, every flight a request of its own.
THEOREM FlightsServeTheirRequests == Spec => []NobodyIsForgotten
<1>1. IInv => NobodyIsForgotten
  BY DEF IInv, RequestInv
<1> QED BY <1>1, Inductive, PTL

-----------------------------------------------------------------------------
(* Comments that were not asked for.                                       *)

\* Somebody who holds the slice of flight s has asked for comments or history.
Asked(s) == \E o \in Lists : list[o].with /\ list[o].ref = s

\* A request holds a slice from its delivery on, and writes only what it asked for.
Holding(l) ==
    /\ list[l].pc \in {"idle", "wait"} => list[l].ref = NoList
    /\ list[l].pc \in {"got", "collect", "encode"} => list[l].ref \in Lists
    /\ list[l].pc = "collect" => list[l].with
    /\ list[l].code = "ok" => list[l].ref \in Lists

ExtraInv ==
    /\ \A l \in Lists : Holding(l)
    /\ \A s \in Lists : shared[s] => Asked(s)
    /\ ExtrasWereAskedFor

LEMMA InitExtras == Init => ExtraInv
BY DEF Init, ExtraInv, Holding, ExtrasWereAskedFor

\* What has been asked for stays so: nobody gives up a slice.
LEMMA AskedStays ==
    ASSUME \A l \in Lists : /\ list'[l].with = list[l].with
                            /\ list[l].ref # NoList => list'[l].ref = list[l].ref
    PROVE  \A s \in Lists : Asked(s) => Asked(s)'
BY NoneAssumption DEF Asked

\* A step after which the slices hold no more than before, and nobody is answered.
LEMMA NothingShown ==
    ASSUME ExtraInv,
           \A l \in Lists : /\ list'[l].with = list[l].with
                            /\ list[l].ref # NoList => list'[l].ref = list[l].ref
                            /\ list'[l].code = "ok" => list'[l] = list[l]
                            /\ Holding(l)',
           \A s \in Lists : shared'[s] => shared[s]
    PROVE  ExtraInv'
<1>1. \A s \in Lists : Asked(s) => Asked(s)'
  BY AskedStays
<1>2. \A s \in Lists : shared'[s] => Asked(s)'
  BY <1>1 DEF ExtraInv
<1>3. ASSUME NEW l \in Lists, list'[l].code = "ok", list'[l].extras
      PROVE  \E o \in Lists : list'[o].with /\ list'[o].ref = list'[l].ref
  <2>1. list'[l] = list[l]
    BY <1>3
  <2>2. PICK o \in Lists : list[o].with /\ list[o].ref = list[l].ref
    BY <1>3, <2>1 DEF ExtraInv, ExtrasWereAskedFor
  <2>3. list[l].ref # NoList
    BY <1>3, <2>1, NoneAssumption DEF ExtraInv, Holding
  <2> QED BY <2>1, <2>2, <2>3
<1> QED BY <1>2, <1>3 DEF ExtraInv, ExtrasWereAskedFor

\* One request moves.
LEMMA RequestExtras ==
    ASSUME IInv, ExtraInv, NEW l \in Lists, Refuse(l) \/ Start(l) \/ Cancel(l) \/ Handle(l)
    PROVE  ExtraInv'
<1>1. /\ list \in [Lists -> List] /\ list[l] \in List
      /\ shared \in [Lists -> BOOLEAN]
      /\ \A o \in Lists : Holding(o)
  BY DEF IInv, TypeOK, ExtraInv
<1>2. CASE Refuse(l) \/ Start(l) \/ Cancel(l) \/ Fetch(l) \/ FetchFails(l)
  <2>1. /\ \A o \in Lists : o # l => list'[o] = list[o]
        /\ list'[l].with = list[l].with /\ list'[l].ref = list[l].ref
        /\ \/ list'[l].pc = "done" /\ list'[l].code # "ok"
           \/ /\ list'[l].code = list[l].code /\ list[l].pc # "done"
              /\ \/ list[l].pc = "idle" /\ list'[l].pc = "wait"
                 \/ list[l].pc = "got" /\ list[l].with /\ list'[l].pc = "collect"
    BY <1>1, <1>2 DEF Refuse, Start, Cancel, Fetch, FetchFails, Finish, List
  <2>2. shared' = shared
    BY <1>2 DEF Refuse, Start, Cancel, Fetch, FetchFails
  <2>3. \A o \in Lists : /\ list'[o].with = list[o].with
                         /\ list[o].ref # NoList => list'[o].ref = list[o].ref
                         /\ list'[o].code = "ok" => list'[o] = list[o]
                         /\ Holding(o)'
    <3>1. \A o \in Lists : list[o].code # "none" => list[o].pc = "done"
      BY DEF IInv, RequestInv, AnswersAreFinal
    <3>2. list[l].pc # "done" => list[l].code # "ok"
      BY <3>1
    <3>3. Holding(l) /\ Holding(l)'
      BY <1>1, <2>1, <3>2 DEF Holding
    <3>4. \A o \in Lists \ {l} : Holding(o)'
      BY <1>1, <2>1 DEF Holding
    <3> QED BY <2>1, <3>2, <3>3, <3>4
  <2> QED BY <2>2, <2>3, NothingShown
<1>3. CASE Collect(l)
  <2>1. /\ list' = [list EXCEPT ![l].pc = "encode"]
        /\ shared' = [shared EXCEPT ![list[l].ref] = TRUE]
        /\ list[l].with /\ list[l].ref \in Lists
    BY <1>1, <1>3 DEF Collect, Holding
  <2>2. \A o \in Lists : /\ list'[o].with = list[o].with /\ list'[o].ref = list[o].ref
                         /\ list'[o].code = list[o].code /\ list'[o].extras = list[o].extras
                         /\ Holding(o)'
    BY <1>1, <2>1 DEF Holding, List
  <2>3. \A s \in Lists : Asked(s) => Asked(s)'
    BY <2>2, AskedStays
  <2>4. Asked(list[l].ref)'
    BY <2>1, <2>2 DEF Asked
  <2>5. \A s \in Lists : shared'[s] => Asked(s)'
    BY <1>1, <2>1, <2>3, <2>4 DEF ExtraInv
  <2>6. ExtrasWereAskedFor'
    BY <2>2 DEF ExtraInv, ExtrasWereAskedFor
  <2> QED BY <2>2, <2>5, <2>6 DEF ExtraInv
<1>4. CASE Encode(l)
  <2>1. CASE Racing(l) /\ Finish(l, "panic")
    <3>1. \A o \in Lists : /\ list'[o].with = list[o].with
                           /\ list[o].ref # NoList => list'[o].ref = list[o].ref
                           /\ list'[o].code = "ok" => list'[o] = list[o]
                           /\ Holding(o)'
      BY <1>1, <2>1 DEF Finish, Holding, List
    <3>2. shared' = shared
      BY <1>4 DEF Encode
    <3> QED BY <3>1, <3>2, NothingShown
  <2>2. ASSUME NEW extras \in BOOLEAN,
               extras = shared[list[l].ref] \/ (extras /\ Racing(l)),
               list' = [list EXCEPT ![l].pc = "done", ![l].code = "ok", ![l].extras = extras]
        PROVE  ExtraInv'
    <3>1. \A o \in Lists : /\ list'[o].with = list[o].with /\ list'[o].ref = list[o].ref
                           /\ o # l => list'[o] = list[o]
                           /\ Holding(o)'
      BY <1>1, <2>2 DEF Holding, List
    <3>2. list'[l].extras = extras /\ list[l].ref \in Lists
      BY <1>1, <1>4, <2>2 DEF Encode, Holding, List
    <3>3. \A s \in Lists : Asked(s) <=> Asked(s)'
      BY <3>1 DEF Asked
    <3>4. extras => Asked(list[l].ref)
      BY <1>1, <2>2, <3>2 DEF ExtraInv, Racing, Holding, Asked
    <3>5. ExtrasWereAskedFor'
      BY <3>1, <3>2, <3>4 DEF ExtraInv, ExtrasWereAskedFor, Asked
    <3>6. shared' = shared
      BY <1>4 DEF Encode
    <3> QED BY <3>1, <3>3, <3>5, <3>6 DEF ExtraInv
  <2> QED BY <1>4, <2>1, <2>2 DEF Encode
<1> QED BY <1>2, <1>3, <1>4 DEF Handle

\* A slice that is handed out is bare, or was not in the hash.
LEMMA FlightExtras ==
    ASSUME IInv, ExtraInv, NEW f \in Flights, Fly(f)
    PROVE  ExtraInv'
<1>1. /\ list \in [Lists -> List] /\ cache \in [Keys -> Entry \cup {NoEntry}]
      /\ shared \in [Lists -> BOOLEAN]
      /\ \A o \in Lists : Holding(o)
  BY DEF IInv, TypeOK, ExtraInv
<1>2. flight[f].stage # "none" => flight[f].leader \in Lists
  BY DEF IInv, RequestInv, NobodyIsForgotten, Flights
<1>3. \A s \in Lists : shared'[s] => shared[s]
  <2>1. CASE CacheHit(f)
    <3>1. cache[f[2]] # NoEntry /\ f[2] \in Keys
      BY <2>1 DEF CacheHit, Flights
    <3>2. ~cache[f[2]].extras
      BY <3>1 DEF IInv, HashInv, CachedListsArePlain
    <3>3. shared' = [shared EXCEPT ![flight[f].leader] = cache[f[2]].extras]
      BY <2>1 DEF CacheHit
    <3> QED BY <1>1, <3>2, <3>3
  <2> QED BY <2>1 DEF Fly, CacheMiss, CacheCorrupt, Load, LoadFails, Put, PutFails
<1>4. CASE CacheMiss(f) \/ CacheCorrupt(f) \/ Load(f)
  BY <1>1, <1>3, <1>4, NothingShown DEF CacheMiss, CacheCorrupt, Load, Holding
<1>5. CASE LoadFails(f)
  <2>1. \A l \in Lists : list'[l] = IF l \in Joined(f)
                                    THEN [list[l] EXCEPT !.pc = "done", !.code = "error"] ELSE list[l]
    BY <1>5 DEF LoadFails, DeliverError
  <2>2. \A o \in Lists : /\ list'[o].with = list[o].with
                         /\ list[o].ref # NoList => list'[o].ref = list[o].ref
                         /\ list'[o].code = "ok" => list'[o] = list[o]
                         /\ Holding(o)'
    <3> SUFFICES ASSUME NEW o \in Lists
                 PROVE  /\ list'[o].with = list[o].with
                        /\ list[o].ref # NoList => list'[o].ref = list[o].ref
                        /\ list'[o].code = "ok" => list'[o] = list[o]
                        /\ Holding(o)'
      OBVIOUS
    <3>1. CASE o \notin Joined(f)
      <4>1. list'[o] = list[o]
        BY <2>1, <3>1
      <4> QED BY <1>1, <4>1 DEF Holding
    <3>2. CASE o \in Joined(f)
      <4>1. list'[o] = [list[o] EXCEPT !.pc = "done", !.code = "error"]
        BY <2>1, <3>2
      <4> QED BY <1>1, <4>1 DEF Holding, List
    <3> QED BY <3>1, <3>2
  <2> QED BY <1>3, <2>2, NothingShown
<1>6. ASSUME NEW ver, Deliver(f, ver), flight[f].stage # "none" PROVE ExtraInv'
  <2>1. \A l \in Lists : list'[l] = IF l \in Joined(f)
          THEN [list[l] EXCEPT !.pc = "got", !.ref = flight[f].leader, !.ver = ver] ELSE list[l]
    BY <1>6 DEF Deliver
  <2>2. \A l \in Joined(f) : list[l].pc = "wait" /\ list[l].ref = NoList /\ list[l].code = "none"
    BY <1>1 DEF Joined, Holding, IInv, RequestInv, AnswersAreFinal
  <2>3. \A o \in Lists : /\ list'[o].with = list[o].with
                         /\ list[o].ref # NoList => list'[o].ref = list[o].ref
                         /\ list'[o].code = "ok" => list'[o] = list[o]
                         /\ Holding(o)'
    <3> SUFFICES ASSUME NEW o \in Lists
                 PROVE  /\ list'[o].with = list[o].with
                        /\ list[o].ref # NoList => list'[o].ref = list[o].ref
                        /\ list'[o].code = "ok" => list'[o] = list[o]
                        /\ Holding(o)'
      OBVIOUS
    <3>1. CASE o \notin Joined(f)
      <4>1. list'[o] = list[o]
        BY <2>1, <3>1
      <4> QED BY <1>1, <4>1 DEF Holding
    <3>2. CASE o \in Joined(f)
      <4>1. list'[o] = [list[o] EXCEPT !.pc = "got", !.ref = flight[f].leader, !.ver = ver]
        BY <2>1, <3>2
      <4> QED BY <1>1, <1>2, <1>6, <2>2, <3>2, <4>1 DEF Holding, List
    <3> QED BY <3>1, <3>2
  <2> QED BY <1>3, <2>3, NothingShown
<1> QED BY <1>4, <1>5, <1>6 DEF Fly, CacheHit, Put, PutFails

\* A crash answers requests, and takes nothing out of their hands.
LEMMA CrashExtras ==
    ASSUME IInv, ExtraInv, NEW r \in Replicas, Crash(r)
    PROVE  ExtraInv'
<1>1. \A l \in Lists : list'[l] = IF list[l].at = r /\ list[l].pc \notin {"idle", "done"}
        THEN [list[l] EXCEPT !.pc = "done", !.code = "crashed"] ELSE list[l]
  BY DEF Crash
<1>2. list \in [Lists -> List] /\ shared' = shared /\ \A o \in Lists : Holding(o)
  BY DEF Crash, IInv, TypeOK, ExtraInv
<1>3. \A o \in Lists : /\ list'[o].with = list[o].with
                       /\ list[o].ref # NoList => list'[o].ref = list[o].ref
                       /\ list'[o].code = "ok" => list'[o] = list[o]
                       /\ Holding(o)'
  <2> SUFFICES ASSUME NEW o \in Lists
               PROVE  /\ list'[o].with = list[o].with
                      /\ list[o].ref # NoList => list'[o].ref = list[o].ref
                      /\ list'[o].code = "ok" => list'[o] = list[o]
                      /\ Holding(o)'
    OBVIOUS
  <2>1. CASE list'[o] = list[o]
    BY <1>2, <2>1 DEF Holding
  <2>2. CASE list'[o] = [list[o] EXCEPT !.pc = "done", !.code = "crashed"]
    BY <1>2, <2>2 DEF Holding, List
  <2> QED BY <1>1, <2>1, <2>2
<1>4. \A s \in Lists : shared'[s] => shared[s]
  BY <1>2
<1> QED BY <1>3, <1>4, NothingShown

\* Comments appear in a list that did not ask for them only if another request of
\* its flight did.
THEOREM ExtrasComeFromSharers == Spec => []ExtrasWereAskedFor
<1>1. IInv /\ ExtraInv /\ [Next]_vars => ExtraInv'
  <2> SUFFICES ASSUME IInv, ExtraInv, [Next]_vars PROVE ExtraInv'
    OBVIOUS
  <2>1. ASSUME UNCHANGED <<list, shared>> PROVE ExtraInv'
    BY <2>1 DEF ExtraInv, Holding, Asked, ExtrasWereAskedFor
  <2>2. ASSUME NEW w \in Writes, Commit(w) \/ Del(w) \/ DelFails(w) PROVE ExtraInv'
    BY <2>1, <2>2 DEF Commit, Del, DelFails
  <2> QED BY <2>1, <2>2, RequestExtras, FlightExtras, CrashExtras DEF Next, Tick, Quiet, vars, Flights
<1>2. ExtraInv => ExtrasWereAskedFor
  BY DEF ExtraInv
<1> QED BY <1>1, <1>2, InitExtras, Inductive, PTL DEF Spec
=============================================================================
