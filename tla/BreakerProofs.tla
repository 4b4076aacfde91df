---------------------------- MODULE BreakerProofs ----------------------------
(***************************************************************************)
(* Proofs about the breaker, for any handlers and any configuration that   *)
(* fits in a uint32: when it opens and closes, it has a reason to.         *)
(***************************************************************************)
EXTENDS BreakerSafety, FiniteSetTheorems, SequenceTheorems, TLAPS

-----------------------------------------------------------------------------
(* Sequences and numbers.                                                  *)

LEMMA RemoveAtProperties ==
    ASSUME NEW S, NEW w \in Seq(S), NEW i \in 1..Len(w)
    PROVE  /\ RemoveAt(w, i) \in Seq(S)
           /\ Len(RemoveAt(w, i)) = Len(w) - 1
           /\ \A j \in 1..(Len(w) - 1) : RemoveAt(w, i)[j] = IF j < i THEN w[j] ELSE w[j + 1]
<1> DEFINE n == Len(w)
           a == SubSeq(w, 1, i - 1)
           b == SubSeq(w, i + 1, n)
<1>1. n \in Nat /\ i \in 1..n /\ \A j \in 1..n : w[j] \in S
  BY LenProperties, ElementOfSeq
<1>2. /\ a \in Seq(S) /\ Len(a) = i - 1
      /\ \A j \in 1..(i - 1) : a[j] = w[j]
  BY <1>1, SubSeqProperties
<1>3. /\ b \in Seq(S) /\ Len(b) = n - i
      /\ \A j \in 1..(n - i) : b[j] = w[i + j]
  BY <1>1, SubSeqProperties
<1>4. /\ a \o b \in Seq(S) /\ Len(a \o b) = n - 1
      /\ \A j \in 1..(n - 1) : (a \o b)[j] = IF j <= i - 1 THEN a[j] ELSE b[j - (i - 1)]
  <2> HIDE DEF a, b, n
  <2>1. /\ a \o b \in Seq(S) /\ Len(a \o b) = Len(a) + Len(b)
        /\ \A j \in 1..(Len(a) + Len(b)) :
              (a \o b)[j] = IF j <= Len(a) THEN a[j] ELSE b[j - Len(a)]
    BY <1>2, <1>3, ConcatProperties
  <2>2. Len(a) + Len(b) = n - 1
    BY <1>1, <1>2, <1>3
  <2> QED BY <1>2, <2>1, <2>2
<1>5. ASSUME NEW j \in 1..(n - 1)
      PROVE  (a \o b)[j] = IF j < i THEN w[j] ELSE w[j + 1]
  <2> HIDE DEF a, b, n
  <2>1. CASE j < i
    BY <1>1, <1>2, <1>4, <2>1
  <2>2. CASE ~(j < i)
    <3>1. j - (i - 1) \in 1..(n - i) /\ ~(j <= i - 1) /\ i + (j - (i - 1)) = j + 1
      BY <1>1, <2>2
    <3> QED BY <1>3, <1>4, <2>2, <3>1
  <2> QED BY <2>1, <2>2
<1> QED BY <1>4, <1>5 DEF RemoveAt

\* A number that fits is kept by the conversion.
LEMMA Uint32Keeps ==
    ASSUME NEW n \in Int, n < Width
    PROVE  Uint32(n) \in Nat /\ n <= Uint32(n)
BY ConfigAssumption DEF Uint32

-----------------------------------------------------------------------------
(* The invariant is inductive.                                             *)

\* The calls under way that are in a window are there once.
Single(w, c) ==
    \A i \in DOMAIN w : w[i] \in Handlers =>
        c[w[i]] = "query" /\ \A j \in DOMAIN w \ {i} : w[j] # w[i]

LEMMA InitIInv == Init => IInv
<1> SUFFICES ASSUME Init PROVE IInv
  OBVIOUS
<1>1. window \in Window /\ DOMAIN window = {}
  BY EmptySeq DEF Init, Window
<1> QED BY <1>1 DEF Init, IInv, TypeOK

LEMMA RequestStep ==
    ASSUME IInv, NEW h \in Handlers, Request(h)
    PROVE  IInv'
<1> DEFINE n == Len(window)
<1>1. /\ window \in Seq(Handlers \cup Kinds) /\ n \in Nat /\ DOMAIN window = 1..n
      /\ h \in Handlers \cup Kinds
  BY LenProperties DEF IInv, TypeOK, Window
<1>2. /\ window' \in Seq(Handlers \cup Kinds) /\ Len(window') = n + 1
      /\ \A i \in 1..n : window'[i] = window[i]
      /\ window'[n + 1] = h
      /\ DOMAIN window' = 1..(n + 1)
  BY <1>1, AppendProperties, LenProperties DEF Request
<1>3. \A i \in 1..n : window[i] # h
  BY <1>1 DEF Request, IInv, TypeOK
<1>4. caller' \in [Handlers -> {"idle", "query", "refused"} \cup Kinds] /\ caller'[h] = "query"
      /\ \A g \in Handlers : caller[g] = "query" => caller'[g] = "query"
  BY DEF Request, IInv, TypeOK
<1>5. Single(window, caller)
  BY DEF IInv, TypeOK, Single
<1>6. Single(window', caller')
  <2> SUFFICES ASSUME NEW i \in 1..(n + 1), window'[i] \in Handlers
               PROVE  caller'[window'[i]] = "query" /\ \A j \in (1..(n + 1)) \ {i} : window'[j] # window'[i]
    BY <1>2 DEF Single
  <2> HIDE DEF n
  <2>1. \A j \in 1..(n + 1) : j \in 1..n \/ j = n + 1
    BY <1>1
  <2> QED BY <1>1, <1>2, <1>3, <1>4, <1>5, <2>1 DEF Single
<1>7. state' = "halfOpen" => \A i \in DOMAIN window' : window'[i] \notin Faults
  <2> HIDE DEF n
  <2>1. \A j \in 1..(n + 1) : j \in 1..n \/ j = n + 1
    BY <1>1
  <2>2. h \notin Faults
    BY HandlersAssumption DEF Faults, Kinds
  <2> QED BY <1>1, <1>2, <2>1, <2>2 DEF Request, IInv
<1>8. state' # "open" /\ UNCHANGED <<state, healthy, halfOpenMaxReq, returned>>
  BY DEF Request
<1> QED BY <1>2, <1>4, <1>6, <1>7, <1>8 DEF IInv, TypeOK, Single, Window

\* What the window becomes with the outcome of a call in it.
LEMMA RecordedWindow ==
    ASSUME IInv, NEW h \in Handlers, h \in ToSet(window), caller[h] = "query",
           NEW k \in Kinds, caller' = [caller EXCEPT ![h] = k]
    PROVE  /\ Recorded(h, k) \in Window
           /\ Single(Recorded(h, k), caller')
           /\ (state = "halfOpen" /\ Verdict(k) # "failure") =>
                \A i \in DOMAIN Recorded(h, k) : Recorded(h, k)[i] \notin Faults
<1> DEFINE n == Len(window)
           r == Recorded(h, k)
<1>1. /\ window \in Seq(Handlers \cup Kinds) /\ n \in Nat /\ DOMAIN window = 1..n
      /\ \A i \in 1..n : window[i] \in Handlers \cup Kinds
  BY LenProperties, ElementOfSeq DEF IInv, TypeOK, Window
<1>2. PICK p \in 1..n : window[p] = h
  BY <1>1 DEF ToSet
<1>3. /\ \A i \in 1..n : window[i] \in Handlers => caller[window[i]] = "query"
      /\ \A i \in 1..n, j \in 1..n : window[i] \in Handlers /\ i # j => window[j] # window[i]
  BY <1>1 DEF IInv, TypeOK
<1>4. \A i \in 1..n : window[i] = h => i = p
  BY <1>2, <1>3
<1>5. /\ \A g \in Handlers : g # h => caller'[g] = caller[g]
      /\ k \notin Handlers
  BY HandlersAssumption DEF IInv, TypeOK
<1>6. Verdict(k) # "failure" => k \notin Faults
  BY DEF Verdict, MapMySqlError, IsExcluded, IsSuccessful, MySQLErrors, Kinds, Faults
<1>7. state = "halfOpen" => \A i \in 1..n : window[i] \notin Faults
  BY <1>1 DEF IInv
<1>8. CASE Verdict(k) = "excluded" /\ returned
  <2> DEFINE q == CHOOSE i \in DOMAIN window : window[i] = h
  <2>1. q = p
    BY <1>1, <1>2, <1>4
  <2>2. r = RemoveAt(window, p)
    BY <1>8, <2>1 DEF Recorded
  <2>3. /\ r \in Seq(Handlers \cup Kinds) /\ Len(r) = n - 1
        /\ \A j \in 1..(n - 1) : r[j] = IF j < p THEN window[j] ELSE window[j + 1]
    BY <1>1, <2>2, RemoveAtProperties
  <2>4. DOMAIN r = 1..(n - 1)
    BY <2>3, LenProperties
  <2> DEFINE from(j) == IF j < p THEN j ELSE j + 1
  <2>5. \A j \in 1..(n - 1) : from(j) \in 1..n /\ from(j) # p /\ r[j] = window[from(j)]
    BY <1>1, <2>3
  <2>6. \A i, j \in 1..(n - 1) : i # j => from(i) # from(j)
    BY <1>1
  <2> HIDE DEF from, n, r
  <2>7. Single(r, caller')
    BY <1>3, <1>4, <1>5, <2>4, <2>5, <2>6 DEF Single
  <2> QED BY <1>7, <2>3, <2>4, <2>5, <2>7 DEF Window, r
<1>9. CASE ~(Verdict(k) = "excluded" /\ returned)
  <2>1. r = [i \in 1..n |-> IF window[i] = h THEN k ELSE window[i]]
    BY <1>1, <1>9 DEF Recorded
  <2>2. r \in Window
    <3>1. r \in [1..n -> Handlers \cup Kinds]
      BY <1>1, <2>1
    <3> QED BY <1>1, <3>1, SeqDef DEF Window
  <2> HIDE DEF n, r
  <2>3. DOMAIN r = 1..n /\ \A i \in 1..n : r[i] = IF i = p THEN k ELSE window[i]
    BY <1>2, <1>4, <2>1
  <2>4. Single(r, caller')
    BY <1>2, <1>3, <1>4, <1>5, <2>3 DEF Single
  <2> QED BY <1>6, <1>7, <2>2, <2>3, <2>4 DEF r
<1> QED BY <1>8, <1>9

LEMMA EmptyWindow == <<>> \in Window /\ DOMAIN <<>> = {}
BY EmptySeq DEF Window

LEMMA FinishStep ==
    ASSUME IInv, NEW h \in Handlers, Finish(h)
    PROVE  IInv'
<1>1. PICK k \in Outcomes :
        LET w == Recorded(h, k)
            v == Verdict(k)
            trips == v = "failure" /\ (state = "halfOpen" \/ ReadyToTrip(w))
            closes == v = "success" /\ state = "halfOpen" /\ Number(w, "success") >= MaxRequests
        IN  /\ caller' = [caller EXCEPT ![h] = k]
            /\ IF trips THEN Switch("open")
               ELSE IF closes THEN Switch("closed")
               ELSE window' = w /\ UNCHANGED state
  BY DEF Finish
<1>2. k \in Kinds /\ h \in ToSet(window) /\ caller[h] = "query"
      /\ UNCHANGED <<healthy, halfOpenMaxReq, returned>>
  BY DEF Finish, Outcomes, Kinds
<1>3. caller' \in [Handlers -> {"idle", "query", "refused"} \cup Kinds]
  BY <1>1, <1>2 DEF IInv, TypeOK
<1>4. CASE Switch("open") \/ Switch("closed")
  BY <1>2, <1>3, <1>4, EmptyWindow DEF Switch, IInv, TypeOK
<1>5. CASE /\ window' = Recorded(h, k) /\ UNCHANGED state
           /\ ~(Verdict(k) = "failure" /\ state = "halfOpen")
  <2>1. /\ window' \in Window /\ Single(window', caller')
        /\ state' = "halfOpen" => \A i \in DOMAIN window' : window'[i] \notin Faults
    BY <1>1, <1>2, <1>5, RecordedWindow
  <2>2. state' # "open"
    BY <1>2, <1>5, EmptyWindow DEF IInv, TypeOK, ToSet
  <2> QED BY <1>2, <1>3, <1>5, <2>1, <2>2 DEF IInv, TypeOK, Single
<1> QED BY <1>1, <1>4, <1>5

LEMMA FinishLateStep ==
    ASSUME IInv, NEW h \in Handlers, FinishLate(h)
    PROVE  IInv'
<1>1. /\ UNCHANGED <<state, window, healthy, halfOpenMaxReq, returned>>
      /\ caller' \in [Handlers -> {"idle", "query", "refused"} \cup Kinds]
      /\ \A g \in Handlers : g # h => caller'[g] = caller[g]
  BY DEF FinishLate, Outcomes, Kinds, IInv, TypeOK
<1>2. \A i \in DOMAIN window : window[i] # h
  BY LenProperties DEF FinishLate, ToSet, IInv, TypeOK, Window
<1> QED BY <1>1, <1>2 DEF IInv, TypeOK

LEMMA RefuseStep ==
    ASSUME IInv, NEW h \in Handlers, Refuse(h)
    PROVE  IInv'
<1>1. /\ UNCHANGED <<state, window, healthy, halfOpenMaxReq, returned>> /\ caller[h] # "query"
      /\ caller' \in [Handlers -> {"idle", "query", "refused"} \cup Kinds]
      /\ \A g \in Handlers : g # h => caller'[g] = caller[g]
  BY DEF Refuse, IInv, TypeOK
<1> QED BY <1>1 DEF IInv, TypeOK

LEMMA TimeoutStep == IInv /\ Timeout => IInv'
BY EmptyWindow DEF Timeout, Switch, IInv, TypeOK

LEMMA SlideStep == IInv /\ Slide => IInv'
<1> SUFFICES ASSUME IInv, Slide PROVE IInv'
  OBVIOUS
<1> DEFINE n == Len(window)
<1>1. /\ window \in Seq(Handlers \cup Kinds) /\ n \in Nat /\ DOMAIN window = 1..n
      /\ \A i \in 1..n : window[i] \in Handlers \cup Kinds
  BY LenProperties, ElementOfSeq DEF IInv, TypeOK, Window
<1>2. PICK m \in 1..n : window' = SubSeq(window, m + 1, n)
  BY DEF Slide
<1>3. /\ window' \in Seq(Handlers \cup Kinds) /\ Len(window') = n - m
      /\ \A i \in 1..(n - m) : window'[i] = window[m + i]
  <2> HIDE DEF n
  <2>1. m + 1 \in Int /\ n \in Int /\ \A i \in (m + 1)..n : window[i] \in Handlers \cup Kinds
    BY <1>1
  <2>2. /\ window' \in Seq(Handlers \cup Kinds)
        /\ Len(window') = IF m + 1 <= n THEN n - (m + 1) + 1 ELSE 0
        /\ \A i \in 1..(n - (m + 1) + 1) : window'[i] = window[(m + 1) + i - 1]
    BY <1>2, <2>1, SubSeqProperties
  <2>3. \A i \in 1..(n - m) : (m + 1) + i - 1 = m + i
    BY <1>1
  <2>4. n - (m + 1) + 1 = n - m /\ (~(m + 1 <= n) => n - m = 0)
    BY <1>1
  <2> QED BY <2>2, <2>3, <2>4
<1>4. DOMAIN window' = 1..(n - m)
  BY <1>3, LenProperties
<1>5. /\ \A i \in 1..(n - m) : m + i \in 1..n
      /\ \A i, j \in 1..(n - m) : i # j => m + i # m + j
  BY <1>1
<1>6. Single(window, caller) /\ state' = state /\ state = "closed"
      /\ UNCHANGED <<caller, healthy, halfOpenMaxReq, returned>>
  BY DEF IInv, TypeOK, Single, Slide
<1> HIDE DEF n
<1>7. Single(window', caller)
  <2> SUFFICES ASSUME NEW i \in 1..(n - m), window'[i] \in Handlers
               PROVE  /\ caller[window'[i]] = "query"
                      /\ \A j \in (1..(n - m)) \ {i} : window'[j] # window'[i]
    BY <1>4 DEF Single
  <2>1. m + i \in 1..n /\ window'[i] = window[m + i]
    BY <1>3, <1>5
  <2>2. ASSUME NEW j \in (1..(n - m)) \ {i}
        PROVE  m + j \in (1..n) \ {m + i} /\ window'[j] = window[m + j]
    BY <1>3, <1>5
  <2> QED BY <1>1, <1>6, <2>1, <2>2 DEF Single
<1> QED BY <1>3, <1>6, <1>7 DEF IInv, TypeOK, Single, Window

LEMMA NextIInv == IInv /\ [Next]_vars => IInv'
<1>1. IInv /\ Change => IInv'
  BY DEF Change, IInv, TypeOK
<1>2. IInv /\ UNCHANGED vars => IInv'
  BY DEF vars, IInv, TypeOK
<1> QED BY <1>1, <1>2, RequestStep, RefuseStep, FinishStep, FinishLateStep, TimeoutStep, SlideStep
        DEF Next, Answer

\* The window and the calls agree in every reachable state.
THEOREM Inductive == Spec => []IInv
<1> QED BY InitIInv, NextIInv, PTL DEF Spec

\* Every call under way is in the window at most once, whatever is removed from
\* it in between, and an open breaker remembers nothing.
THEOREM TypeCorrect == Spec => []TypeOK
<1>1. IInv => TypeOK
  BY DEF IInv
<1> QED BY <1>1, Inductive, PTL

-----------------------------------------------------------------------------
(* Opening and closing.                                                    *)

\* Only the end of a call in the window changes a breaker that is not open, and
\* what the breaker counts is what the properties see.
LEMMA SeenIsRecorded ==
    ASSUME IInv, NEW h \in Handlers, caller[h] = "query", NEW k \in Kinds,
           caller' = [caller EXCEPT ![h] = k], Verdict(k) # "excluded"
    PROVE  Recorded(h, k) = Seen(h) /\ Ends(h) /\ caller'[h] = k
<1>1. caller'[h] = k
  BY DEF IInv, TypeOK
<1>2. k # "query"
  BY DEF Kinds
<1> QED BY <1>1, <1>2 DEF Recorded, Seen, Ends

LEMMA FailuresAreFaults ==
    ASSUME NEW w
    PROVE  /\ Number(w, "failure") = Amount(w, Faults)
           /\ Number(w, "excluded") = Amount(w, {"cancelled"})
           /\ Number(w, "success") = Amount(w, Unfailed)
<1>1. \A k : /\ k \in Kinds /\ Verdict(k) = "failure" <=> k \in Faults
             /\ k \in Kinds /\ Verdict(k) = "excluded" <=> k \in {"cancelled"}
             /\ k \in Kinds /\ Verdict(k) = "success" <=> k \in Unfailed
  BY DEF Verdict, MapMySqlError, IsExcluded, IsSuccessful, MySQLErrors, Kinds, Faults, Unfailed
<1> QED BY <1>1 DEF Number, Amount

LEMMA AmountIsNatural ==
    ASSUME NEW w \in Window, NEW kinds
    PROVE  Amount(w, kinds) \in Nat
<1>1. DOMAIN w = 1..Len(w) /\ Len(w) \in Nat
  BY LenProperties DEF Window
<1>2. IsFiniteSet(DOMAIN w)
  BY <1>1, FS_Interval
<1>3. IsFiniteSet({i \in DOMAIN w : w[i] \in kinds})
  BY <1>2, FS_Subset
<1> QED BY <1>3, FS_CardinalityType DEF Amount

\* The breaker opens for faults alone, and for enough of them, whatever the
\* configuration that fits in a uint32.
THEOREM OpensForFaults ==
    ASSUME WindowMinReq < Width
    PROVE  Spec => TripsAreDeserved
<1> DEFINE Deserved ==
        state # "open" /\ state' = "open" =>
         \E h \in Handlers :
            /\ Ends(h) /\ caller'[h] \in Faults
            /\ state = "closed" =>
                 LET w == Seen(h)
                     judged == Len(w) - Amount(w, {"cancelled"})
                 IN  /\ judged >= WindowMinReq
                     /\ Amount(w, Faults) * RatioDen >= RatioNum * judged
<1>1. IInv /\ [Next]_vars => [Deserved]_vars
  <2> SUFFICES ASSUME IInv, Next, state # "open", state' = "open" PROVE Deserved
    BY DEF vars
  <2>1. PICK h \in Handlers : Finish(h)
    BY DEF Next, Answer, Request, Refuse, FinishLate, Timeout, Switch, Slide, Change
  <2>2. PICK k \in Outcomes :
          /\ caller' = [caller EXCEPT ![h] = k]
          /\ Verdict(k) = "failure" /\ (state = "halfOpen" \/ ReadyToTrip(Recorded(h, k)))
    BY <2>1 DEF Finish, Switch
  <2>3. k \in Kinds /\ caller[h] = "query"
    BY <2>1 DEF Finish, Outcomes, Kinds
  <2>4. Recorded(h, k) = Seen(h) /\ Ends(h) /\ caller'[h] = k
    BY <2>2, <2>3, SeenIsRecorded
  <2>5. k \in Faults
    BY <2>2, <2>3 DEF Verdict, MapMySqlError, IsExcluded, IsSuccessful, MySQLErrors, Kinds, Faults
  <2> DEFINE judged == Len(Seen(h)) - Amount(Seen(h), {"cancelled"})
  <2>6. ASSUME state = "closed"
        PROVE  /\ judged >= WindowMinReq
               /\ Amount(Seen(h), Faults) * RatioDen >= RatioNum * judged
    <3>1. /\ judged >= Uint32(WindowMinReq)
          /\ Amount(Seen(h), Faults) * RatioDen >= RatioNum * judged
      BY <2>2, <2>4, <2>6, FailuresAreFaults DEF ReadyToTrip
    <3>2. Uint32(WindowMinReq) \in Nat /\ WindowMinReq <= Uint32(WindowMinReq) /\ WindowMinReq \in Int
      BY Uint32Keeps, ConfigAssumption
    <3>3. judged \in Int
      <4>1. h \in ToSet(window)
        BY <2>1 DEF Finish
      <4>2. Seen(h) \in Window
        BY <2>2, <2>3, <2>4, <4>1, RecordedWindow
      <4>3. Amount(Seen(h), {"cancelled"}) \in Nat
        BY <4>2, AmountIsNatural
      <4>4. Len(Seen(h)) \in Nat
        BY <4>2, LenProperties DEF Window
      <4> QED BY <4>3, <4>4
    <3> HIDE DEF judged
    <3>4. judged >= WindowMinReq
      BY <3>1, <3>2, <3>3
    <3> QED BY <3>1, <3>4 DEF judged
  <2> QED BY <2>4, <2>5, <2>6
<1> QED BY <1>1, Inductive, PTL DEF Spec, TripsAreDeserved

\* It closes after probes alone: as many as configured have ended without an error of
\* the server, maybe without reaching it, and none in a fault.
THEOREM ClosesForProbes ==
    ASSUME \A q \in HalfOpenMaxReqs : q < Width
    PROVE  Spec => ClosesAfterProbes
<1> DEFINE Probed ==
        state # "closed" /\ state' = "closed" =>
         /\ state = "halfOpen"
         /\ \E h \in Handlers :
              /\ Ends(h) /\ caller'[h] \in Unfailed
              /\ LET w == Seen(h) IN
                 /\ Amount(w, Faults) = 0
                 /\ Amount(w, Unfailed) >= halfOpenMaxReq
<1>1. IInv /\ [Next]_vars => [Probed]_vars
  <2> SUFFICES ASSUME IInv, Next, state # "closed", state' = "closed" PROVE Probed
    BY DEF vars
  <2>1. PICK h \in Handlers : Finish(h)
    BY DEF Next, Answer, Request, Refuse, FinishLate, Timeout, Switch, Slide, Change
  <2>2. PICK k \in Outcomes :
          /\ caller' = [caller EXCEPT ![h] = k]
          /\ Verdict(k) = "success" /\ state = "halfOpen"
          /\ Number(Recorded(h, k), "success") >= MaxRequests
    BY <2>1 DEF Finish, Switch
  <2>3. k \in Kinds /\ caller[h] = "query" /\ h \in ToSet(window)
    BY <2>1 DEF Finish, Outcomes, Kinds
  <2>4. Recorded(h, k) = Seen(h) /\ Ends(h) /\ caller'[h] = k
    BY <2>2, <2>3, SeenIsRecorded
  <2>5. k \in Unfailed
    BY <2>2, <2>3 DEF Verdict, MapMySqlError, IsExcluded, IsSuccessful, MySQLErrors, Kinds, Unfailed
  <2>6. Seen(h) \in Window /\ \A i \in DOMAIN Seen(h) : Seen(h)[i] \notin Faults
    BY <2>2, <2>3, <2>4, RecordedWindow
  <2>7. Amount(Seen(h), Faults) = 0
    <3>1. {i \in DOMAIN Seen(h) : Seen(h)[i] \in Faults} = {}
      BY <2>6
    <3> QED BY <3>1, FS_EmptySet DEF Amount
  <2>8. Amount(Seen(h), Unfailed) >= halfOpenMaxReq
    <3>1. Amount(Seen(h), Unfailed) \in Nat
      BY <2>6, AmountIsNatural
    <3>2. Amount(Seen(h), Unfailed) >= MaxRequests
      BY <2>2, <2>4, FailuresAreFaults
    <3>3. halfOpenMaxReq \in Int /\ MaxRequests \in Nat /\ halfOpenMaxReq <= MaxRequests
      <4>1. halfOpenMaxReq \in Int /\ halfOpenMaxReq < Width
        BY ConfigAssumption DEF IInv, TypeOK
      <4>2. Uint32(halfOpenMaxReq) \in Nat /\ halfOpenMaxReq <= Uint32(halfOpenMaxReq)
        BY <4>1, Uint32Keeps
      <4> QED BY <4>1, <4>2 DEF MaxRequests
    <3> QED BY <3>1, <3>2, <3>3
  <2> QED BY <2>2, <2>4, <2>5, <2>7, <2>8
<1> QED BY <1>1, Inductive, PTL DEF Spec, ClosesAfterProbes
=============================================================================
