--------------------------- MODULE MergingProofs -----------------------------
(***************************************************************************)
(* Proofs about sorting and merging, for rows and keys of any number: what *)
(* ORDER BY may be relied on for, and that one pass over two sorted lists  *)
(* gives every id the rows with its key.                                   *)
(***************************************************************************)
EXTENDS Merging, SequencesExt, FiniteSetTheorems, SequenceTheorems, WellFoundedInduction, TLAPS

-----------------------------------------------------------------------------
(* Induction and recursion on a bounded measure.                           *)

LEMMA HasLeast ==
    ASSUME NEW S \in SUBSET Nat, S # {}
    PROVE  \E x \in S : \A y \in S : x <= y
<1> DEFINE R == OpToRel(<, Nat)
<1>1. PICK x \in S : \A y \in S : ~ (<<y, x>> \in R)
  <2>1. IsWellFoundedOn(R, Nat)
    BY NatLessThanWellFounded
  <2> HIDE DEF R
  <2> QED BY <2>1, WFMin
<1>2. ASSUME NEW y \in S PROVE x <= y
  <2>1. x \in Nat /\ y \in Nat
    OBVIOUS
  <2>2. <<y, x>> \in Nat \X Nat /\ <<y, x>>[1] = y /\ <<y, x>>[2] = x
    BY <2>1
  <2>3. ~(y < x)
    BY <1>1, <2>2 DEF OpToRel
  <2> QED BY <2>1, <2>3
<1> QED BY <1>2

\* What holds of a point when it holds of all smaller ones holds of all.
LEMMA MeasureInduction ==
    ASSUME NEW D, NEW m \in [D -> Nat], NEW Good,
           \A p \in D : (\A q \in D : m[q] < m[p] => q \in Good) => p \in Good
    PROVE  D \subseteq Good
<1> SUFFICES ASSUME NEW b \in D, b \notin Good
             PROVE  FALSE
  OBVIOUS
<1> DEFINE Bad == {m[p] : p \in D \ Good}
<1>1. Bad \in SUBSET Nat /\ Bad # {}
  OBVIOUS
<1>2. PICK n \in Bad : \A k \in Bad : n <= k
  <2> HIDE DEF Bad
  <2> QED BY <1>1, HasLeast
<1>3. PICK p \in D \ Good : n = m[p]
  OBVIOUS
<1>4. \A q \in D : m[q] < m[p] => q \in Good
  BY <1>2, <1>3
<1> QED BY <1>3, <1>4

\* F gives a function from D to R for each, the value at a point depending on those
\* at points of smaller measure only.
Recursion(D, R, m, N, F) ==
    /\ R # {} /\ m \in [D -> Nat] /\ N \in Nat
    /\ \A p \in D : m[p] <= N
    /\ F \in [[D -> R] -> [D -> R]]
    /\ \A g, h \in [D -> R] : \A p \in D :
          (\A q \in D : m[q] < m[p] => g[q] = h[q]) => F[g][p] = F[h][p]

\* An equation that defines each value from those at smaller points has a solution.
LEMMA MeasureRecursion ==
    ASSUME NEW D, NEW R, NEW m, NEW N, NEW F, Recursion(D, R, m, N, F)
    PROVE  \E g \in [D -> R] : g = F[g]
<1>0. /\ R # {} /\ m \in [D -> Nat] /\ N \in Nat
      /\ \A p \in D : m[p] <= N
      /\ F \in [[D -> R] -> [D -> R]]
      /\ \A g, h \in [D -> R] : \A p \in D :
            (\A q \in D : m[q] < m[p] => g[q] = h[q]) => F[g][p] = F[h][p]
  BY DEF Recursion
<1> DEFINE Solves(g, n) == \A p \in D : m[p] < n => F[g][p] = g[p]
           Stuck == {n \in Nat : ~ \E g \in [D -> R] : Solves(g, n)}
<1>1. ASSUME Stuck # {} PROVE FALSE
  <2>1. Stuck \in SUBSET Nat
    OBVIOUS
  <2>2. PICK n \in Stuck : \A k \in Stuck : n <= k
    <3> HIDE DEF Stuck
    <3> QED BY <1>1, <2>1, HasLeast
  <2>3. CASE n = 0
    <3>1. [p \in D |-> CHOOSE r \in R : TRUE] \in [D -> R]
      BY <1>0
    <3>2. Solves([p \in D |-> CHOOSE r \in R : TRUE], n)
      BY <1>0, <2>3
    <3> HIDE DEF Solves
    <3> QED BY <3>1, <3>2
  <2>4. CASE n # 0
    <3>1. n - 1 \in Nat /\ n - 1 \notin Stuck
      BY <2>2, <2>4
    <3>2. PICK g \in [D -> R] : Solves(g, n - 1)
      BY <3>1
    <3>3. F[g] \in [D -> R]
      BY <1>0
    <3>4. ASSUME NEW p \in D, m[p] < n PROVE F[F[g]][p] = F[g][p]
      <4>1. \A q \in D : m[q] < m[p] => F[g][q] = g[q]
        BY <1>0, <3>2, <3>4, <2>2
      <4> QED BY <1>0, <3>3, <4>1
    <3>5. Solves(F[g], n)
      BY <3>4
    <3> HIDE DEF Solves
    <3> QED BY <3>3, <3>5
  <2> QED BY <2>3, <2>4
<1>2. N + 1 \in Nat /\ N + 1 \notin Stuck
  <2>1. N + 1 \in Nat
    BY <1>0
  <2> HIDE DEF Stuck
  <2> QED BY <1>1, <2>1
<1>3. PICK g \in [D -> R] : Solves(g, N + 1)
  BY <1>2
<1>4. \A p \in D : F[g][p] = g[p]
  BY <1>0, <1>3
<1>5. F[g] \in [D -> R]
  BY <1>0
<1> QED BY <1>4, <1>5

-----------------------------------------------------------------------------
(* Collect.                                                                *)

\* The run of equal keys that begins at l ends at a row with another key, or after
\* the last row.
LEMMA EndOfRun ==
    ASSUME NEW keys \in Seq(Nat), NEW l \in 1..Len(keys)
    PROVE  /\ End(keys, l) \in (l + 1)..(Len(keys) + 1)
           /\ \A j \in l..(End(keys, l) - 1) : keys[j] = keys[l]
           /\ End(keys, l) <= Len(keys) => keys[End(keys, l)] # keys[l]
<1> DEFINE n == Len(keys)
           Other == {r \in (l + 1)..(n + 1) : r <= n => keys[r] # keys[l]}
<1>1. n \in Nat
  OBVIOUS
<1>2. Other \in SUBSET Nat /\ n + 1 \in Other
  BY <1>1
<1>3. PICK r \in Other : \A o \in Other : r <= o
  <2> HIDE DEF Other
  <2> QED BY <1>2, HasLeast
<1>4. ASSUME NEW j \in l..(r - 1) PROVE keys[j] = keys[l]
  <2>1. CASE j = l
    BY <2>1
  <2>2. CASE j # l
    <3>1. j \in (l + 1)..(n + 1) /\ j < r
      BY <1>1, <1>3, <2>2
    <3>2. j \notin Other
      BY <1>1, <1>3, <3>1
    <3> QED BY <3>1, <3>2
  <2> QED BY <2>1, <2>2
<1>5. r \in (l + 1)..(n + 1) /\ (r <= n => keys[r] # keys[l])
  OBVIOUS
<1>6. \E e \in (l + 1)..(n + 1) :
        /\ \A j \in l..(e - 1) : keys[j] = keys[l]
        /\ e <= n => keys[e] # keys[l]
  BY <1>4, <1>5
<1> QED BY <1>6 DEF End

\* The places of a merge, and the equation of Collect.
Places(ids, rows) == (1..(Len(ids) + 1)) \X (1..(Len(rows) + 1))

Taken(ids, keys, rows, from, i, l) ==
    [from[<<i + 1, End(keys, l)>>] EXCEPT ![ids[i]] = SubSeq(rows, l, End(keys, l) - 1)]

FromStep(ids, keys, rows, none, from) ==
    [at \in Places(ids, rows) |->
        IF at[1] > Len(ids) \/ at[2] > Len(rows) THEN none
        ELSE IF ids[at[1]] < keys[at[2]] THEN from[<<at[1] + 1, at[2]>>]
        ELSE IF ids[at[1]] > keys[at[2]] THEN from[<<at[1], End(keys, at[2])>>]
        ELSE Taken(ids, keys, rows, from, at[1], at[2])]

IsFrom(ids, keys, rows, none, from) == from = FromStep(ids, keys, rows, none, from)

LEMMA CollectIsFrom ==
    ASSUME NEW ids, NEW keys, NEW rows, NEW none,
           \E from : IsFrom(ids, keys, rows, none, from)
    PROVE  \E from : /\ IsFrom(ids, keys, rows, none, from)
                     /\ Collect(ids, keys, rows, none) = from[<<1, 1>>]
<1> DEFINE from == CHOOSE from : IsFrom(ids, keys, rows, none, from)
<1>1. IsFrom(ids, keys, rows, none, from)
  OBVIOUS
<1>2. Collect(ids, keys, rows, none) = from[<<1, 1>>]
  BY DEF Collect, IsFrom, FromStep, Places, Taken
<1> QED BY <1>1, <1>2

\* What the services merge: ids in ascending order, and rows sorted by their keys.
Mergeable(ids, keys, rows, none, T, Q) ==
    /\ T \subseteq Nat /\ ids \in Seq(T) /\ none \in [T -> Seq(Q)]
    /\ rows \in Seq(Q) /\ keys \in Seq(Nat) /\ Len(keys) = Len(rows)
    /\ \A i, k \in 1..Len(ids) : i < k => ids[i] < ids[k]
    /\ \A j, l \in 1..Len(keys) : j < l => keys[j] <= keys[l]

\* How far a place is from the end.
Ahead(ids, rows) == [at \in Places(ids, rows) |-> (Len(ids) + 1 - at[1]) + (Len(rows) + 1 - at[2])]

LEMMA AheadIsNatural ==
    ASSUME NEW T, NEW Q, NEW ids \in Seq(T), NEW rows \in Seq(Q)
    PROVE  /\ Ahead(ids, rows) \in [Places(ids, rows) -> Nat]
           /\ \A at \in Places(ids, rows) : Ahead(ids, rows)[at] <= Len(ids) + Len(rows)
<1>1. Len(ids) \in Nat /\ Len(rows) \in Nat
  OBVIOUS
<1>2. ASSUME NEW at \in Places(ids, rows)
      PROVE  LET a == (Len(ids) + 1 - at[1]) + (Len(rows) + 1 - at[2])
             IN  a \in Nat /\ a <= Len(ids) + Len(rows)
  <2>1. at[1] \in 1..(Len(ids) + 1) /\ at[2] \in 1..(Len(rows) + 1)
    BY DEF Places
  <2> QED BY <1>1, <2>1
<1> QED BY <1>2 DEF Ahead

\* Where a merge goes from a place that is not at an end.
Inside(ids, rows) == (1..Len(ids)) \X (1..Len(rows))

Onward(keys, at) ==
    {<<at[1] + 1, at[2]>>, <<at[1], End(keys, at[2])>>, <<at[1] + 1, End(keys, at[2])>>}

\* Each step of a merge goes ahead.
LEMMA StepsAhead ==
    ASSUME NEW T, NEW Q, NEW ids, NEW keys, NEW rows, NEW none,
           Mergeable(ids, keys, rows, none, T, Q),
           NEW at \in Inside(ids, rows), NEW to \in Onward(keys, at)
    PROVE  to \in Places(ids, rows) /\ Ahead(ids, rows)[to] < Ahead(ids, rows)[at]
<1> DEFINE i == at[1]
           l == at[2]
<1>1. /\ Len(ids) \in Nat /\ Len(rows) \in Nat /\ Len(keys) = Len(rows)
      /\ at = <<i, l>> /\ i \in 1..Len(ids) /\ l \in 1..Len(rows)
  BY DEF Mergeable, Inside
<1>2. End(keys, l) \in (l + 1)..(Len(rows) + 1)
  BY <1>1, EndOfRun DEF Mergeable
<1>3. PICK k \in 1..(Len(ids) + 1), e \in 1..(Len(rows) + 1) :
        to = <<k, e>> /\ k >= i /\ e >= l /\ (k > i \/ e > l)
  <2>1. CASE to = <<i + 1, l>>
    BY <1>1, <2>1
  <2>2. CASE to = <<i, End(keys, l)>>
    BY <1>1, <1>2, <2>2
  <2>3. CASE to = <<i + 1, End(keys, l)>>
    BY <1>1, <1>2, <2>3
  <2> QED BY <2>1, <2>2, <2>3 DEF Onward
<1>4. at \in Places(ids, rows) /\ to \in Places(ids, rows)
  BY <1>1, <1>3 DEF Places
<1>5. Ahead(ids, rows)[to] = (Len(ids) + 1 - k) + (Len(rows) + 1 - e)
  BY <1>3, <1>4 DEF Ahead
<1>6. Ahead(ids, rows)[at] = (Len(ids) + 1 - i) + (Len(rows) + 1 - l)
  BY <1>4 DEF Ahead
<1>7. (Len(ids) + 1 - k) + (Len(rows) + 1 - e) < (Len(ids) + 1 - i) + (Len(rows) + 1 - l)
  <2>1. /\ Len(ids) \in Int /\ Len(rows) \in Int /\ k \in Int /\ e \in Int /\ i \in Int /\ l \in Int
        /\ k >= i /\ e >= l /\ (k > i \/ e > l)
    BY <1>1, <1>3
  <2> HIDE DEF i, l
  <2> QED BY ONLY <2>1
<1> QED BY <1>4, <1>5, <1>6, <1>7

LEMMA FromExists ==
    ASSUME NEW T, NEW Q, NEW ids, NEW keys, NEW rows, NEW none,
           Mergeable(ids, keys, rows, none, T, Q)
    PROVE  \E from \in [Places(ids, rows) -> [T -> Seq(Q)]] :
              IsFrom(ids, keys, rows, none, from)
<1> DEFINE D == Places(ids, rows)
           R == [T -> Seq(Q)]
           m == Ahead(ids, rows)
           F == [from \in [D -> R] |-> FromStep(ids, keys, rows, none, from)]
<1>1. ids \in Seq(T) /\ rows \in Seq(Q) /\ none \in R /\ keys \in Seq(Nat)
      /\ Len(keys) = Len(rows) /\ T \subseteq Nat
  BY DEF Mergeable
<1>2. \A at \in D : at[1] > Len(ids) \/ at[2] > Len(rows) \/ at \in Inside(ids, rows)
  BY <1>1 DEF Places, Inside
<1>3. ASSUME NEW at \in Inside(ids, rows)
      PROVE  /\ at[1] \in 1..Len(ids) /\ at[2] \in 1..Len(rows)
             /\ at[1] <= Len(ids) /\ at[2] <= Len(rows)
             /\ \A to \in Onward(keys, at) : to \in D /\ m[to] < m[at]
  <2>1. \A to \in Onward(keys, at) : to \in D /\ m[to] < m[at]
    BY StepsAhead
  <2> QED BY <1>1, <2>1 DEF Inside
<1>4. ASSUME NEW at \in D, at[2] \in 1..Len(rows)
      PROVE  SubSeq(rows, at[2], End(keys, at[2]) - 1) \in Seq(Q)
  <2>1. End(keys, at[2]) \in (at[2] + 1)..(Len(rows) + 1)
    BY <1>1, <1>4, EndOfRun
  <2>2. /\ End(keys, at[2]) - 1 \in Int /\ at[2] \in Int
        /\ \A j \in at[2]..(End(keys, at[2]) - 1) : j \in 1..Len(rows)
    BY <1>1, <1>4, <2>1
  <2>3. \A j \in at[2]..(End(keys, at[2]) - 1) : rows[j] \in Q
    BY <1>1, <2>2
  <2> QED BY <1>1, <2>1, <2>2, <2>3
<1>5. ASSUME NEW from \in [D -> R] PROVE FromStep(ids, keys, rows, none, from) \in [D -> R]
  <2> SUFFICES ASSUME NEW at \in D
               PROVE  FromStep(ids, keys, rows, none, from)[at] \in R
    BY DEF FromStep
  <2>1. CASE at[1] > Len(ids) \/ at[2] > Len(rows)
    BY <1>1, <2>1 DEF FromStep
  <2>2. CASE at \in Inside(ids, rows)
    <3>1. /\ from[<<at[1] + 1, at[2]>>] \in R
          /\ from[<<at[1], End(keys, at[2])>>] \in R
          /\ from[<<at[1] + 1, End(keys, at[2])>>] \in R
      BY <1>3, <2>2 DEF Onward
    <3>2. ids[at[1]] \in T
      BY <1>1, <1>3, <2>2
    <3>3. Taken(ids, keys, rows, from, at[1], at[2]) \in R
      BY <1>3, <1>4, <2>2, <3>1, <3>2 DEF Taken
    <3> QED BY <1>1, <1>3, <2>2, <3>1, <3>3 DEF FromStep
  <2> QED BY <1>2, <2>1, <2>2
<1>6. F \in [[D -> R] -> [D -> R]]
  BY <1>5
<1>7. ASSUME NEW g \in [D -> R], NEW h \in [D -> R], NEW at \in D,
             \A to \in D : m[to] < m[at] => g[to] = h[to]
      PROVE  F[g][at] = F[h][at]
  <2>1. CASE at[1] > Len(ids) \/ at[2] > Len(rows)
    BY <2>1 DEF FromStep
  <2>2. CASE at \in Inside(ids, rows)
    <3>1. /\ g[<<at[1] + 1, at[2]>>] = h[<<at[1] + 1, at[2]>>]
          /\ g[<<at[1], End(keys, at[2])>>] = h[<<at[1], End(keys, at[2])>>]
          /\ g[<<at[1] + 1, End(keys, at[2])>>] = h[<<at[1] + 1, End(keys, at[2])>>]
      BY <1>3, <1>7, <2>2 DEF Onward
    <3> QED BY <1>3, <2>2, <3>1 DEF FromStep, Taken
  <2> QED BY <1>2, <2>1, <2>2
<1>8. R # {} /\ m \in [D -> Nat] /\ Len(ids) + Len(rows) \in Nat
      /\ \A at \in D : m[at] <= Len(ids) + Len(rows)
  BY <1>1, AheadIsNatural
<1>9. \A g, h \in [D -> R] : \A at \in D :
         (\A to \in D : m[to] < m[at] => g[to] = h[to]) => F[g][at] = F[h][at]
  <2> HIDE DEF D, R, m, F
  <2> QED BY <1>7
<1>10. Recursion(D, R, m, Len(ids) + Len(rows), F)
  <2> HIDE DEF D, R, m, F
  <2> QED BY <1>6, <1>8, <1>9 DEF Recursion
<1>11. PICK g \in [D -> R] : g = F[g]
  <2> HIDE DEF D, R, m, F
  <2> QED BY <1>10, MeasureRecursion
<1> QED BY <1>11 DEF IsFrom

\* part is what the merge gives t from place <<i, l>> on: the rows from there with
\* key t, if t is among the ids from there.
Share(ids, keys, rows, i, l, t, part) ==
    \E a \in 1..(Len(rows) + 1), b \in 0..Len(rows) :
        /\ part = SubSeq(rows, a, b)
        /\ \A j \in 1..Len(rows) :
             j \in a..b <=> /\ j >= l /\ keys[j] = t
                            /\ \E k \in 1..Len(ids) : k >= i /\ ids[k] = t

\* At places with the same rows for t ahead, t gets the same.
LEMMA SameShare ==
    ASSUME NEW ids, NEW keys, NEW rows, NEW i, NEW l, NEW o, NEW e, NEW t, NEW part,
           Share(ids, keys, rows, o, e, t, part),
           \A j \in 1..Len(rows) : keys[j] = t =>
              ((j >= l /\ \E k \in 1..Len(ids) : k >= i /\ ids[k] = t)
                <=> (j >= e /\ \E k \in 1..Len(ids) : k >= o /\ ids[k] = t))
    PROVE  Share(ids, keys, rows, i, l, t, part)
<1>1. PICK a \in 1..(Len(rows) + 1), b \in 0..Len(rows) :
        /\ part = SubSeq(rows, a, b)
        /\ \A j \in 1..Len(rows) :
             j \in a..b <=> /\ j >= e /\ keys[j] = t
                            /\ \E k \in 1..Len(ids) : k >= o /\ ids[k] = t
  BY DEF Share
<1>2. \A j \in 1..Len(rows) :
        j \in a..b <=> /\ j >= l /\ keys[j] = t
                       /\ \E k \in 1..Len(ids) : k >= i /\ ids[k] = t
  BY <1>1
<1> QED BY <1>1, <1>2 DEF Share

LEMMA EmptyShare ==
    ASSUME NEW Q, NEW ids, NEW keys, NEW rows \in Seq(Q), NEW i, NEW l, NEW t,
           \A j \in 1..Len(rows) : keys[j] = t =>
              ~ (j >= l /\ \E k \in 1..Len(ids) : k >= i /\ ids[k] = t)
    PROVE  Share(ids, keys, rows, i, l, t, <<>>)
<1>1. Len(rows) \in Nat
  OBVIOUS
<1>2. SubSeq(rows, 1, 0) = <<>> /\ 1 \in 1..(Len(rows) + 1) /\ 0 \in 0..Len(rows)
  BY <1>1
<1>3. \A j \in 1..Len(rows) : j \notin 1..0
  OBVIOUS
<1> QED BY <1>2, <1>3 DEF Share

\* The ids and the rows are in order.
LEMMA Ascending ==
    ASSUME NEW T, NEW Q, NEW ids, NEW keys, NEW rows, NEW none,
           Mergeable(ids, keys, rows, none, T, Q),
           NEW i \in 1..Len(ids), NEW l \in 1..Len(rows)
    PROVE  /\ ids[i] \in T /\ ids[i] \in Nat /\ keys[l] \in Nat
           /\ \A k \in 1..Len(ids) : /\ ids[k] \in Nat
                                     /\ k >= i => ids[i] <= ids[k]
                                     /\ k > i => ids[i] < ids[k]
           /\ \A j \in 1..Len(rows) : keys[j] \in Nat /\ (j >= l => keys[l] <= keys[j])
<1>1. \A k \in 1..Len(ids) : ids[k] \in T /\ ids[k] \in Nat
  <2>1. ids \in Seq(T) /\ T \subseteq Nat
    BY DEF Mergeable
  <2>2. \A k \in 1..Len(ids) : ids[k] \in T
    BY <2>1
  <2> QED BY <2>1, <2>2
<1>2. \A j \in 1..Len(rows) : keys[j] \in Nat
  BY DEF Mergeable
<1>3. ASSUME NEW k \in 1..Len(ids), k > i PROVE ids[i] < ids[k]
  BY <1>3 DEF Mergeable
<1>4. ASSUME NEW k \in 1..Len(ids), k >= i PROVE ids[i] <= ids[k]
  <2>1. CASE k = i
    BY <1>1, <2>1
  <2>2. CASE k > i
    BY <1>1, <1>3, <2>2
  <2> QED BY <1>4, <2>1, <2>2
<1>5. ASSUME NEW j \in 1..Len(rows), j >= l PROVE keys[l] <= keys[j]
  <2>1. CASE j = l
    BY <1>2, <2>1
  <2>2. CASE j > l
    BY <1>2, <2>2 DEF Mergeable
  <2> QED BY <1>5, <2>1, <2>2
<1> QED BY <1>1, <1>2, <1>3, <1>4, <1>5

\* The equation at one place: the end, and within the ids and rows the three ways on.
LEMMA FromEnd ==
    ASSUME NEW ids, NEW keys, NEW rows, NEW none, NEW from, IsFrom(ids, keys, rows, none, from),
           NEW i, NEW l, <<i, l>> \in Places(ids, rows), i > Len(ids) \/ l > Len(rows)
    PROVE  from[<<i, l>>] = none
<1>1. <<i, l>>[1] = i /\ <<i, l>>[2] = l
  OBVIOUS
<1> DEFINE step == FromStep(ids, keys, rows, none, from)
<1>2. step[<<i, l>>] = none
  BY <1>1 DEF FromStep
<1>3. from[<<i, l>>] = step[<<i, l>>]
  BY DEF IsFrom
<1> HIDE DEF step
<1> QED BY ONLY <1>2, <1>3

WaysOn(ids, keys, rows, from, i, l) ==
    /\ ids[i] < keys[l] => from[<<i, l>>] = from[<<i + 1, l>>]
    /\ ids[i] > keys[l] => from[<<i, l>>] = from[<<i, End(keys, l)>>]
    /\ ids[i] = keys[l] => from[<<i, l>>] = Taken(ids, keys, rows, from, i, l)

LEMMA FromInside ==
    ASSUME NEW T, NEW Q, NEW ids, NEW keys, NEW rows, NEW none, NEW from,
           Mergeable(ids, keys, rows, none, T, Q), IsFrom(ids, keys, rows, none, from),
           NEW i \in 1..Len(ids), NEW l \in 1..Len(rows)
    PROVE  WaysOn(ids, keys, rows, from, i, l)
<1>1. Len(ids) \in Nat /\ Len(rows) \in Nat
  BY DEF Mergeable
<1>2. <<i, l>> \in Places(ids, rows) /\ ~(i > Len(ids) \/ l > Len(rows))
      /\ <<i, l>>[1] = i /\ <<i, l>>[2] = l
  BY <1>1 DEF Places
<1> DEFINE step == FromStep(ids, keys, rows, none, from)
<1>3. step[<<i, l>>] = IF ids[i] < keys[l] THEN from[<<i + 1, l>>]
                       ELSE IF ids[i] > keys[l] THEN from[<<i, End(keys, l)>>]
                       ELSE Taken(ids, keys, rows, from, i, l)
  BY <1>2 DEF FromStep
<1>4. from[<<i, l>>] = step[<<i, l>>]
  BY DEF IsFrom
<1>5. ids[i] \in Nat /\ keys[l] \in Nat
  BY Ascending
<1> HIDE DEF step
<1> QED BY <1>3, <1>4, <1>5 DEF WaysOn

\* From a place on, the merge gives every id its share.
Settled(T, Q, ids, keys, rows, from, i, l) ==
    /\ from[<<i, l>>] \in [T -> Seq(Q)]
    /\ \A t \in T : Share(ids, keys, rows, i, l, t, from[<<i, l>>][t])

\* At an end there are no rows for anybody.
LEMMA EndSettled ==
    ASSUME NEW T, NEW Q, NEW ids, NEW keys, NEW rows, NEW none, NEW from,
           Mergeable(ids, keys, rows, none, T, Q), IsFrom(ids, keys, rows, none, from),
           \A t \in T : none[t] = <<>>,
           NEW i \in 1..(Len(ids) + 1), NEW l \in 1..(Len(rows) + 1), i > Len(ids) \/ l > Len(rows)
    PROVE  Settled(T, Q, ids, keys, rows, from, i, l)
<1>1. Len(ids) \in Nat /\ rows \in Seq(Q) /\ Len(rows) \in Nat /\ none \in [T -> Seq(Q)]
  BY DEF Mergeable
<1>2. from[<<i, l>>] = none
  <2>1. <<i, l>> \in Places(ids, rows)
    BY DEF Places
  <2> QED BY <2>1, FromEnd
<1>3. \A j \in 1..Len(rows) : ~ (j >= l /\ \E k \in 1..Len(ids) : k >= i)
  BY <1>1
<1> QED BY <1>1, <1>2, <1>3, EmptyShare DEF Settled

\* An id without rows is passed by.
LEMMA PassId ==
    ASSUME NEW T, NEW Q, NEW ids, NEW keys, NEW rows, NEW none, NEW from,
           Mergeable(ids, keys, rows, none, T, Q), IsFrom(ids, keys, rows, none, from),
           NEW i \in 1..Len(ids), NEW l \in 1..Len(rows), ids[i] < keys[l],
           Settled(T, Q, ids, keys, rows, from, i + 1, l)
    PROVE  Settled(T, Q, ids, keys, rows, from, i, l)
<1>1. Len(ids) \in Nat /\ Len(rows) \in Nat
  BY DEF Mergeable
<1>2. from[<<i, l>>] = from[<<i + 1, l>>]
  <2>1. WaysOn(ids, keys, rows, from, i, l)
    BY FromInside
  <2> QED BY <2>1 DEF WaysOn
<1>3. ASSUME NEW t, NEW j \in 1..Len(rows), keys[j] = t, j >= l, NEW k \in 1..Len(ids), k >= i, ids[k] = t
      PROVE  k >= i + 1
  <2>1. keys[l] <= keys[j] /\ keys[l] \in Nat /\ keys[j] \in Nat /\ ids[i] \in Nat
    BY <1>3, Ascending
  <2>2. k # i
    BY <1>3, <2>1
  <2> QED BY <1>3, <2>2
<1> SUFFICES ASSUME NEW t \in T
             PROVE  Share(ids, keys, rows, i, l, t, from[<<i, l>>][t])
  BY <1>2 DEF Settled
<1>4. Share(ids, keys, rows, i + 1, l, t, from[<<i, l>>][t])
  BY <1>2 DEF Settled
<1>5. \A k \in 1..Len(ids) : k >= i + 1 => k >= i
  OBVIOUS
<1> QED BY <1>3, <1>4, <1>5, SameShare

\* Rows that no id is left for are passed by.
LEMMA PassRows ==
    ASSUME NEW T, NEW Q, NEW ids, NEW keys, NEW rows, NEW none, NEW from,
           Mergeable(ids, keys, rows, none, T, Q), IsFrom(ids, keys, rows, none, from),
           NEW i \in 1..Len(ids), NEW l \in 1..Len(rows), ids[i] > keys[l],
           Settled(T, Q, ids, keys, rows, from, i, End(keys, l))
    PROVE  Settled(T, Q, ids, keys, rows, from, i, l)
<1>0. Len(ids) \in Nat /\ Len(rows) \in Nat /\ keys \in Seq(Nat) /\ Len(keys) = Len(rows)
  BY DEF Mergeable
<1>1. Len(ids) \in Nat /\ Len(rows) \in Nat /\ keys[l] \in Nat /\ ids[i] \in Nat
      /\ keys \in Seq(Nat) /\ Len(keys) = Len(rows)
  BY <1>0, Ascending
<1>2. PICK e \in (l + 1)..(Len(rows) + 1) :
        e = End(keys, l) /\ \A j \in l..(e - 1) : keys[j] = keys[l]
  BY <1>1, EndOfRun
<1>3. from[<<i, l>>] = from[<<i, e>>]
  <2>1. WaysOn(ids, keys, rows, from, i, l)
    BY FromInside
  <2> QED BY <1>2, <2>1 DEF WaysOn
<1>4. ASSUME NEW t, NEW j \in 1..Len(rows), keys[j] = t, j >= l, NEW k \in 1..Len(ids), k >= i, ids[k] = t
      PROVE  j >= e
  <2>1. ids[i] <= ids[k] /\ ids[k] \in Nat
    BY <1>4, Ascending
  <2>2. keys[j] # keys[l]
    BY <1>1, <1>4, <2>1
  <2>3. j \notin l..(e - 1)
    BY <1>2, <2>2
  <2> QED BY <1>2, <1>4, <2>3
<1> SUFFICES ASSUME NEW t \in T
             PROVE  Share(ids, keys, rows, i, l, t, from[<<i, l>>][t])
  BY <1>2, <1>3 DEF Settled
<1>5. Share(ids, keys, rows, i, e, t, from[<<i, l>>][t])
  BY <1>2, <1>3 DEF Settled
<1>6. \A j \in 1..Len(rows) : j >= e => j >= l
  BY <1>2
<1> QED BY <1>4, <1>5, <1>6, SameShare

\* An id takes the run of rows with its key.
LEMMA TakeRun ==
    ASSUME NEW T, NEW Q, NEW ids, NEW keys, NEW rows, NEW none, NEW from,
           Mergeable(ids, keys, rows, none, T, Q), IsFrom(ids, keys, rows, none, from),
           NEW i \in 1..Len(ids), NEW l \in 1..Len(rows), ids[i] = keys[l],
           Settled(T, Q, ids, keys, rows, from, i + 1, End(keys, l))
    PROVE  Settled(T, Q, ids, keys, rows, from, i, l)
<1>0. Len(ids) \in Nat /\ Len(rows) \in Nat /\ keys \in Seq(Nat) /\ Len(keys) = Len(rows)
  BY DEF Mergeable
<1>1. Len(ids) \in Nat /\ Len(rows) \in Nat /\ keys[l] \in Nat /\ ids[i] \in T /\ ids[i] \in Nat
      /\ keys \in Seq(Nat) /\ Len(keys) = Len(rows)
  BY <1>0, Ascending
<1>2. PICK e \in (l + 1)..(Len(rows) + 1) :
        /\ e = End(keys, l) /\ \A j \in l..(e - 1) : keys[j] = keys[l]
        /\ e <= Len(rows) => keys[e] # keys[l]
  BY <1>1, EndOfRun
<1>8. /\ l \in 1..(Len(rows) + 1) /\ e - 1 \in 0..Len(rows)
      /\ \A j \in l..(e - 1) : j \in 1..Len(rows)
  <2>1. e \in (l + 1)..(Len(rows) + 1) /\ l \in 1..Len(rows)
    OBVIOUS
  <2> QED BY ONLY <1>0, <2>1
<1>3. from[<<i, l>>] = [from[<<i + 1, e>>] EXCEPT ![ids[i]] = SubSeq(rows, l, e - 1)]
  <2>1. from[<<i, l>>] = Taken(ids, keys, rows, from, i, l)
    <3>1. WaysOn(ids, keys, rows, from, i, l)
      BY FromInside
    <3> QED BY <3>1 DEF WaysOn
  <2> QED BY <1>2, <2>1 DEF Taken
<1>4. from[<<i + 1, e>>] \in [T -> Seq(Q)]
  BY <1>2 DEF Settled
<1>9. SubSeq(rows, l, e - 1) \in Seq(Q)
  <2>1. rows \in Seq(Q)
    BY DEF Mergeable
  <2>2. \A j \in l..(e - 1) : rows[j] \in Q
    BY <1>8, <2>1, ElementOfSeq
  <2> QED BY <1>0, <1>2, <2>1, <2>2
<1>10. from[<<i, l>>] \in [T -> Seq(Q)]
  BY <1>1, <1>3, <1>4, <1>9
<1> SUFFICES ASSUME NEW t \in T
             PROVE  Share(ids, keys, rows, i, l, t, from[<<i, l>>][t])
  BY <1>10 DEF Settled
<1>5. CASE t = ids[i]
  <2>1. from[<<i, l>>][t] = SubSeq(rows, l, e - 1)
    BY <1>1, <1>3, <1>4, <1>5
  <2>2. l \in 1..(Len(rows) + 1) /\ e - 1 \in 0..Len(rows)
    BY <1>8
  <2>3. ASSUME NEW j \in 1..Len(rows), j >= e PROVE keys[j] # t
    <3>1. e \in 1..Len(rows) /\ keys[e] # keys[l]
      <4>1. e <= Len(rows) /\ e >= 1
        BY <1>0, <2>3
      <4> QED BY <1>2, <4>1
    <3>2. keys[l] <= keys[e] /\ keys[e] <= keys[j] /\ keys[e] \in Nat /\ keys[j] \in Nat
      BY <1>2, <2>3, <3>1, Ascending
    <3> QED BY <1>1, <1>5, <3>1, <3>2
  <2>4. ASSUME NEW j \in 1..Len(rows)
        PROVE  j \in l..(e - 1) <=> j >= l /\ keys[j] = t
    BY <1>2, <1>5, <2>3
  <2>5. \E k \in 1..Len(ids) : k >= i /\ ids[k] = t
    BY <1>5
  <2> QED BY <2>1, <2>2, <2>4, <2>5 DEF Share
<1>6. CASE t # ids[i]
  <2>1. from[<<i, l>>][t] = from[<<i + 1, e>>][t]
    BY <1>3, <1>4, <1>6
  <2>2. Share(ids, keys, rows, i + 1, e, t, from[<<i, l>>][t])
    BY <1>2, <2>1 DEF Settled
  <2>3. ASSUME NEW j \in 1..Len(rows), keys[j] = t PROVE j >= l <=> j >= e
    BY <1>2, <1>6, <2>3
  <2>4. ASSUME NEW k \in 1..Len(ids), ids[k] = t PROVE k >= i <=> k >= i + 1
    BY <1>6, <2>4
  <2> QED BY <2>2, <2>3, <2>4, SameShare
<1> QED BY <1>5, <1>6

\* Wherever the merge is, what is ahead is settled.
LEMMA AllSettled ==
    ASSUME NEW T, NEW Q, NEW ids, NEW keys, NEW rows, NEW none, NEW from,
           Mergeable(ids, keys, rows, none, T, Q), \A t \in T : none[t] = <<>>,
           IsFrom(ids, keys, rows, none, from)
    PROVE  Settled(T, Q, ids, keys, rows, from, 1, 1)
<1> DEFINE D == Places(ids, rows)
           m == Ahead(ids, rows)
           Good == {at \in D : Settled(T, Q, ids, keys, rows, from, at[1], at[2])}
<1>1. ids \in Seq(T) /\ rows \in Seq(Q) /\ Len(ids) \in Nat /\ Len(rows) \in Nat
  BY DEF Mergeable
<1>2. m \in [D -> Nat]
  BY <1>1, AheadIsNatural
<1>3. ASSUME NEW at \in D, \A to \in D : m[to] < m[at] => to \in Good
      PROVE  at \in Good
  <2>1. PICK i \in 1..(Len(ids) + 1), l \in 1..(Len(rows) + 1) : at = <<i, l>> /\ at[1] = i /\ at[2] = l
    BY DEF Places
  <2>2. CASE i > Len(ids) \/ l > Len(rows)
    <3>1. Settled(T, Q, ids, keys, rows, from, i, l)
      BY <2>2, EndSettled
    <3> QED BY <2>1, <3>1
  <2>3. CASE i \in 1..Len(ids) /\ l \in 1..Len(rows)
    <3>1. at \in Inside(ids, rows)
      BY <2>1, <2>3 DEF Inside
    <3>2. ASSUME NEW to \in Onward(keys, at)
          PROVE  Settled(T, Q, ids, keys, rows, from, to[1], to[2])
      <4>1. to \in D /\ m[to] < m[at]
        BY <3>1, <3>2, StepsAhead
      <4> QED BY <1>3, <4>1
    <3>3. /\ Settled(T, Q, ids, keys, rows, from, i + 1, l)
          /\ Settled(T, Q, ids, keys, rows, from, i, End(keys, l))
          /\ Settled(T, Q, ids, keys, rows, from, i + 1, End(keys, l))
      <4>1. /\ <<i + 1, l>> \in Onward(keys, at)
            /\ <<i, End(keys, l)>> \in Onward(keys, at)
            /\ <<i + 1, End(keys, l)>> \in Onward(keys, at)
        BY <2>1 DEF Onward
      <4>2. /\ Settled(T, Q, ids, keys, rows, from, <<i + 1, l>>[1], <<i + 1, l>>[2])
            /\ Settled(T, Q, ids, keys, rows, from, <<i, End(keys, l)>>[1], <<i, End(keys, l)>>[2])
            /\ Settled(T, Q, ids, keys, rows, from, <<i + 1, End(keys, l)>>[1], <<i + 1, End(keys, l)>>[2])
        BY <3>2, <4>1
      <4> QED BY <4>2
    <3>4. ids[i] \in Nat /\ keys[l] \in Nat
      BY <2>3, Ascending
    <3>5. ids[i] < keys[l] => Settled(T, Q, ids, keys, rows, from, i, l)
      BY <2>3, <3>3, PassId
    <3>6. ids[i] > keys[l] => Settled(T, Q, ids, keys, rows, from, i, l)
      BY <2>3, <3>3, PassRows
    <3>7. ids[i] = keys[l] => Settled(T, Q, ids, keys, rows, from, i, l)
      BY <2>3, <3>3, TakeRun
    <3>8. Settled(T, Q, ids, keys, rows, from, i, l)
      BY <3>4, <3>5, <3>6, <3>7
    <3> QED BY <2>1, <3>8
  <2> QED BY <1>1, <2>2, <2>3
<1>4. D \subseteq Good
  <2> HIDE DEF D, m, Good
  <2> QED BY <1>2, <1>3, MeasureInduction
<1>5. <<1, 1>> \in D /\ <<1, 1>>[1] = 1 /\ <<1, 1>>[2] = 1
  BY <1>1 DEF Places
<1>6. <<1, 1>> \in Good
  BY <1>4, <1>5
<1>7. Settled(T, Q, ids, keys, rows, from, <<1, 1>>[1], <<1, 1>>[2])
  BY <1>6
<1> QED BY <1>5, <1>7

\* The merge gives every id its rows, and what is not among the ids nothing.
THEOREM CollectGives ==
    ASSUME NEW T, NEW Q, NEW ids, NEW keys, NEW rows, NEW none,
           Mergeable(ids, keys, rows, none, T, Q), \A t \in T : none[t] = <<>>
    PROVE  /\ Collect(ids, keys, rows, none) \in [T -> Seq(Q)]
           /\ \A t \in T : Share(ids, keys, rows, 1, 1, t, Collect(ids, keys, rows, none)[t])
<1>1. \E from : IsFrom(ids, keys, rows, none, from)
  BY FromExists
<1>2. PICK from : /\ IsFrom(ids, keys, rows, none, from)
                  /\ Collect(ids, keys, rows, none) = from[<<1, 1>>]
  BY <1>1, CollectIsFrom
<1>3. Settled(T, Q, ids, keys, rows, from, 1, 1)
  BY <1>2, AllSettled
<1> QED BY <1>2, <1>3 DEF Settled

-----------------------------------------------------------------------------
(* ORDER BY.                                                               *)

\* The row that comes first, and the equation of OrderBy.
Lowest(key, s) == CHOOSE x \in s : \A y \in s : key[x] <= key[y]

OrderStep(S, key, iter) ==
    [s \in SUBSET S |-> IF s = {} THEN <<>> ELSE <<Lowest(key, s)>> \o iter[s \ {Lowest(key, s)}]]

IsOrder(S, key, iter) == iter = OrderStep(S, key, iter)

LEMMA OrderIsIter ==
    ASSUME NEW S, NEW key, \E iter : IsOrder(S, key, iter)
    PROVE  \E iter : IsOrder(S, key, iter) /\ OrderBy(S, key) = iter[S]
<1> DEFINE iter == CHOOSE iter : IsOrder(S, key, iter)
<1>1. IsOrder(S, key, iter)
  OBVIOUS
<1>2. OrderBy(S, key) = iter[S]
  BY DEF OrderBy, MapThenFoldSet, IsOrder, OrderStep, Lowest
<1> QED BY <1>1, <1>2

LEMMA LowestExists ==
    ASSUME NEW S, NEW key \in [S -> Nat], NEW s \in SUBSET S, s # {}
    PROVE  Lowest(key, s) \in s /\ \A y \in s : key[Lowest(key, s)] <= key[y]
<1> DEFINE K == {key[x] : x \in s}
<1>1. K \in SUBSET Nat /\ K # {}
  OBVIOUS
<1>2. PICK n \in K : \A k \in K : n <= k
  <2> HIDE DEF K
  <2> QED BY <1>1, HasLeast
<1>3. \E x \in s : \A y \in s : key[x] <= key[y]
  BY <1>2
<1> QED BY <1>3 DEF Lowest

LEMMA OrderExists ==
    ASSUME NEW S, IsFiniteSet(S), NEW key \in [S -> Nat]
    PROVE  \E iter : IsOrder(S, key, iter)
<1> DEFINE D == SUBSET S
           R == Seq(S)
           m == [s \in D |-> Cardinality(s)]
           F == [iter \in [D -> R] |-> OrderStep(S, key, iter)]
<1>1. \A s \in D : IsFiniteSet(s) /\ Cardinality(s) \in Nat /\ Cardinality(s) <= Cardinality(S)
  BY FS_Subset, FS_CardinalityType
<1>2. ASSUME NEW s \in D, s # {}
      PROVE  /\ Lowest(key, s) \in S /\ s \ {Lowest(key, s)} \in D
             /\ m[s \ {Lowest(key, s)}] < m[s]
  <2>1. Lowest(key, s) \in s
    BY <1>2, LowestExists
  <2>2. Cardinality(s \ {Lowest(key, s)}) = Cardinality(s) - 1
    BY <1>1, <2>1, FS_RemoveElement
  <2> QED BY <1>1, <2>1, <2>2
<1>3. ASSUME NEW iter \in [D -> R] PROVE OrderStep(S, key, iter) \in [D -> R]
  <2>1. ASSUME NEW s \in D, s # {}
        PROVE  <<Lowest(key, s)>> \o iter[s \ {Lowest(key, s)}] \in R
    <3> DEFINE x == Lowest(key, s)
    <3>1. x \in S /\ s \ {x} \in D
      BY <1>2, <2>1
    <3>2. iter[s \ {x}] \in R
      BY <3>1
    <3> HIDE DEF x
    <3>3. <<x>> \in R
      BY <3>1
    <3> QED BY <3>2, <3>3, ConcatProperties DEF x
  <2>2. <<>> \in R
    OBVIOUS
  <2> QED BY <2>1, <2>2 DEF OrderStep
<1>4. F \in [[D -> R] -> [D -> R]]
  BY <1>3
<1>5. \A g, h \in [D -> R] : \A s \in D :
        (\A o \in D : m[o] < m[s] => g[o] = h[o]) => F[g][s] = F[h][s]
  BY <1>2 DEF OrderStep
<1>6. R # {} /\ m \in [D -> Nat] /\ Cardinality(S) \in Nat /\ \A s \in D : m[s] <= Cardinality(S)
  <2>1. R # {}
    BY EmptySeq
  <2>2. Cardinality(S) \in Nat
    BY FS_CardinalityType
  <2> QED BY <1>1, <2>1, <2>2
<1>7. Recursion(D, R, m, Cardinality(S), F)
  <2> HIDE DEF D, R, m, F
  <2> QED BY <1>4, <1>5, <1>6 DEF Recursion
<1>8. PICK g \in [D -> R] : g = F[g]
  <2> HIDE DEF D, R, m, F
  <2> QED BY <1>7, MeasureRecursion
<1> QED BY <1>8 DEF IsOrder

\* q is s in ascending order.
Arranged(key, s, q) ==
    /\ q \in Seq(s) /\ Len(q) = Cardinality(s)
    /\ \A x \in s : \E i \in 1..Len(q) : q[i] = x
    /\ \A i, j \in 1..Len(q) : i < j => q[i] # q[j] /\ key[q[i]] <= key[q[j]]

LEMMA NothingArranged ==
    ASSUME NEW key
    PROVE  Arranged(key, {}, <<>>)
BY FS_EmptySet DEF Arranged

LEMMA LowestFirst ==
    ASSUME NEW S, IsFiniteSet(S), NEW key \in [S -> Nat], NEW s \in SUBSET S,
           NEW x \in s, \A y \in s : key[x] <= key[y],
           NEW q, Arranged(key, s \ {x}, q)
    PROVE  Arranged(key, s, <<x>> \o q)
<1> DEFINE n == Len(q)
           p == <<x>> \o q
<1>1. q \in Seq(s \ {x}) /\ n \in Nat /\ n = Cardinality(s \ {x})
  BY DEF Arranged
<1>2. n + 1 = Cardinality(s)
  <2>1. IsFiniteSet(s) /\ Cardinality(s) \in Nat
    BY FS_Subset, FS_CardinalityType
  <2>2. Cardinality(s \ {x}) = Cardinality(s) - 1
    BY <2>1, FS_RemoveElement
  <2> QED BY <1>1, <2>1, <2>2
<1>3. q \in Seq(s) /\ <<x>> \in Seq(s) /\ Len(<<x>>) = 1
  BY <1>1
<1>4. p \in Seq(s) /\ Len(p) = n + 1
  <2>1. p \in Seq(s) /\ Len(p) = Len(<<x>>) + n
    BY <1>3, ConcatProperties
  <2> QED BY <1>1, <1>3, <2>1
<1>5. p[1] = x
  BY <1>3, ConcatProperties
<1>6. ASSUME NEW i \in 1..n PROVE p[i + 1] = q[i] /\ q[i] \in s /\ q[i] # x
  <2>1. i + 1 \in 1..(n + 1) /\ i + 1 > 1
    BY <1>1
  <2>2. p[i + 1] = q[(i + 1) - 1]
    BY <1>1, <1>3, <2>1
  <2> QED BY <1>1, <2>2
<1>7. ASSUME NEW y \in s PROVE \E i \in 1..(n + 1) : p[i] = y
  <2>1. CASE y = x
    BY <1>1, <1>5, <2>1
  <2>2. CASE y # x
    <3>1. PICK i \in 1..n : q[i] = y
      BY <2>2 DEF Arranged
    <3>2. i + 1 \in 1..(n + 1) /\ p[i + 1] = y
      BY <1>1, <1>6, <3>1
    <3> QED BY <3>2
  <2> QED BY <2>1, <2>2
<1>8. ASSUME NEW i \in 1..(n + 1), NEW j \in 1..(n + 1), i < j
      PROVE  p[i] # p[j] /\ key[p[i]] <= key[p[j]]
  <2>1. j - 1 \in 1..n /\ p[j] = q[j - 1] /\ q[j - 1] \in s /\ q[j - 1] # x
    <3>1. j - 1 \in 1..n /\ (j - 1) + 1 = j
      BY <1>1, <1>8
    <3> QED BY <1>6, <3>1
  <2>2. CASE i = 1
    BY <1>5, <2>1, <2>2
  <2>3. CASE i # 1
    <3>1. i - 1 \in 1..n /\ (i - 1) + 1 = i
      BY <1>1, <1>8, <2>3
    <3>2. p[i] = q[i - 1]
      BY <1>6, <3>1
    <3>3. q[i - 1] # q[j - 1] /\ key[q[i - 1]] <= key[q[j - 1]]
      <4>1. i - 1 < j - 1
        BY <1>1, <1>8
      <4> QED BY <2>1, <3>1, <4>1 DEF Arranged
    <3> QED BY <2>1, <3>2, <3>3
  <2> QED BY <2>2, <2>3
<1> HIDE DEF p
<1>9. Arranged(key, s, p)
  BY <1>2, <1>4, <1>7, <1>8 DEF Arranged
<1> QED BY <1>9 DEF p

\* ORDER BY gives all rows, each once, in ascending order of their keys.
THEOREM OrderByArranges ==
    ASSUME NEW S, IsFiniteSet(S), NEW key \in [S -> Nat]
    PROVE  Arranged(key, S, OrderBy(S, key))
<1>1. PICK iter : IsOrder(S, key, iter) /\ OrderBy(S, key) = iter[S]
  BY OrderExists, OrderIsIter
<1> DEFINE D == SUBSET S
           m == [s \in D |-> Cardinality(s)]
           Good == {s \in D : Arranged(key, s, iter[s])}
<1>2. \A s \in D : IsFiniteSet(s) /\ Cardinality(s) \in Nat
  BY FS_Subset, FS_CardinalityType
<1>3. m \in [D -> Nat]
  BY <1>2
<1>4. ASSUME NEW s \in D, \A o \in D : m[o] < m[s] => o \in Good
      PROVE  s \in Good
  <2> DEFINE step == OrderStep(S, key, iter)
             x == Lowest(key, s)
  <2>1. iter[s] = step[s]
    BY <1>1 DEF IsOrder
  <2>2. ASSUME s = {} PROVE Arranged(key, s, iter[s])
    <3>1. iter[s] = <<>>
      BY <2>1, <2>2 DEF OrderStep
    <3> QED BY <2>2, <3>1, NothingArranged
  <2>3. ASSUME s # {} PROVE Arranged(key, s, iter[s])
    <3>1. iter[s] = <<x>> \o iter[s \ {x}]
      BY <2>1, <2>3 DEF OrderStep
    <3>2. x \in s /\ \A y \in s : key[x] <= key[y]
      BY <2>3, LowestExists
    <3>3. s \ {x} \in D /\ Cardinality(s \ {x}) = Cardinality(s) - 1
      BY <1>2, <3>2, FS_RemoveElement
    <3>4. m[s \ {x}] < m[s]
      BY <1>2, <3>3
    <3>5. Arranged(key, s \ {x}, iter[s \ {x}])
      BY <1>4, <3>3, <3>4
    <3> HIDE DEF x
    <3> QED BY <3>1, <3>2, <3>5, LowestFirst
  <2>4. Arranged(key, s, iter[s])
    BY <2>2, <2>3
  <2> QED BY <2>4
<1>5. D \subseteq Good
  <2> HIDE DEF D, m, Good
  <2> QED BY <1>3, <1>4, MeasureInduction
<1> QED BY <1>1, <1>5

-----------------------------------------------------------------------------
(* Sorting and merging together.                                           *)

\* The rows with key t, if t is among the ids.
Held(ids, keys, rows, t) ==
    {rows[j] : j \in {i \in 1..Len(rows) : keys[i] = t /\ \E k \in 1..Len(ids) : ids[k] = t}}

\* A share holds these, each once.
LEMMA ShareHoldsRows ==
    ASSUME NEW S, NEW rows \in Seq(S), NEW ids, NEW keys, NEW t, NEW part,
           \A i, j \in 1..Len(rows) : i < j => rows[i] # rows[j],
           Share(ids, keys, rows, 1, 1, t, part)
    PROVE  /\ ToSet(part) = Held(ids, keys, rows, t)
           /\ Len(part) = Cardinality(Held(ids, keys, rows, t))
<1>1. PICK a \in 1..(Len(rows) + 1), b \in 0..Len(rows) :
        /\ part = SubSeq(rows, a, b)
        /\ \A j \in 1..Len(rows) :
             j \in a..b <=> /\ j >= 1 /\ keys[j] = t
                            /\ \E k \in 1..Len(ids) : k >= 1 /\ ids[k] = t
  BY DEF Share
<1> DEFINE n == Len(part)
           mine == Held(ids, keys, rows, t)
<1>2. Len(rows) \in Nat /\ a \in Int /\ b \in Int /\ a..b \subseteq 1..Len(rows)
  OBVIOUS
<1>3. /\ part \in Seq(S) /\ n = IF a <= b THEN b - a + 1 ELSE 0
      /\ \A i \in 1..(b - a + 1) : part[i] = rows[a + i - 1]
  <2>1. \A i \in a..b : rows[i] \in S
    BY <1>2
  <2> QED BY <1>1, <1>2, <2>1, SubSeqProperties
<1>4. n \in Nat /\ DOMAIN part = 1..n
  BY <1>3, LenProperties
<1>5. \A i \in 1..n : part[i] = rows[a + i - 1] /\ a + i - 1 \in a..b
  BY <1>2, <1>3, <1>4
<1>6. \A j \in a..b : j - a + 1 \in 1..n /\ part[j - a + 1] = rows[j]
  <2> SUFFICES ASSUME NEW j \in a..b
               PROVE  j - a + 1 \in 1..n /\ part[j - a + 1] = rows[j]
    OBVIOUS
  <2>1. j - a + 1 \in 1..n /\ a + (j - a + 1) - 1 = j
    BY <1>2, <1>3
  <2> QED BY <1>5, <2>1
<1>7. mine = {rows[j] : j \in a..b}
  <2>1. {i \in 1..Len(rows) : keys[i] = t /\ \E k \in 1..Len(ids) : ids[k] = t} = a..b
    BY <1>1, <1>2
  <2> QED BY <2>1 DEF Held
<1> HIDE DEF mine
<1>11. \A i \in 1..n : part[i] \in mine
  BY <1>5, <1>7
<1>12. \A y \in mine : \E i \in 1..n : part[i] = y
  BY <1>6, <1>7
<1>13. part \in [1..n -> mine]
  BY <1>3, <1>11, LenProperties
<1>8. ToSet(part) = mine
  BY <1>4, <1>11, <1>12 DEF ToSet
<1>9. n = Cardinality(mine)
  <2>1. part \in Injection(1..n, mine)
    <3>2. ASSUME NEW i \in 1..n, NEW j \in 1..n, part[i] = part[j] PROVE i = j
      <4>1. a + i - 1 \in 1..Len(rows) /\ a + j - 1 \in 1..Len(rows)
        BY <1>2, <1>5
      <4>2. rows[a + i - 1] = rows[a + j - 1]
        BY <1>5, <3>2
      <4> QED BY <1>2, <1>4, <4>1, <4>2
    <3> QED BY <1>13, <3>2 DEF Injection, IsInjective
  <2>2. part \in Surjection(1..n, mine)
    BY <1>12, <1>13 DEF Surjection
  <2>3. ExistsBijection(1..n, mine)
    BY <2>1, <2>2 DEF ExistsBijection, Bijection
  <2>4. IsFiniteSet(1..n) /\ Cardinality(1..n) = n
    <3> DEFINE m == n
    <3>1. m \in Nat
      BY <1>4
    <3> HIDE DEF m
    <3>2. IsFiniteSet(1..m) /\ Cardinality(1..m) = IF 1 > m THEN 0 ELSE m - 1 + 1
      <4>1. 1 \in Int /\ m \in Int
        BY <3>1
      <4> QED BY ONLY <4>1, FS_Interval
    <3>3. IsFiniteSet(1..m) /\ Cardinality(1..m) = m
      BY <3>1, <3>2
    <3> QED BY <3>3 DEF m
  <2> QED BY <2>3, <2>4, FS_Bijection
<1> QED BY <1>8, <1>9 DEF mine

\* Ascending ids, and rows that were fetched, with their keys.
Fetched(T, Q, ids, S, key, none) ==
    /\ T \subseteq Nat /\ ids \in Seq(T)
    /\ \A i, k \in 1..Len(ids) : i < k => ids[i] < ids[k]
    /\ IsFiniteSet(S) /\ S \subseteq Q /\ key \in [S -> Nat]
    /\ none \in [T -> Seq(Q)] /\ \A t \in T : none[t] = <<>>

KeysOf(rows, key) == [i \in DOMAIN rows |-> key[rows[i]]]

\* Each id has its own rows, all and once.
GroupedBy(T, Q, ids, S, key, merged) ==
    /\ merged \in [T -> Seq(Q)]
    /\ \A t \in T :
         LET mine == {x \in S : key[x] = t /\ t \in ToSet(ids)}
         IN  ToSet(merged[t]) = mine /\ Len(merged[t]) = Cardinality(mine)

\* Rows fetched for sorted ids and merged: each id gets its own rows, all and once.
THEOREM MergeGroups ==
    ASSUME NEW T, NEW Q, NEW ids, NEW S, NEW key, NEW none, Fetched(T, Q, ids, S, key, none)
    PROVE  LET rows == OrderBy(S, key)
           IN  GroupedBy(T, Q, ids, S, key, Collect(ids, KeysOf(rows, key), rows, none))
<1> DEFINE rows == OrderBy(S, key)
           keys == KeysOf(rows, key)
           merged == Collect(ids, keys, rows, none)
<1>0. /\ T \subseteq Nat /\ ids \in Seq(T)
      /\ \A i, k \in 1..Len(ids) : i < k => ids[i] < ids[k]
      /\ IsFiniteSet(S) /\ S \subseteq Q /\ key \in [S -> Nat]
      /\ none \in [T -> Seq(Q)] /\ \A t \in T : none[t] = <<>>
  BY DEF Fetched
<1>1. /\ rows \in Seq(S)
      /\ \A x \in S : \E i \in 1..Len(rows) : rows[i] = x
      /\ \A i, j \in 1..Len(rows) : i < j => rows[i] # rows[j] /\ key[rows[i]] <= key[rows[j]]
  BY <1>0, OrderByArranges DEF Arranged
<1> HIDE DEF rows
<1>2. DOMAIN rows = 1..Len(rows) /\ Len(rows) \in Nat /\ \A i \in 1..Len(rows) : rows[i] \in S
  BY <1>1, LenProperties
<1>3. keys \in Seq(Nat) /\ Len(keys) = Len(rows) /\ \A i \in 1..Len(rows) : keys[i] = key[rows[i]]
  BY <1>0, <1>2 DEF KeysOf
<1> HIDE DEF keys
<1>4. Mergeable(ids, keys, rows, none, T, Q)
  <2>1. rows \in Seq(Q)
    BY <1>0, <1>1, SeqMonotonic
  <2>2. \A j, l \in 1..Len(keys) : j < l => keys[j] <= keys[l]
    BY <1>1, <1>3
  <2> QED BY <1>0, <1>3, <2>1, <2>2 DEF Mergeable
<1>5. merged \in [T -> Seq(Q)]
  BY <1>0, <1>4, CollectGives
<1>6. ASSUME NEW t \in T
      PROVE  LET mine == {x \in S : key[x] = t /\ t \in ToSet(ids)}
             IN  ToSet(merged[t]) = mine /\ Len(merged[t]) = Cardinality(mine)
  <2> DEFINE mine == {x \in S : key[x] = t /\ t \in ToSet(ids)}
             held == Held(ids, keys, rows, t)
  <2>1. Share(ids, keys, rows, 1, 1, t, merged[t])
    BY <1>0, <1>4, CollectGives
  <2>2. ToSet(merged[t]) = held /\ Len(merged[t]) = Cardinality(held)
    <3> HIDE DEF merged
    <3> QED BY <1>1, <2>1, ShareHoldsRows
  <2>3. t \in ToSet(ids) <=> \E k \in 1..Len(ids) : ids[k] = t
    BY <1>0, LenProperties DEF ToSet
  <2>4. held = mine
    <3>1. ASSUME NEW x \in held PROVE x \in mine
      <4>1. PICK j \in 1..Len(rows) : x = rows[j] /\ keys[j] = t /\ \E k \in 1..Len(ids) : ids[k] = t
        BY <3>1 DEF Held
      <4> QED BY <1>2, <1>3, <2>3, <4>1
    <3>2. ASSUME NEW x \in mine PROVE x \in held
      <4>1. PICK j \in 1..Len(rows) : rows[j] = x
        BY <1>1
      <4>2. keys[j] = t /\ \E k \in 1..Len(ids) : ids[k] = t
        BY <1>3, <2>3, <4>1
      <4> QED BY <4>1, <4>2 DEF Held
    <3> QED BY <3>1, <3>2
  <2> QED BY <2>2, <2>4
<1> QED BY <1>5, <1>6 DEF GroupedBy, keys, rows
=============================================================================
