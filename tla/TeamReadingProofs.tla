-------------------------- MODULE TeamReadingProofs --------------------------
(***************************************************************************)
(* Proofs about the list of teams and the report, for any users, teams,    *)
(* tasks and requests: the report's metrics agree with each other and with *)
(* the tables, and a list shows its caller their teams, each with what is  *)
(* its own.                                                                *)
(***************************************************************************)
EXTENDS TeamReadingSafety, MergingProofs

-----------------------------------------------------------------------------
(* Sums.                                                                   *)

One(s) == CHOOSE x \in s : TRUE

SumStep(v, S, g) == [s \in SUBSET S |-> IF s = {} THEN 0 ELSE v[One(s)] + g[s \ {One(s)}]]

IsSum(v, S, g) == g = SumStep(v, S, g)

LEMMA SumIsFold ==
    ASSUME NEW v, NEW S, DOMAIN v = S, \E g : IsSum(v, S, g)
    PROVE  \E g : IsSum(v, S, g) /\ SumFunction(v) = g[S]
<1> DEFINE g == CHOOSE g : IsSum(v, S, g)
<1>1. IsSum(v, S, g)
  OBVIOUS
<1>2. SumFunctionOnSet(v, S) = g[S]
  BY DEF SumFunctionOnSet, FoldFunctionOnSet, MapThenFoldSet, IsSum, SumStep, One
<1> QED BY <1>1, <1>2 DEF SumFunction

LEMMA Smaller ==
    ASSUME NEW S, IsFiniteSet(S)
    PROVE  \A s \in SUBSET S :
             /\ IsFiniteSet(s) /\ Cardinality(s) \in Nat /\ Cardinality(s) <= Cardinality(S)
             /\ \A x \in s : Cardinality(s \ {x}) = Cardinality(s) - 1
             /\ s # {} => One(s) \in s
<1> SUFFICES ASSUME NEW s \in SUBSET S
             PROVE  /\ IsFiniteSet(s) /\ Cardinality(s) \in Nat /\ Cardinality(s) <= Cardinality(S)
                    /\ \A x \in s : Cardinality(s \ {x}) = Cardinality(s) - 1
                    /\ s # {} => One(s) \in s
  OBVIOUS
<1>1. IsFiniteSet(s) /\ Cardinality(s) \in Nat /\ Cardinality(s) <= Cardinality(S)
  BY FS_Subset, FS_CardinalityType
<1>2. \A x \in s : Cardinality(s \ {x}) = Cardinality(s) - 1
  BY <1>1, FS_RemoveElement
<1>3. s # {} => One(s) \in s
  BY DEF One
<1> QED BY <1>1, <1>2, <1>3

LEMMA SumExists ==
    ASSUME NEW S, IsFiniteSet(S), NEW v \in [S -> Nat]
    PROVE  \E g \in [SUBSET S -> Nat] : IsSum(v, S, g)
<1> DEFINE D == SUBSET S
           m == [s \in D |-> Cardinality(s)]
           F == [g \in [D -> Nat] |-> SumStep(v, S, g)]
<1>1. \A s \in D : Cardinality(s) \in Nat /\ Cardinality(s) <= Cardinality(S)
  BY Smaller
<1>2. ASSUME NEW s \in D, s # {}
      PROVE  One(s) \in S /\ s \ {One(s)} \in D /\ m[s \ {One(s)}] < m[s]
  <2>1. One(s) \in s
    BY <1>2, Smaller
  <2>2. Cardinality(s \ {One(s)}) = Cardinality(s) - 1
    BY <2>1, Smaller
  <2> QED BY <1>1, <2>1, <2>2
<1>3. ASSUME NEW g \in [D -> Nat] PROVE SumStep(v, S, g) \in [D -> Nat]
  <2>1. ASSUME NEW s \in D, s # {} PROVE v[One(s)] + g[s \ {One(s)}] \in Nat
    <3> DEFINE x == One(s)
    <3>1. x \in S /\ s \ {x} \in D
      BY <1>2, <2>1
    <3> HIDE DEF x
    <3>2. v[x] \in Nat /\ g[s \ {x}] \in Nat
      BY <3>1
    <3> QED BY <3>2 DEF x
  <2> QED BY <2>1 DEF SumStep
<1>4. F \in [[D -> Nat] -> [D -> Nat]]
  BY <1>3
<1>5. \A g, h \in [D -> Nat] : \A s \in D :
        (\A o \in D : m[o] < m[s] => g[o] = h[o]) => F[g][s] = F[h][s]
  BY <1>2 DEF SumStep
<1>6. Nat # {} /\ m \in [D -> Nat] /\ Cardinality(S) \in Nat /\ \A s \in D : m[s] <= Cardinality(S)
  <2>1. Cardinality(S) \in Nat
    BY FS_CardinalityType
  <2> QED BY <1>1, <2>1
<1>7. Recursion(D, Nat, m, Cardinality(S), F)
  <2> HIDE DEF D, m, F
  <2> QED BY <1>4, <1>5, <1>6 DEF Recursion
<1>8. PICK g \in [D -> Nat] : g = F[g]
  <2> HIDE DEF D, m, F
  <2> QED BY <1>7, MeasureRecursion
<1> QED BY <1>8 DEF IsSum

LEMMA SumIsNatural ==
    ASSUME NEW S, IsFiniteSet(S), NEW v \in [S -> Nat], NEW g, IsSum(v, S, g)
    PROVE  g \in [SUBSET S -> Nat]
<1> DEFINE D == SUBSET S
           m == [s \in D |-> Cardinality(s)]
           Good == {s \in D : g[s] \in Nat}
           step == SumStep(v, S, g)
<1>1. g = step
  BY DEF IsSum
<1>2. m \in [D -> Nat]
  BY Smaller
<1>3. ASSUME NEW s \in D, \A o \in D : m[o] < m[s] => o \in Good
      PROVE  s \in Good
  <2>1. CASE s = {}
    <3>1. step[s] = 0
      BY <2>1 DEF SumStep
    <3> HIDE DEF step
    <3> QED BY <1>1, <3>1
  <2>2. CASE s # {}
    <3> DEFINE x == One(s)
    <3>1. x \in s /\ Cardinality(s) \in Nat /\ Cardinality(s \ {x}) = Cardinality(s) - 1
      BY <2>2, Smaller
    <3>2. step[s] = v[x] + g[s \ {x}]
      BY <2>2 DEF SumStep
    <3> HIDE DEF step, x
    <3>3. s \ {x} \in D /\ m[s \ {x}] < m[s]
      BY <3>1
    <3>4. g[s \ {x}] \in Nat /\ v[x] \in Nat
      BY <1>3, <3>1, <3>3
    <3> QED BY <1>1, <3>2, <3>4
  <2> QED BY <2>1, <2>2
<1>4. D \subseteq Good
  <2> HIDE DEF D, m, Good
  <2> QED BY <1>2, <1>3, MeasureInduction
<1>5. DOMAIN g = D /\ g = [s \in D |-> g[s]]
  BY <1>1 DEF SumStep
<1> HIDE DEF step
<1> QED BY <1>4, <1>5

\* g adds the values of v over any part of S, in any order.
Adds(v, S, g) ==
    /\ g \in [SUBSET S -> Nat] /\ g[{}] = 0
    /\ \A s \in SUBSET S : \A x \in s : g[s] = v[x] + g[s \ {x}]

\* A sum does not depend on the order of its terms.
LEMMA SumAdds ==
    ASSUME NEW S, IsFiniteSet(S), NEW v \in [S -> Nat], NEW g \in [SUBSET S -> Nat], IsSum(v, S, g)
    PROVE  Adds(v, S, g)
<1> DEFINE D == SUBSET S
           m == [s \in D |-> Cardinality(s)]
           Good == {s \in D : \A x \in s : g[s] = v[x] + g[s \ {x}]}
<1>1. \A s \in D : Cardinality(s) \in Nat /\ \A x \in s : Cardinality(s \ {x}) = Cardinality(s) - 1
  BY Smaller
<1>2. ASSUME NEW s \in D, s # {} PROVE One(s) \in s /\ g[s] = v[One(s)] + g[s \ {One(s)}]
  <2> DEFINE step == SumStep(v, S, g)
  <2>1. step[s] = v[One(s)] + g[s \ {One(s)}]
    BY <1>2 DEF SumStep
  <2>2. g[s] = step[s]
    BY DEF IsSum
  <2>3. One(s) \in s
    BY <1>2, Smaller
  <2> HIDE DEF step
  <2> QED BY ONLY <2>1, <2>2, <2>3
<1>3. ASSUME NEW s \in D, \A o \in D : m[o] < m[s] => o \in Good
      PROVE  s \in Good
  <2> SUFFICES ASSUME NEW x \in s PROVE g[s] = v[x] + g[s \ {x}]
    OBVIOUS
  <2>1. PICK a \in s : g[s] = v[a] + g[s \ {a}]
    BY <1>2
  <2>2. CASE x = a
    BY <2>1, <2>2
  <2>3. CASE x # a
    <3>1. /\ s \ {a} \in D /\ s \ {x} \in D /\ x \in s \ {a} /\ a \in s \ {x}
          /\ m[s \ {a}] < m[s] /\ m[s \ {x}] < m[s]
      BY <1>1, <2>3
    <3>2. s \ {a} \in Good /\ s \ {x} \in Good
      BY <1>3, <3>1
    <3> DEFINE rest == (s \ {a}) \ {x}
    <3>3. rest = (s \ {x}) \ {a} /\ rest \in D
      OBVIOUS
    <3>4. g[s \ {a}] = v[x] + g[rest]
      BY <3>1, <3>2
    <3>5. g[s \ {x}] = v[a] + g[rest]
      BY <3>1, <3>2, <3>3
    <3>6. v[x] \in Nat /\ v[a] \in Nat /\ g[rest] \in Nat
      BY <3>3
    <3> HIDE DEF rest
    <3>7. v[a] + (v[x] + g[rest]) = v[x] + (v[a] + g[rest])
      BY ONLY <3>6
    <3> QED BY ONLY <2>1, <3>4, <3>5, <3>7
  <2> QED BY <2>2, <2>3
<1>4. m \in [D -> Nat]
  BY <1>1
<1>5. D \subseteq Good
  <2> HIDE DEF D, m, Good
  <2> QED BY <1>3, <1>4, MeasureInduction
<1>6. g[{}] = 0
  <2> DEFINE step == SumStep(v, S, g)
  <2>1. step[{}] = 0
    BY DEF SumStep
  <2>2. g[{}] = step[{}]
    BY DEF IsSum
  <2> HIDE DEF step
  <2> QED BY ONLY <2>1, <2>2
<1> QED BY <1>5, <1>6 DEF Adds

LEMMA SumRule ==
    ASSUME NEW S, IsFiniteSet(S), NEW v \in [S -> Nat]
    PROVE  SumFunction(v) \in Nat /\ \E g : Adds(v, S, g) /\ SumFunction(v) = g[S]
<1>1. PICK g : IsSum(v, S, g) /\ SumFunction(v) = g[S]
  <2>1. \E g : IsSum(v, S, g)
    BY SumExists
  <2>2. DOMAIN v = S
    OBVIOUS
  <2> QED BY <2>1, <2>2, SumIsFold
<1>2. g \in [SUBSET S -> Nat]
  BY <1>1, SumIsNatural
<1> QED BY <1>1, <1>2, SumAdds

LEMMA SumOfOne ==
    ASSUME NEW a, NEW v, v \in [{a} -> Nat]
    PROVE  SumFunction(v) = v[a]
<1>1. IsFiniteSet({a})
  BY FS_Singleton
<1>2. PICK g : Adds(v, {a}, g) /\ SumFunction(v) = g[{a}]
  BY <1>1, SumRule
<1>3. g[{a}] = v[a] + g[{a} \ {a}] /\ {a} \ {a} = {} /\ g[{}] = 0 /\ v[a] \in Nat
  BY <1>2 DEF Adds
<1> QED BY <1>2, <1>3

\* Each x of J counts those of S that f sends to d[x].
Counts(S, f, J, d, v) ==
    /\ IsFiniteSet(S) /\ IsFiniteSet(J) /\ v \in [J -> Nat]
    /\ \A x, y \in J : d[x] = d[y] => x = y
    /\ \A x \in J : v[x] = Cardinality({t \in S : f[t] = d[x]})

\* Counting group by group and adding is counting.
LEMMA GroupsAddUp ==
    ASSUME NEW S, NEW f, NEW J, NEW d, NEW v, Counts(S, f, J, d, v)
    PROVE  SumFunction(v) = Cardinality({t \in S : \E x \in J : f[t] = d[x]})
<1>0. /\ IsFiniteSet(S) /\ IsFiniteSet(J) /\ v \in [J -> Nat]
      /\ \A x, y \in J : d[x] = d[y] => x = y
      /\ \A x \in J : v[x] = Cardinality({t \in S : f[t] = d[x]})
  BY DEF Counts
<1>1. PICK g : Adds(v, J, g) /\ SumFunction(v) = g[J]
  BY <1>0, SumRule
<1> DEFINE Of(s) == {t \in S : \E x \in s : f[t] = d[x]}
           D == SUBSET J
           m == [s \in D |-> Cardinality(s)]
           Good == {s \in D : g[s] = Cardinality(Of(s))}
<1>2. m \in [D -> Nat]
  BY <1>0, Smaller
<1>3. ASSUME NEW s \in D, \A o \in D : m[o] < m[s] => o \in Good
      PROVE  s \in Good
  <2>1. CASE s = {}
    <3>1. Of(s) = {}
      BY <2>1
    <3> QED BY <1>1, <2>1, <3>1, FS_EmptySet DEF Adds
  <2>2. CASE s # {}
    <3>1. PICK x \in s : TRUE
      BY <2>2
    <3> DEFINE mine == {t \in S : f[t] = d[x]}
               rest == s \ {x}
    <3>2. rest \in D /\ m[rest] < m[s]
      <4>1. Cardinality(s) \in Nat /\ Cardinality(rest) = Cardinality(s) - 1
        BY <1>0, Smaller
      <4> QED BY <4>1
    <3>3. g[rest] = Cardinality(Of(rest))
      BY <1>3, <3>2
    <3>4. Of(s) = mine \cup Of(rest) /\ mine \cap Of(rest) = {}
      BY <1>0
    <3>5. IsFiniteSet(mine) /\ IsFiniteSet(Of(rest))
      BY <1>0, FS_Subset
    <3>6. g[s] = v[x] + g[rest]
      BY <1>1 DEF Adds
    <3>7. v[x] = Cardinality(mine)
      BY <1>0
    <3> HIDE DEF mine, rest, Of
    <3>8. Cardinality(Of(s)) = Cardinality(mine) + Cardinality(Of(rest))
      <4>1. Cardinality(mine \cup Of(rest)) =
              Cardinality(mine) + Cardinality(Of(rest)) - Cardinality(mine \cap Of(rest))
        BY <3>5, FS_Union
      <4>2. Cardinality(mine) \in Nat /\ Cardinality(Of(rest)) \in Nat
        BY <3>5, FS_CardinalityType
      <4>3. Cardinality(mine \cap Of(rest)) = 0
        BY <3>4, FS_EmptySet
      <4>4. Cardinality(Of(s)) = Cardinality(mine \cup Of(rest))
        BY <3>4
      <4> QED BY ONLY <4>1, <4>2, <4>3, <4>4
    <3>9. g[s] = Cardinality(Of(s))
      BY ONLY <3>3, <3>6, <3>7, <3>8
    <3> QED BY <3>9
  <2> QED BY <2>1, <2>2
<1>4. D \subseteq Good
  <2> HIDE DEF D, m, Good
  <2> QED BY <1>2, <1>3, MeasureInduction
<1> QED BY <1>1, <1>4

\* h pairs the terms of two sums.
Paired(S, T, h, v, w) ==
    /\ IsFiniteSet(S) /\ IsFiniteSet(T) /\ v \in [S -> Nat] /\ w \in [T -> Nat]
    /\ \A x \in S : h[x] \in T /\ w[h[x]] = v[x]
    /\ \A x, y \in S : h[x] = h[y] => x = y
    /\ \A t \in T : \E x \in S : h[x] = t

LEMMA SameSum ==
    ASSUME NEW S, NEW T, NEW h, NEW v, NEW w, Paired(S, T, h, v, w)
    PROVE  SumFunction(v) = SumFunction(w)
<1>0. /\ IsFiniteSet(S) /\ IsFiniteSet(T) /\ v \in [S -> Nat] /\ w \in [T -> Nat]
      /\ \A x \in S : h[x] \in T /\ w[h[x]] = v[x]
      /\ \A x, y \in S : h[x] = h[y] => x = y
      /\ \A t \in T : \E x \in S : h[x] = t
  BY DEF Paired
<1>1. PICK g : Adds(v, S, g) /\ SumFunction(v) = g[S]
  BY <1>0, SumRule
<1>2. PICK k : Adds(w, T, k) /\ SumFunction(w) = k[T]
  BY <1>0, SumRule
<1> DEFINE To(s) == {h[x] : x \in s}
           D == SUBSET S
           m == [s \in D |-> Cardinality(s)]
           Good == {s \in D : g[s] = k[To(s)]}
<1>3. m \in [D -> Nat]
  BY <1>0, Smaller
<1>4. ASSUME NEW s \in D, \A o \in D : m[o] < m[s] => o \in Good
      PROVE  s \in Good
  <2>1. CASE s = {}
    <3>1. To(s) = {}
      BY <2>1
    <3> QED BY <1>1, <1>2, <2>1, <3>1 DEF Adds
  <2>2. CASE s # {}
    <3>1. PICK x \in s : TRUE
      BY <2>2
    <3> DEFINE rest == s \ {x}
    <3>2. rest \in D /\ m[rest] < m[s]
      <4>1. Cardinality(s) \in Nat /\ Cardinality(rest) = Cardinality(s) - 1
        BY <1>0, Smaller
      <4> QED BY <4>1
    <3>3. g[rest] = k[To(rest)]
      BY <1>4, <3>2
    <3>4. To(s) \in SUBSET T /\ h[x] \in To(s) /\ To(s) \ {h[x]} = To(rest)
      BY <1>0
    <3>5. g[s] = v[x] + g[rest]
      BY <1>1 DEF Adds
    <3>6. w[h[x]] = v[x]
      BY <1>0
    <3> HIDE DEF rest, To
    <3>7. k[To(s)] = w[h[x]] + k[To(s) \ {h[x]}]
      BY <1>2, <3>4 DEF Adds
    <3>8. g[s] = k[To(s)]
      BY ONLY <3>3, <3>4, <3>5, <3>6, <3>7
    <3> QED BY <3>8
  <2> QED BY <2>1, <2>2
<1>5. D \subseteq Good
  <2> HIDE DEF D, m, Good
  <2> QED BY <1>3, <1>4, MeasureInduction
<1>6. To(S) = T
  BY <1>0
<1> QED BY <1>1, <1>2, <1>5, <1>6
-----------------------------------------------------------------------------
(* What the report counts.                                                 *)

\* closed_at is set only while the status closes the task.
SaneRows(rows) ==
    /\ IsFiniteSet(rows)
    /\ \A t \in rows : t.row \in Task /\ (t.row.closed # "never" => t.row.status \in Closing)

\* GROUP BY f, of some groups.
Groups(type, S, f, G) ==
    {[type |-> type, detail |-> s, value |-> Cardinality({t \in S : f[t] = s})] : s \in G}

LEMMA GroupsTotal ==
    ASSUME NEW type, NEW S, IsFiniteSet(S), NEW f, NEW G, IsFiniteSet(G)
    PROVE  /\ IsFiniteSet(Groups(type, S, f, G))
           /\ Cardinality(Groups(type, S, f, G)) <= Cardinality(G)
           /\ Total(Groups(type, S, f, G)) = Cardinality({t \in S : f[t] \in G})
<1> DEFINE row(s) == [type |-> type, detail |-> s, value |-> Cardinality({t \in S : f[t] = s})]
           J == Groups(type, S, f, G)
           h == [s \in G |-> row(s)]
           d == [x \in J |-> x.detail]
           v == [x \in J |-> x.value]
<1>1. J = {row(s) : s \in G}
  BY DEF Groups
<1>2. IsFiniteSet(J) /\ Cardinality(J) <= Cardinality(G)
  <2>1. h \in Surjection(G, J)
    <3> HIDE DEF row, J
    <3> QED BY <1>1 DEF Surjection
  <2> HIDE DEF h, J
  <2> QED BY <2>1, FS_Surjection
<1>3. ASSUME NEW x \in J
      PROVE  x = row(x.detail) /\ x.detail \in G /\ x.value = Cardinality({t \in S : f[t] = x.detail})
             /\ x.value \in Nat
  <2>1. PICK s \in G : x = row(s)
    BY <1>1
  <2>2. x.detail = s /\ x.value = Cardinality({t \in S : f[t] = s})
    BY <2>1
  <2>3. IsFiniteSet({t \in S : f[t] = s})
    BY FS_Subset
  <2>4. Cardinality({t \in S : f[t] = s}) \in Nat
    BY <2>3, FS_CardinalityType
  <2> QED BY <2>1, <2>2, <2>4
<1>4. \A s \in G : row(s) \in J /\ row(s).detail = s
  BY <1>1
<1> HIDE DEF J, row
<1>5. Counts(S, f, J, d, v)
  <2>1. v \in [J -> Nat]
    BY <1>3
  <2>2. ASSUME NEW x \in J, NEW y \in J, d[x] = d[y] PROVE x = y
    <3>1. x.detail = y.detail /\ x = row(x.detail) /\ y = row(y.detail)
      BY <1>3, <2>2
    <3> QED BY <3>1
  <2>3. \A x \in J : v[x] = Cardinality({t \in S : f[t] = d[x]})
    BY <1>3
  <2> HIDE DEF d, v
  <2> QED BY <1>2, <2>1, <2>2, <2>3 DEF Counts
<1>6. {t \in S : \E x \in J : f[t] = d[x]} = {t \in S : f[t] \in G}
  BY <1>3, <1>4
<1>7. Total(J) = SumFunction(v)
  BY DEF Total
<1> HIDE DEF v, d
<1>8. Total(J) = Cardinality({t \in S : f[t] \in G})
  BY <1>5, <1>6, <1>7, GroupsAddUp
<1> QED BY <1>2, <1>8 DEF J

LEMMA GroupsDiffer ==
    ASSUME NEW type, NEW S, NEW f, NEW G
    PROVE  /\ \A x \in Groups(type, S, f, G) : x.type = type
           /\ \A x, y \in Groups(type, S, f, G) : x.detail = y.detail => x = y
<1> DEFINE n(s) == Cardinality({t \in S : f[t] = s})
           row(s) == [type |-> type, detail |-> s, value |-> n(s)]
<1>1. Groups(type, S, f, G) = {row(s) : s \in G}
  BY DEF Groups
<1> HIDE DEF n
<1>2. \A s \in G : row(s).type = type /\ row(s).detail = s
  OBVIOUS
<1> HIDE DEF row
<1> QED BY <1>1, <1>2

LEMMA TotalOfOne ==
    ASSUME NEW x, x.value \in Nat
    PROVE  Total({x}) = x.value
<1> DEFINE v == [y \in {x} |-> y.value]
<1>1. v \in [{x} -> Nat] /\ v[x] = x.value
  OBVIOUS
<1>2. Total({x}) = SumFunction(v)
  BY DEF Total
<1> HIDE DEF v
<1> QED BY <1>1, <1>2, SumOfOne

\* The groups of the report.
StatusIn(rows) == [t \in rows |-> t.row.status]
AssigneeIn(rows) == [t \in Recent(rows) |-> t.row.assignee]

LEMMA StatsAreGroups ==
    ASSUME NEW rows, NEW leaders
    PROVE  /\ StatusStats(rows) =
                Groups("status_stats", rows, StatusIn(rows), {t.row.status : t \in rows})
           /\ TopAssignees(rows, leaders) =
                Groups("top3_assignees", Recent(rows), AssigneeIn(rows), leaders)
<1>1. ASSUME NEW s
      PROVE  {t \in rows : StatusIn(rows)[t] = s} = {t \in rows : t.row.status = s}
  BY DEF StatusIn
<1>2. ASSUME NEW as
      PROVE  {t \in Recent(rows) : AssigneeIn(rows)[t] = as} = {t \in Recent(rows) : t.row.assignee = as}
  BY DEF AssigneeIn
<1> QED BY <1>1, <1>2 DEF StatusStats, TopAssignees, Groups, Quantify, Load

LEMMA StatsDiffer ==
    ASSUME NEW rows, NEW leaders
    PROVE  /\ \A x \in StatusStats(rows) : x.type = "status_stats"
           /\ \A x, y \in StatusStats(rows) : x.detail = y.detail => x = y
           /\ \A x \in TopAssignees(rows, leaders) : x.type = "top3_assignees"
           /\ \A x, y \in TopAssignees(rows, leaders) : x.detail = y.detail => x = y
<1> DEFINE stats == Groups("status_stats", rows, StatusIn(rows), {t.row.status : t \in rows})
           top == Groups("top3_assignees", Recent(rows), AssigneeIn(rows), leaders)
<1>1. \A x \in stats : x.type = "status_stats"
  BY GroupsDiffer
<1>2. \A x, y \in stats : x.detail = y.detail => x = y
  BY GroupsDiffer
<1>3. \A x \in top : x.type = "top3_assignees"
  BY GroupsDiffer
<1>4. \A x, y \in top : x.detail = y.detail => x = y
  BY GroupsDiffer
<1>5. StatusStats(rows) = stats /\ TopAssignees(rows, leaders) = top
  BY StatsAreGroups
<1> HIDE DEF stats, top
<1> QED BY <1>1, <1>2, <1>3, <1>4, <1>5

LEMMA LeadersAreFew ==
    ASSUME NEW rows, SaneRows(rows), NEW leaders \in Leaders(rows)
    PROVE  /\ leaders \subseteq Users \cup {NoUser} /\ IsFiniteSet(leaders)
           /\ Cardinality(leaders) <= Top
<1> DEFINE groups == {t.row.assignee : t \in Recent(rows)}
           n == IF Cardinality(groups) < Top THEN Cardinality(groups) ELSE Top
<1>1. groups \subseteq Users \cup {NoUser}
  BY DEF Recent, SaneRows, Task
<1>2. IsFiniteSet(Users \cup {NoUser})
  BY ReportAssumption, FS_AddElement
<1>3. leaders \in SUBSET groups /\ Cardinality(leaders) = n
  BY DEF Leaders, kSubset
<1> HIDE DEF groups
<1>4. IsFiniteSet(groups) /\ Cardinality(groups) \in Nat
  BY <1>1, <1>2, FS_Subset, FS_CardinalityType
<1>5. IsFiniteSet(leaders)
  BY <1>3, <1>4, FS_Subset
<1>6. n <= Top
  BY <1>4, ReportAssumption
<1> QED BY <1>1, <1>3, <1>5, <1>6

LEMMA OneRow ==
    ASSUME NEW rows
    PROVE  /\ AvgCloseDays(rows) = {[type |-> "avg_close_days", detail |-> "all",
                 value |-> IF \E t \in rows : t.row.closed # "never" THEN 1 ELSE 0]}
           /\ TotalComments(rows) = {[type |-> "total_comments", detail |-> "",
                 value |-> SumFunction([t \in rows |-> t.row.comments])]}
           /\ \A x \in AvgCloseDays(rows) : x.type = "avg_close_days" /\ x.detail = "all"
           /\ \A x \in TotalComments(rows) : x.type = "total_comments" /\ x.detail = ""
           /\ \A x, y \in AvgCloseDays(rows) : x = y
           /\ \A x, y \in TotalComments(rows) : x = y
<1> DEFINE n == IF \E t \in rows : t.row.closed # "never" THEN 1 ELSE 0
           k == SumFunction([t \in rows |-> t.row.comments])
<1>1. AvgCloseDays(rows) = {[type |-> "avg_close_days", detail |-> "all", value |-> n]}
  BY DEF AvgCloseDays
<1>2. TotalComments(rows) = {[type |-> "total_comments", detail |-> "", value |-> k]}
  BY DEF TotalComments
<1> HIDE DEF n, k
<1>3. ASSUME NEW x \in AvgCloseDays(rows) PROVE x.type = "avg_close_days" /\ x.detail = "all"
  <2>1. x = [type |-> "avg_close_days", detail |-> "all", value |-> n]
    BY <1>1
  <2> QED BY ONLY <2>1
<1>4. ASSUME NEW x \in TotalComments(rows) PROVE x.type = "total_comments" /\ x.detail = ""
  <2>1. x = [type |-> "total_comments", detail |-> "", value |-> k]
    BY <1>2
  <2> QED BY ONLY <2>1
<1>5. \A x, y \in AvgCloseDays(rows) : x = y
  BY <1>1
<1>6. \A x, y \in TotalComments(rows) : x = y
  BY <1>2
<1> QED BY <1>1, <1>2, <1>3, <1>4, <1>5, <1>6 DEF n, k

\* The metrics of a report, by their types.
LEMMA MetricsByType ==
    ASSUME NEW rows, NEW leaders,
           NEW metrics, metrics = StatusStats(rows) \cup TopAssignees(rows, leaders)
                                    \cup AvgCloseDays(rows) \cup TotalComments(rows)
    PROVE  /\ {x \in metrics : x.type = "status_stats"} = StatusStats(rows)
           /\ {x \in metrics : x.type = "top3_assignees"} = TopAssignees(rows, leaders)
           /\ {x \in metrics : x.type = "avg_close_days"} = AvgCloseDays(rows)
           /\ {x \in metrics : x.type = "total_comments"} = TotalComments(rows)
<1>1. /\ \A x \in StatusStats(rows) : x.type = "status_stats"
      /\ \A x \in TopAssignees(rows, leaders) : x.type = "top3_assignees"
  BY StatsDiffer
<1>2. \A x \in AvgCloseDays(rows) : x.type = "avg_close_days"
  BY OneRow
<1>3. \A x \in TotalComments(rows) : x.type = "total_comments"
  BY OneRow
<1> QED BY <1>1, <1>2, <1>3

\* What ReportsAddUp says of one report.
AddUp(metrics) ==
    LET of(type) == {x \in metrics : x.type = type}
        closed == Total({x \in of("status_stats") : x.detail \in Closing})
        led == Total(of("top3_assignees"))
        average == Total(of("avg_close_days"))
    IN  /\ led <= closed
        /\ led > 0 => average > 0
        /\ average > 0 => closed > 0
        /\ Cardinality(of("top3_assignees")) <= Top
        /\ \A x, y \in metrics : x.type = y.type /\ x.detail = y.detail => x = y

LEMMA ReportAddsUp ==
    ASSUME NEW rows, SaneRows(rows), NEW leaders \in Leaders(rows),
           NEW metrics, metrics = StatusStats(rows) \cup TopAssignees(rows, leaders)
                                    \cup AvgCloseDays(rows) \cup TotalComments(rows)
    PROVE  AddUp(metrics)
<1> DEFINE of(type) == {x \in metrics : x.type = type}
           statuses == {t.row.status : t \in rows}
           f == StatusIn(rows)
           e == AssigneeIn(rows)
           done == {t \in rows : t.row.closed # "never"}
           ended == {t \in rows : t.row.status \in Closing}
<1>0. IsFiniteSet(rows) /\ \A t \in rows : t.row \in Task /\ (t.row.closed # "never" => t.row.status \in Closing)
  BY DEF SaneRows
<1>1. /\ of("status_stats") = Groups("status_stats", rows, f, statuses)
      /\ of("top3_assignees") = Groups("top3_assignees", Recent(rows), e, leaders)
      /\ of("avg_close_days") = AvgCloseDays(rows)
      /\ of("total_comments") = TotalComments(rows)
  <2>1. of("status_stats") = StatusStats(rows)
    BY MetricsByType
  <2>2. of("top3_assignees") = TopAssignees(rows, leaders)
    BY MetricsByType
  <2>3. of("avg_close_days") = AvgCloseDays(rows)
    BY MetricsByType
  <2>4. of("total_comments") = TotalComments(rows)
    BY MetricsByType
  <2> HIDE DEF of
  <2>5. StatusStats(rows) = Groups("status_stats", rows, f, statuses)
    BY StatsAreGroups
  <2>6. TopAssignees(rows, leaders) = Groups("top3_assignees", Recent(rows), e, leaders)
    BY StatsAreGroups
  <2> HIDE DEF f, e, statuses
  <2> QED BY <2>1, <2>2, <2>3, <2>4, <2>5, <2>6
<1>2. IsFiniteSet(Recent(rows)) /\ IsFiniteSet(done) /\ IsFiniteSet(ended)
      /\ Recent(rows) \subseteq done /\ done \subseteq ended
  <2>1. Recent(rows) \in SUBSET rows /\ done \in SUBSET rows /\ ended \in SUBSET rows
    BY DEF Recent
  <2>2. Recent(rows) \subseteq done
    BY DEF Recent
  <2>3. done \subseteq ended
    BY <1>0
  <2> QED BY <1>0, <2>1, <2>2, <2>3, FS_Subset
<1>3. Total(of("avg_close_days")) = IF done = {} THEN 0 ELSE 1
  <2> DEFINE n == IF \E t \in rows : t.row.closed # "never" THEN 1 ELSE 0
             row == [type |-> "avg_close_days", detail |-> "all", value |-> n]
  <2>1. of("avg_close_days") = {row}
    BY <1>1, OneRow
  <2>2. n = IF done = {} THEN 0 ELSE 1
    OBVIOUS
  <2> HIDE DEF n, done
  <2>3. row.value = n /\ row.value \in Nat
    BY <2>2
  <2> HIDE DEF row, of
  <2> QED BY <2>1, <2>2, <2>3, TotalOfOne
<1>4. /\ Total(of("top3_assignees")) \in Nat /\ Total(of("top3_assignees")) <= Cardinality(done)
      /\ Cardinality(of("top3_assignees")) <= Top
  <2> DEFINE theirs == {t \in Recent(rows) : e[t] \in leaders}
             J == Groups("top3_assignees", Recent(rows), e, leaders)
  <2>1. IsFiniteSet(leaders) /\ Cardinality(leaders) <= Top
    BY LeadersAreFew
  <2>2. IsFiniteSet(J) /\ Cardinality(J) <= Cardinality(leaders) /\ Total(J) = Cardinality(theirs)
    <3> HIDE DEF e
    <3>1. IsFiniteSet(Recent(rows))
      BY <1>2
    <3> QED BY <2>1, <3>1, GroupsTotal
  <2>3. Cardinality(theirs) \in Nat /\ Cardinality(theirs) <= Cardinality(done)
    <3>1. theirs \in SUBSET done
      BY <1>2
    <3> HIDE DEF theirs, done
    <3> QED BY <1>2, <3>1, FS_Subset, FS_CardinalityType
  <2>4. Cardinality(J) \in Nat /\ Cardinality(leaders) \in Nat /\ Top \in Nat
    BY <2>1, <2>2, FS_CardinalityType, ReportAssumption
  <2>5. of("top3_assignees") = J
    BY <1>1
  <2> HIDE DEF J, theirs, done, of
  <2>6. Cardinality(J) <= Top
    BY ONLY <2>1, <2>2, <2>4
  <2> QED BY ONLY <2>2, <2>3, <2>5, <2>6
<1>5. Total({x \in of("status_stats") : x.detail \in Closing}) = Cardinality(ended)
  <2> DEFINE G == statuses \cap Closing
  <2>1. {x \in of("status_stats") : x.detail \in Closing} = Groups("status_stats", rows, f, G)
    <3> HIDE DEF f, statuses, of
    <3> DEFINE row(s) == [type |-> "status_stats", detail |-> s, value |-> Cardinality({t \in rows : f[t] = s})]
    <3>1. of("status_stats") = {row(s) : s \in statuses} /\ Groups("status_stats", rows, f, G) = {row(s) : s \in G}
      BY <1>1 DEF Groups
    <3>2. \A s : row(s).detail = s
      OBVIOUS
    <3> HIDE DEF row
    <3> QED BY <3>1, <3>2
  <2>2. IsFiniteSet(G)
    <3>1. G \in SUBSET {"done", "cancelled"}
      BY DEF Closing
    <3>2. IsFiniteSet({"done", "cancelled"})
      <4>1. {"done", "cancelled"} = {"done"} \cup {"cancelled"}
        OBVIOUS
      <4>2. IsFiniteSet({"done"}) /\ IsFiniteSet({"cancelled"})
        BY FS_Singleton
      <4> HIDE DEF f, of, statuses, done, ended
      <4>3. IsFiniteSet({"done"} \cup {"cancelled"})
        BY <4>2, FS_Union
      <4> QED BY <4>1, <4>3
    <3> QED BY <3>1, <3>2, FS_Subset
  <2>3. Total(Groups("status_stats", rows, f, G)) = Cardinality({t \in rows : f[t] \in G})
    <3> HIDE DEF f, G
    <3> QED BY <1>0, <2>2, GroupsTotal
  <2>4. {t \in rows : f[t] \in G} = ended
    BY DEF StatusIn
  <2> QED BY <2>1, <2>3, <2>4
<1>6. /\ Cardinality(done) \in Nat /\ Cardinality(ended) \in Nat
      /\ Cardinality(done) <= Cardinality(ended)
      /\ done = {} <=> Cardinality(done) = 0
  BY <1>2, FS_Subset, FS_CardinalityType, FS_EmptySet
<1>7. ASSUME NEW x \in metrics, NEW y \in metrics, x.type = y.type, x.detail = y.detail
      PROVE  x = y
  <2>1. /\ \A z \in StatusStats(rows) : z.type = "status_stats"
        /\ \A z, o \in StatusStats(rows) : z.detail = o.detail => z = o
        /\ \A z \in TopAssignees(rows, leaders) : z.type = "top3_assignees"
        /\ \A z, o \in TopAssignees(rows, leaders) : z.detail = o.detail => z = o
    BY StatsDiffer
  <2>2. /\ \A z \in AvgCloseDays(rows) : z.type = "avg_close_days"
        /\ \A z, o \in AvgCloseDays(rows) : z = o
        /\ \A z \in TotalComments(rows) : z.type = "total_comments"
        /\ \A z, o \in TotalComments(rows) : z = o
    BY OneRow
  <2>3. CASE x \in StatusStats(rows)
    <3>1. y \in StatusStats(rows)
      BY <1>7, <2>1, <2>2, <2>3
    <3> QED BY <1>7, <2>1, <2>3, <3>1
  <2>4. CASE x \in TopAssignees(rows, leaders)
    <3>1. y \in TopAssignees(rows, leaders)
      BY <1>7, <2>1, <2>2, <2>4
    <3> QED BY <1>7, <2>1, <2>4, <3>1
  <2>5. CASE x \in AvgCloseDays(rows)
    <3>1. y \in AvgCloseDays(rows)
      BY <1>7, <2>1, <2>2, <2>5
    <3> QED BY <2>2, <2>5, <3>1
  <2>6. CASE x \in TotalComments(rows)
    <3>1. y \in TotalComments(rows)
      BY <1>7, <2>1, <2>2, <2>6
    <3> QED BY <2>2, <2>6, <3>1
  <2> QED BY <2>3, <2>4, <2>5, <2>6
<1> HIDE DEF done, ended
<1>8. LET led == Total(of("top3_assignees"))
          average == Total(of("avg_close_days"))
          closed == Total({x \in of("status_stats") : x.detail \in Closing})
      IN  /\ led <= closed
          /\ led > 0 => average > 0
          /\ average > 0 => closed > 0
  <2> HIDE DEF of
  <2> QED BY <1>3, <1>4, <1>5, <1>6
<1> QED BY <1>4, <1>7, <1>8 DEF AddUp
\* What is not refused by the scan is what the answer may hold.
LEMMA RowsAreMetrics ==
    ASSUME NEW rows, SaneRows(rows), NEW leaders \in Leaders(rows),
           NEW metrics, metrics = StatusStats(rows) \cup TopAssignees(rows, leaders)
                                    \cup AvgCloseDays(rows) \cup TotalComments(rows),
           ~ScanFails(metrics)
    PROVE  metrics \in SUBSET Metric
<1>0. IsFiniteSet(rows) /\ \A t \in rows : t.row \in Task
  BY DEF SaneRows
<1> DEFINE load(S, f, s) == Cardinality({t \in S : f[t] = s})
<1>1. \A S \in SUBSET rows : IsFiniteSet(S) /\ Cardinality(S) \in Nat
  BY <1>0, FS_Subset, FS_CardinalityType
<1>2. Recent(rows) \in SUBSET rows
  BY DEF Recent
<1>3. ASSUME NEW S \in SUBSET rows, NEW f, NEW s PROVE load(S, f, s) \in Nat
  <2>1. {t \in S : f[t] = s} \in SUBSET rows
    OBVIOUS
  <2> QED BY <1>1, <2>1
<1>4. ASSUME NEW x \in StatusStats(rows) PROVE x \in Metric
  <2>1. x \in Groups("status_stats", rows, StatusIn(rows), {t.row.status : t \in rows})
    BY StatsAreGroups
  <2>2. PICK s \in {t.row.status : t \in rows} :
          x = [type |-> "status_stats", detail |-> s, value |-> load(rows, StatusIn(rows), s)]
    BY <2>1 DEF Groups
  <2>3. s \in Status
    BY <1>0 DEF Task
  <2> HIDE DEF load
  <2>4. load(rows, StatusIn(rows), s) \in Nat
    BY <1>3
  <2> QED BY <2>2, <2>3, <2>4 DEF Metric
<1>5. ASSUME NEW x \in TopAssignees(rows, leaders) PROVE x \in Metric
  <2>1. x \in Groups("top3_assignees", Recent(rows), AssigneeIn(rows), leaders)
    BY StatsAreGroups
  <2>2. PICK s \in leaders :
          x = [type |-> "top3_assignees", detail |-> s, value |-> load(Recent(rows), AssigneeIn(rows), s)]
    BY <2>1 DEF Groups
  <2>3. load(Recent(rows), AssigneeIn(rows), s) \in Nat
    BY <1>2, <1>3
  <2> HIDE DEF load
  <2>4. x.detail = s /\ x \in metrics
    BY <2>2
  <2>5. s \in Users
    <3>1. s # NoUser
      BY <2>4 DEF ScanFails
    <3>2. leaders \subseteq Users \cup {NoUser}
      BY LeadersAreFew
    <3> QED BY <3>1, <3>2
  <2> QED BY <2>2, <2>3, <2>5 DEF Metric
<1>6. ASSUME NEW x \in AvgCloseDays(rows) PROVE x \in Metric
  <2> DEFINE n == IF \E t \in rows : t.row.closed # "never" THEN 1 ELSE 0
  <2>1. x = [type |-> "avg_close_days", detail |-> "all", value |-> n]
    BY OneRow
  <2>2. n \in Nat
    OBVIOUS
  <2> HIDE DEF n
  <2> QED BY <2>1, <2>2 DEF Metric
<1>7. ASSUME NEW x \in TotalComments(rows) PROVE x \in Metric
  <2> DEFINE v == [t \in rows |-> t.row.comments]
             k == SumFunction(v)
  <2>1. x = [type |-> "total_comments", detail |-> "", value |-> k]
    BY OneRow
  <2>2. k \in Nat
    <3>1. v \in [rows -> Nat]
      BY <1>0 DEF Task
    <3> HIDE DEF v
    <3> QED BY <1>0, <3>1, SumRule
  <2> HIDE DEF k
  <2> QED BY <2>1, <2>2 DEF Metric
<1> QED BY <1>4, <1>5, <1>6, <1>7

\* The rows of some tasks.
RowsOf(S) == {[id |-> t, row |-> task[t]] : t \in S}

\* Every task is in one of the groups, and its comments in the sum.
LEMMA TasksAreCounted ==
    ASSUME NEW S, IsFiniteSet(S), SaneRows(RowsOf(S))
    PROVE  /\ Total(StatusStats(RowsOf(S))) = Cardinality(S)
           /\ Total(TotalComments(RowsOf(S))) = SumFunction([t \in S |-> task[t].comments])
<1> DEFINE rows == RowsOf(S)
           h == [t \in S |-> [id |-> t, row |-> task[t]]]
           v == [t \in S |-> task[t].comments]
           w == [t \in rows |-> t.row.comments]
<1>0. IsFiniteSet(rows) /\ \A t \in rows : t.row \in Task
  BY DEF SaneRows
<1>1. /\ h \in [S -> rows]
      /\ \A t \in S : h[t].id = t /\ h[t].row = task[t]
      /\ \A x, y \in S : h[x] = h[y] => x = y
      /\ \A t \in rows : \E x \in S : h[x] = t
  <2>1. h \in [S -> rows] /\ \A t \in S : h[t].id = t /\ h[t].row = task[t]
    BY DEF RowsOf
  <2>2. \A x, y \in S : h[x] = h[y] => x = y
    <3> HIDE DEF h
    <3> QED BY <2>1
  <2>3. \A t \in rows : \E x \in S : h[x] = t
    BY DEF RowsOf
  <2> QED BY <2>1, <2>2, <2>3
<1> HIDE DEF rows, h
<1>2. Cardinality(rows) = Cardinality(S)
  <2>1. h \in Bijection(S, rows)
    BY <1>1 DEF Bijection, Injection, IsInjective, Surjection
  <2> QED BY <2>1, FS_Bijection DEF ExistsBijection
<1>3. Total(StatusStats(rows)) = Cardinality(rows)
  <2> DEFINE statuses == {t.row.status : t \in rows}
             f == StatusIn(rows)
  <2>1. IsFiniteSet(statuses)
    <3>1. statuses \in SUBSET {"todo", "in_progress", "done", "cancelled"}
      BY <1>0, ReportAssumption DEF Task
    <3>2. IsFiniteSet({"todo", "in_progress", "done", "cancelled"})
      <4>1. {"todo", "in_progress", "done", "cancelled"} =
              (({"todo"} \cup {"in_progress"}) \cup {"done"}) \cup {"cancelled"}
        OBVIOUS
      <4>2. IsFiniteSet({"todo"})
        BY FS_Singleton
      <4>3. IsFiniteSet({"todo"} \cup {"in_progress"})
        BY <4>2, FS_AddElement
      <4>4. IsFiniteSet(({"todo"} \cup {"in_progress"}) \cup {"done"})
        BY <4>3, FS_AddElement
      <4>5. IsFiniteSet((({"todo"} \cup {"in_progress"}) \cup {"done"}) \cup {"cancelled"})
        BY <4>4, FS_AddElement
      <4> QED BY <4>1, <4>5
    <3> HIDE DEF statuses
    <3> QED BY <3>1, <3>2, FS_Subset
  <2>2. {t \in rows : f[t] \in statuses} = rows
    BY DEF StatusIn
  <2>3. StatusStats(rows) = Groups("status_stats", rows, f, statuses)
    BY StatsAreGroups
  <2> HIDE DEF f, statuses
  <2>4. Total(Groups("status_stats", rows, f, statuses)) = Cardinality({t \in rows : f[t] \in statuses})
    BY <1>0, <2>1, GroupsTotal
  <2> QED BY <2>2, <2>3, <2>4
<1>4. Total(TotalComments(rows)) = SumFunction(w)
  <2> DEFINE x == [type |-> "total_comments", detail |-> "", value |-> SumFunction(w)]
  <2>1. TotalComments(rows) = {x} /\ x.value = SumFunction(w)
    BY DEF TotalComments
  <2>2. w \in [rows -> Nat]
    BY <1>0 DEF Task
  <2> HIDE DEF w
  <2>3. SumFunction(w) \in Nat
    BY <1>0, <2>2, SumRule
  <2> HIDE DEF x
  <2> QED BY <2>1, <2>3, TotalOfOne
<1>5. SumFunction(v) = SumFunction(w)
  <2>1. w \in [rows -> Nat]
    BY <1>0 DEF Task
  <2>2. \A t \in S : h[t] \in rows /\ w[h[t]] = v[t]
    BY <1>1
  <2>3. v \in [S -> Nat]
    BY <1>0, <1>1 DEF Task
  <2> HIDE DEF v, w
  <2>4. Paired(S, rows, h, v, w)
    BY <1>0, <1>1, <2>1, <2>2, <2>3 DEF Paired
  <2> QED BY <2>4, SameSum
<1> QED BY <1>2, <1>3, <1>4, <1>5 DEF rows
-----------------------------------------------------------------------------
(* The tables and the reports.                                             *)

\* The tables keep their form, a team its one owner, and closed_at agrees with the
\* status: what the writers owe the readers.
TablesOK ==
    /\ role \in [Teams -> [Users -> Roles]]
    /\ task \in [TaskIds -> Task \cup {NoTask}]
    /\ \A t \in TaskIds : task[t] # NoTask /\ task[t].closed # "never" => task[t].status \in Closing

\* A team has nobody, or exactly one owner.
OneOwner(mem) ==
    \/ \A u \in Users : mem[u] = "none"
    \/ \E o \in Users : mem[o] = "owner" /\ \A u \in Users : mem[u] = "owner" => u = o

\* Nobody leaves a team or changes roles, no task leaves its team.
RolesStay(r1, r2) == \A m \in Teams, u \in Users : r1[m][u] # "none" => r2[m][u] = r1[m][u]
TasksStay(t1, t2) == \A t \in TaskIds : t1[t] # NoTask => t2[t] # NoTask /\ t2[t].team = t1[t].team

OwnersOK == \A m \in Teams : OneOwner(role[m])

\* What a step of a writer, or of nobody, does to the tables.
Written ==
    /\ TablesOK' /\ OwnersOK'
    /\ RolesStay(role, role') /\ TasksStay(task, task')

LEMMA FoundWrites == ASSUME TablesOK, OwnersOK, Found PROVE Written
<1> PICK m \in Teams, u \in Users :
       /\ \A o \in Users : role[m][o] = "none"
       /\ role' = [role EXCEPT ![m][u] = "owner"]
  BY DEF Found
<1>1. role' \in [Teams -> [Users -> Roles]]
  BY DEF TablesOK, Roles
<1>2. \A n \in Teams, o \in Users : role'[n][o] = IF n = m /\ o = u THEN "owner" ELSE role[n][o]
  BY DEF TablesOK
<1>3. TablesOK' /\ TasksStay(task, task')
  BY <1>1 DEF TablesOK, Found, TasksStay
<1>4. RolesStay(role, role')
  BY <1>2 DEF RolesStay
<1>5. ASSUME NEW n \in Teams PROVE OneOwner(role'[n])
  <2>1. CASE n = m
    BY <1>2, <2>1 DEF OneOwner
  <2>2. CASE n # m
    <3>1. role'[n] = role[n]
      BY <2>2 DEF TablesOK
    <3> QED BY <3>1 DEF OwnersOK
  <2> QED BY <2>1, <2>2
<1> QED BY <1>3, <1>4, <1>5 DEF Written, OwnersOK

LEMMA InviteWrites == ASSUME TablesOK, OwnersOK, Invite PROVE Written
<1> PICK m \in Teams, by \in Users, u \in Users, new \in {"admin", "member"} :
       /\ role[m][u] = "none"
       /\ role[m][by] = "owner" \/ (role[m][by] = "admin" /\ new = "member")
       /\ role' = [role EXCEPT ![m][u] = new]
  BY DEF Invite
<1>1. role' \in [Teams -> [Users -> Roles]]
  BY DEF TablesOK, Roles
<1>2. \A n \in Teams, o \in Users : role'[n][o] = IF n = m /\ o = u THEN new ELSE role[n][o]
  BY DEF TablesOK
<1>3. TablesOK' /\ TasksStay(task, task')
  BY <1>1 DEF TablesOK, Invite, TasksStay
<1>4. RolesStay(role, role')
  BY <1>2 DEF RolesStay
<1>5. ASSUME NEW n \in Teams PROVE OneOwner(role'[n])
  <2>1. CASE n = m
    <3>1. PICK o \in Users : role[m][o] = "owner" /\ \A v \in Users : role[m][v] = "owner" => v = o
      BY DEF OwnersOK, OneOwner
    <3>2. role'[m][o] = "owner" /\ \A v \in Users : role'[m][v] = "owner" => v = o
      BY <1>2, <3>1
    <3> QED BY <2>1, <3>2 DEF OneOwner
  <2>2. CASE n # m
    <3>1. role'[n] = role[n]
      BY <2>2 DEF TablesOK
    <3> QED BY <3>1 DEF OwnersOK
  <2> QED BY <2>1, <2>2
<1> QED BY <1>3, <1>4, <1>5 DEF Written, OwnersOK

\* A task's row written anew, by one of the statements.
LEMMA RowWrites ==
    ASSUME TablesOK, OwnersOK, UNCHANGED role,
           NEW t \in TaskIds, NEW row \in Task, task' = [task EXCEPT ![t] = row],
           row.closed # "never" => row.status \in Closing,
           task[t] # NoTask => row.team = task[t].team
    PROVE  Written
<1>1. \A o \in TaskIds : task'[o] = IF o = t THEN row ELSE task[o]
  BY DEF TablesOK
<1>2. task' \in [TaskIds -> Task \cup {NoTask}]
  BY DEF TablesOK
<1>3. TablesOK'
  BY <1>1, <1>2 DEF TablesOK
<1>4. TasksStay(task, task')
  BY <1>1, NoTaskAssumption DEF TasksStay
<1>5. OwnersOK' /\ RolesStay(role, role')
  BY DEF OwnersOK, RolesStay
<1> QED BY <1>3, <1>4, <1>5 DEF Written

LEMMA MembersAreUsers == \A m \in Teams : MembersOf(m) \subseteq Users
BY DEF MembersOf

LEMMA PublishWrites == ASSUME TablesOK, OwnersOK, Publish PROVE Written
<1> PICK t \in TaskIds \ Committed, m \in Teams, s \in Status :
       \E as \in MembersOf(m) \cup {NoUser} : task' = [task EXCEPT ![t] =
         [team |-> m, assignee |-> as, status |-> s, closed |-> "never", comments |-> 0]]
  BY DEF Publish
<1> PICK as \in MembersOf(m) \cup {NoUser} :
       task' = [task EXCEPT ![t] =
         [team |-> m, assignee |-> as, status |-> s, closed |-> "never", comments |-> 0]]
  OBVIOUS
<1> DEFINE row == [team |-> m, assignee |-> as, status |-> s, closed |-> "never", comments |-> 0]
<1>1. row \in Task /\ row.closed = "never"
  BY MembersAreUsers DEF Task
<1>2. task[t] = NoTask
  BY DEF Committed
<1>3. UNCHANGED role
  BY DEF Publish
<1> HIDE DEF row
<1> QED BY <1>1, <1>2, <1>3, RowWrites DEF row

LEMMA MoveWrites == ASSUME TablesOK, OwnersOK, Move PROVE Written
<1> PICK t \in Committed, s \in Status : \E as \in MembersOf(task[t].team) \cup {NoUser} :
       task' = [task EXCEPT ![t].status = s, ![t].assignee = as, ![t].closed = ClosedAfter(task[t], s)]
  BY DEF Move
<1> PICK as \in MembersOf(task[t].team) \cup {NoUser} :
       task' = [task EXCEPT ![t].status = s, ![t].assignee = as, ![t].closed = ClosedAfter(task[t], s)]
  OBVIOUS
<1> DEFINE row == [task[t] EXCEPT !.status = s, !.assignee = as, !.closed = ClosedAfter(task[t], s)]
<1>1. t \in TaskIds /\ task[t] \in Task /\ task[t] # NoTask
  BY DEF Committed, TablesOK
<1>2. as \in Users \cup {NoUser}
  BY <1>1, MembersAreUsers DEF Task
<1>3. /\ ClosedAfter(task[t], s) \in {"never", "recent", "old"}
      /\ ClosedAfter(task[t], s) # "never" => s \in Closing
  BY <1>1 DEF ClosedAfter, Task, TablesOK
<1>4. /\ row \in Task /\ row.closed = ClosedAfter(task[t], s) /\ row.status = s
      /\ row.team = task[t].team
  BY <1>1, <1>2, <1>3 DEF Task
<1>5. task' = [task EXCEPT ![t] = row]
  BY <1>1 DEF TablesOK
<1>6. UNCHANGED role
  BY DEF Move
<1> HIDE DEF row
<1> QED BY <1>1, <1>3, <1>4, <1>5, <1>6, RowWrites

LEMMA CommentWrites == ASSUME TablesOK, OwnersOK, Comment PROVE Written
<1> PICK t \in Committed, n \in 1..MaxComments : task' = [task EXCEPT ![t].comments = @ + n]
  BY DEF Comment
<1> DEFINE row == [task[t] EXCEPT !.comments = @ + n]
<1>1. t \in TaskIds /\ task[t] \in Task /\ task[t] # NoTask
  BY DEF Committed, TablesOK
<1>2. /\ row \in Task /\ row.closed = task[t].closed /\ row.status = task[t].status
      /\ row.team = task[t].team
  BY <1>1, MaxCommentsAssumption DEF Task
<1>3. task' = [task EXCEPT ![t] = row]
  BY <1>1 DEF TablesOK
<1>4. row.closed # "never" => row.status \in Closing
  BY <1>1, <1>2 DEF TablesOK
<1>5. UNCHANGED role
  BY DEF Comment
<1> HIDE DEF row
<1> QED BY <1>1, <1>2, <1>3, <1>4, <1>5, RowWrites

LEMMA AgeWrites == ASSUME TablesOK, OwnersOK, Age PROVE Written
<1> PICK t \in Committed : task[t].closed = "recent" /\ task' = [task EXCEPT ![t].closed = "old"]
  BY DEF Age
<1> DEFINE row == [task[t] EXCEPT !.closed = "old"]
<1>1. t \in TaskIds /\ task[t] \in Task /\ task[t] # NoTask
  BY DEF Committed, TablesOK
<1>2. /\ row \in Task /\ row.status = task[t].status /\ row.team = task[t].team
  BY <1>1 DEF Task
<1>3. task' = [task EXCEPT ![t] = row]
  BY <1>1 DEF TablesOK
<1>4. row.status \in Closing
  BY <1>1, <1>2 DEF TablesOK
<1>5. UNCHANGED role
  BY DEF Age
<1> HIDE DEF row
<1> QED BY <1>1, <1>2, <1>3, <1>4, <1>5, RowWrites

LEMMA NothingWritten == ASSUME TablesOK, OwnersOK, UNCHANGED <<role, task>> PROVE Written
BY DEF Written, TablesOK, OwnersOK, RolesStay, TasksStay
TeamTasks(m) == {t \in TaskIds : task[t] # NoTask /\ task[t].team = m}

\* What the tables owe the report.
LEMMA TasksAreSane ==
    ASSUME TablesOK, NEW m
    PROVE  /\ IsFiniteSet(TeamTasks(m))
           /\ TasksOf(m) = RowsOf(TeamTasks(m))
           /\ SaneRows(TasksOf(m))
<1> DEFINE S == TeamTasks(m)
           rows == RowsOf(S)
           h == [t \in S |-> [id |-> t, row |-> task[t]]]
<1>1. S \in SUBSET TaskIds
  BY DEF TeamTasks
<1>2. IsFiniteSet(S)
  <2> HIDE DEF S
  <2> QED BY <1>1, ReportAssumption, FS_Subset
<1>3. TasksOf(m) = rows
  <2>1. {o \in Committed : task[o].team = m} = S
    BY DEF Committed, TeamTasks
  <2> HIDE DEF S
  <2> QED BY <2>1 DEF TasksOf, RowsOf
<1>4. IsFiniteSet(rows)
  <2> HIDE DEF S
  <2>1. h \in Surjection(S, rows)
    BY DEF Surjection, RowsOf
  <2> HIDE DEF h, rows
  <2> QED BY <1>2, <2>1, FS_Surjection
<1>5. ASSUME NEW x \in rows PROVE x.row \in Task /\ (x.row.closed # "never" => x.row.status \in Closing)
  <2>1. PICK t \in S : x = [id |-> t, row |-> task[t]]
    BY DEF RowsOf
  <2>2. t \in TaskIds /\ task[t] # NoTask /\ x.row = task[t]
    BY <2>1 DEF TeamTasks
  <2> QED BY <2>2 DEF TablesOK
<1>6. SaneRows(rows)
  <2> HIDE DEF rows
  <2> QED BY <1>4, <1>5 DEF SaneRows
<1> QED BY <1>2, <1>3, <1>6

ReportOK(x) ==
    /\ x \in Reporting
    /\ x.pc = "idle" => x.code = "none"
    /\ x.code = "ok" => AddUp(x.metrics)

\* What ReportsShowTheTeam says of one report, on team m.
Shown(m, x) ==
    LET rows == TeamTasks(m)
        of(type) == {y \in x.metrics : y.type = type}
    IN  /\ role[m][x.user] \in {"owner", "admin"}
        /\ Total(of("status_stats")) = Cardinality(rows)
        /\ Total(of("total_comments")) = SumFunction([t \in rows |-> task[t].comments])

\* Without access the groups of the report are empty, and without rows.
LEMMA NobodySeesNothing ==
    ASSUME NEW leaders \in Leaders({})
    PROVE  StatusStats({}) = {} /\ TopAssignees({}, leaders) = {}
<1>1. Recent({}) = {}
  BY DEF Recent
<1>2. leaders = {}
  BY <1>1 DEF Leaders, kSubset
<1> QED BY <1>2 DEF StatusStats, TopAssignees

LEMMA GenReportStep ==
    ASSUME TablesOK, NEW r \in Reporters, report \in [Reporters -> Reporting],
           ReportOK(report[r]), GenReport(r)
    PROVE  \E y \in Reporting : /\ report' = [report EXCEPT ![r] = y]
                                /\ ReportOK(y)
                                /\ y.code = "ok" => Shown(report[r].team, y)
<1> DEFINE m == report[r].team
           rows == TasksOf(m)
<1>0. PICK u \in Users, token \in BOOLEAN :
       \E leaders \in Leaders(Accessible(role[m], u, rows)) :
         LET a == IF token THEN Answer(Rows(role[m], u, rows, leaders))
                  ELSE [code |-> "forbidden", metrics |-> {}]
         IN  report' = [report EXCEPT ![r].pc = "done", ![r].user = u,
                                      ![r].code = a.code, ![r].metrics = a.metrics]
  BY DEF GenReport
<1>1. PICK leaders \in Leaders(Accessible(role[m], u, rows)) :
         LET a == IF token THEN Answer(Rows(role[m], u, rows, leaders))
                  ELSE [code |-> "forbidden", metrics |-> {}]
         IN  report' = [report EXCEPT ![r].pc = "done", ![r].user = u,
                                      ![r].code = a.code, ![r].metrics = a.metrics]
  BY <1>0
<1> DEFINE all == StatusStats(rows) \cup TopAssignees(rows, leaders)
                    \cup AvgCloseDays(rows) \cup TotalComments(rows)
           a == IF token THEN Answer(Rows(role[m], u, rows, leaders))
                ELSE [code |-> "forbidden", metrics |-> {}]
           y == [report[r] EXCEPT !.pc = "done", !.user = u, !.code = a.code, !.metrics = a.metrics]
<1>2. report[r] \in Reporting /\ m \in Teams
  BY DEF Reporting
<1>3. SaneRows(rows)
  BY TasksAreSane
<1>4. \/ a = [code |-> "forbidden", metrics |-> {}]
      \/ a = [code |-> "error", metrics |-> {}]
      \/ /\ Access(role[m], u) /\ leaders \in Leaders(rows)
         /\ ~ScanFails(all) /\ a = [code |-> "ok", metrics |-> all]
  <2> HIDE DEF rows, m
  <2>1. CASE ~token
    BY <2>1
  <2>2. CASE token /\ Access(role[m], u)
    <3>1. Rows(role[m], u, rows, leaders) = all /\ leaders \in Leaders(rows)
      BY <1>1, <2>2 DEF Rows, Accessible
    <3> HIDE DEF all
    <3> QED BY <2>2, <3>1 DEF Answer
  <2>3. CASE token /\ ~Access(role[m], u)
    <3>1. Rows(role[m], u, rows, leaders) = {}
      BY <1>1, <2>3, NobodySeesNothing DEF Rows, Accessible
    <3> QED BY <2>3, <3>1 DEF Answer
  <2> QED BY <2>1, <2>2, <2>3
<1>5. report' = [report EXCEPT ![r] = y]
  <2> HIDE DEF a, m, rows
  <2>1. report' = [report EXCEPT ![r].pc = "done", ![r].user = u, ![r].code = a.code, ![r].metrics = a.metrics]
    BY <1>1 DEF a
  <2> QED BY <2>1
<1> HIDE DEF a, all
<1>6. y.pc = "done" /\ y.user = u /\ y.team = m /\ y.code = a.code /\ y.metrics = a.metrics
  BY <1>2 DEF Reporting
<1>7. y \in Reporting /\ (y.code = "ok" => a.metrics = all /\ leaders \in Leaders(rows) /\ Access(role[m], u))
  <2>1. CASE a = [code |-> "forbidden", metrics |-> {}]
    <3>1. a.code = "forbidden" /\ a.metrics = {}
      BY <2>1
    <3> QED BY <1>2, <3>1 DEF Reporting
  <2>2. CASE a = [code |-> "error", metrics |-> {}]
    <3>1. a.code = "error" /\ a.metrics = {}
      BY <2>2
    <3> QED BY <1>2, <3>1 DEF Reporting
  <2>3. CASE /\ Access(role[m], u) /\ leaders \in Leaders(rows)
             /\ ~ScanFails(all) /\ a = [code |-> "ok", metrics |-> all]
    <3>1. a.code = "ok" /\ a.metrics = all
      BY <2>3
    <3>2. all \in SUBSET Metric
      <4> HIDE DEF rows
      <4> QED BY <1>3, <2>3, RowsAreMetrics DEF all
    <3> QED BY <1>2, <2>3, <3>1, <3>2 DEF Reporting
  <2> QED BY <1>4, <2>1, <2>2, <2>3
<1>8. leaders \in Leaders(rows) => AddUp(all)
  <2> HIDE DEF rows
  <2> QED BY <1>3, ReportAddsUp DEF all
<1>9. ReportOK(y)
  <2> HIDE DEF y
  <2> QED BY <1>6, <1>7, <1>8 DEF ReportOK
<1>10. ASSUME y.code = "ok" PROVE Shown(m, y)
  <2>1. y.metrics = all /\ role[m][u] \in {"owner", "admin"}
    BY <1>6, <1>7, <1>10 DEF Access
  <2>2. IsFiniteSet(TeamTasks(m)) /\ rows = RowsOf(TeamTasks(m)) /\ SaneRows(RowsOf(TeamTasks(m)))
    BY TasksAreSane
  <2>3. /\ Total(StatusStats(rows)) = Cardinality(TeamTasks(m))
        /\ Total(TotalComments(rows)) = SumFunction([t \in TeamTasks(m) |-> task[t].comments])
    <3> HIDE DEF rows, m
    <3> QED BY <2>2, TasksAreCounted
  <2>4. /\ {x \in all : x.type = "status_stats"} = StatusStats(rows)
        /\ {x \in all : x.type = "total_comments"} = TotalComments(rows)
    <3> HIDE DEF rows
    <3>1. all = StatusStats(rows) \cup TopAssignees(rows, leaders)
                  \cup AvgCloseDays(rows) \cup TotalComments(rows)
      BY DEF all
    <3> QED BY <3>1, MetricsByType
  <2> HIDE DEF rows, m, y
  <2> QED BY <1>6, <2>1, <2>3, <2>4 DEF Shown
<1> QED BY <1>5, <1>7, <1>9, <1>10
-----------------------------------------------------------------------------
(* The list.                                                               *)

\* The teams found are the caller's, in the order of their ids.
IdsFound(x) ==
    /\ \A i, k \in 1..Len(x.ids) : i < k => x.ids[i] < x.ids[k]
    /\ x.pc = "teams" => x.user \in Users
    /\ \A m \in ToSet(x.ids) : x.user \in Users /\ role[m][x.user] # "none"

\* Rows are only fetched once there are ids to fetch them for.
NothingFound(x) ==
    x.ids = <<>> /\ x.fetchedMembers = {} /\ x.fetchedTasks = {}
        /\ x.members = Nothing /\ x.tasks = Nothing

MembersFound(x) ==
    /\ \A r \in x.fetchedMembers : r.team \in ToSet(x.ids)
    /\ \A m \in Teams :
         LET mine == {r \in x.fetchedMembers : r.team = m}
         IN  ToSet(x.members[m]) = mine /\ Len(x.members[m]) = Cardinality(mine)

TasksFound(x) ==
    /\ \A t \in x.fetchedTasks : task[t] # NoTask /\ task[t].team \in ToSet(x.ids)
    /\ \A m \in Teams :
         LET mine == {t \in x.fetchedTasks : task[t].team = m}
         IN  ToSet(x.tasks[m]) = mine /\ Len(x.tasks[m]) = Cardinality(mine)

\* The caller and the one owner are among the rows of each team.
CallerFound(x) ==
    \A m \in ToSet(x.ids) :
        /\ \E r \in x.fetchedMembers : r.team = m /\ r.user = x.user
        /\ Cardinality({r \in x.fetchedMembers : r.team = m /\ r.role = "owner"}) = 1

ListOK(x) ==
    /\ x \in List /\ IdsFound(x) /\ MembersFound(x) /\ TasksFound(x)
    /\ x.pc \in {"idle", "teams"} => NothingFound(x)
    /\ x.withMembers /\ (x.pc = "tasks" \/ x.code = "ok") => CallerFound(x)
    /\ x.code = "ok" => x.pc = "done"

\* What a list has found stays true whatever the writers do.
LEMMA ListStays ==
    ASSUME NEW x, ListOK(x), RolesStay(role, role'), TasksStay(task, task')
    PROVE  ListOK(x)'
<1>0. /\ x \in List /\ IdsFound(x) /\ MembersFound(x) /\ TasksFound(x)
      /\ x.pc \in {"idle", "teams"} => NothingFound(x)
      /\ x.withMembers /\ (x.pc = "tasks" \/ x.code = "ok") => CallerFound(x)
      /\ x.code = "ok" => x.pc = "done"
  BY DEF ListOK
<1>1. ToSet(x.ids) \subseteq Teams
  BY <1>0 DEF List, ToSet
<1>2. IdsFound(x)'
  BY <1>0, <1>1 DEF IdsFound, RolesStay
<1>3. \A t \in x.fetchedTasks : t \in TaskIds /\ task[t] # NoTask
                                 /\ task'[t] # NoTask /\ task'[t].team = task[t].team
  BY <1>0 DEF TasksFound, List, TasksStay
<1>4. \A m : {t \in x.fetchedTasks : task'[t].team = m} = {t \in x.fetchedTasks : task[t].team = m}
  BY <1>3
<1>5. TasksFound(x)'
  BY <1>0, <1>3, <1>4 DEF TasksFound
<1>6. MembersFound(x)' /\ (NothingFound(x) => NothingFound(x)') /\ (CallerFound(x) => CallerFound(x)')
  BY <1>0 DEF MembersFound, NothingFound, CallerFound
<1> QED BY <1>0, <1>2, <1>5, <1>6 DEF ListOK

LEMMA NothingIsFound ==
    ASSUME NEW x, x \in List, NothingFound(x)
    PROVE  MembersFound(x) /\ TasksFound(x) /\ CallerFound(x)
<1>1. ToSet(<<>>) = {} /\ Len(<<>>) = 0 /\ Cardinality({}) = 0
  BY FS_EmptySet DEF ToSet
<1>2. \A m \in Teams : x.members[m] = <<>> /\ x.tasks[m] = <<>>
  BY DEF NothingFound, Nothing
<1>3. x.ids = <<>> /\ x.fetchedMembers = {} /\ x.fetchedTasks = {}
  BY DEF NothingFound
<1>4. MembersFound(x)
  <2>1. \A m \in Teams : {r \in x.fetchedMembers : r.team = m} = {}
    BY <1>3
  <2> QED BY <1>1, <1>2, <1>3, <2>1 DEF MembersFound
<1>5. TasksFound(x)
  <2>1. \A m \in Teams : {t \in x.fetchedTasks : task[t].team = m} = {}
    BY <1>3
  <2> QED BY <1>1, <1>2, <1>3, <2>1 DEF TasksFound
<1>6. CallerFound(x)
  BY <1>1, <1>3 DEF CallerFound
<1> QED BY <1>4, <1>5, <1>6

\* Then goes on to the members before the tasks, and passes neither that was asked for.
LEMMA ThenGoesOn ==
    ASSUME NEW x \in List, NEW rest \in SUBSET {"members", "tasks"}, NEW y, y = Then(x, rest)
    PROVE  /\ y \in List
           /\ y.user = x.user /\ y.withMembers = x.withMembers /\ y.withTasks = x.withTasks
           /\ y.ids = x.ids /\ y.members = x.members /\ y.tasks = x.tasks
           /\ y.fetchedMembers = x.fetchedMembers /\ y.fetchedTasks = x.fetchedTasks
           /\ \/ y.pc = "done" /\ y.code = "ok"
              \/ y.pc \in {"members", "tasks"} /\ y.code = x.code
           /\ x.withMembers /\ "members" \in rest => y.pc = "members" \/ x.ids = <<>>
<1> DEFINE asked == rest \cap ((IF x.withMembers THEN {"members"} ELSE {})
                                 \cup (IF x.withTasks THEN {"tasks"} ELSE {}))
<1>1. CASE x.ids = <<>> \/ asked = {}
  <2>1. y = [x EXCEPT !.pc = "done", !.code = "ok"]
    BY <1>1 DEF Then
  <2>2. x.withMembers /\ "members" \in rest => x.ids = <<>>
    BY <1>1
  <2> HIDE DEF asked
  <2> QED BY <2>1, <2>2 DEF List
<1>2. CASE ~(x.ids = <<>> \/ asked = {})
  <2>1. y = [x EXCEPT !.pc = IF "members" \in asked THEN "members" ELSE "tasks"]
    BY <1>2 DEF Then
  <2>2. x.withMembers /\ "members" \in rest => "members" \in asked
    OBVIOUS
  <2> HIDE DEF asked
  <2> QED BY <2>1, <2>2 DEF List
<1> QED BY <1>1, <1>2

LEMMA TeamsInOrder ==
    ASSUME NEW u \in Users
    PROVE  LET ids == InOrder(TeamsOf(u))
           IN  /\ ids \in Seq(Teams) /\ ToSet(ids) = TeamsOf(u)
               /\ \A i, k \in 1..Len(ids) : i < k => ids[i] < ids[k]
<1> DEFINE S == TeamsOf(u)
           key == [m \in S |-> m]
           ids == OrderBy(S, key)
<1>1. S \in SUBSET Teams /\ Teams \in SUBSET Nat /\ IsFiniteSet(Teams)
  BY TeamIdsAssumption DEF TeamsOf
<1>2. IsFiniteSet(S)
  BY <1>1, FS_Subset
<1>3. key \in [S -> Nat] /\ \A m \in S : key[m] = m
  BY <1>1
<1>4. InOrder(S) = ids
  BY DEF InOrder
<1> HIDE DEF S, key
<1>5. Arranged(key, S, ids)
  BY <1>2, <1>3, OrderByArranges
<1> HIDE DEF ids
<1>6. /\ ids \in Seq(S)
      /\ \A x \in S : \E i \in 1..Len(ids) : ids[i] = x
      /\ \A i, j \in 1..Len(ids) : i < j => ids[i] # ids[j] /\ key[ids[i]] <= key[ids[j]]
  BY <1>5 DEF Arranged
<1>7. ids \in Seq(Teams)
  BY <1>1, <1>6, SeqMonotonic
<1>8. ToSet(ids) = S
  BY <1>6 DEF ToSet
<1>9. ASSUME NEW i \in 1..Len(ids), NEW k \in 1..Len(ids), i < k PROVE ids[i] < ids[k]
  <2>1. ids[i] \in S /\ ids[k] \in S
    BY <1>6
  <2>2. ids[i] # ids[k] /\ key[ids[i]] <= key[ids[k]]
    BY <1>6, <1>9
  <2>3. key[ids[i]] = ids[i] /\ key[ids[k]] = ids[k] /\ ids[i] \in Nat /\ ids[k] \in Nat
    BY <1>1, <1>3, <2>1
  <2> QED BY <2>2, <2>3
<1> QED BY <1>4, <1>7, <1>8, <1>9 DEF S
\* The members of the teams listed: each once, the owner among them.
LEMMA MembersFetched ==
    ASSUME TablesOK, OwnersOK, NEW ids \in Seq(Teams)
    PROVE  /\ MemberRows(ToSet(ids)) \in SUBSET Member
           /\ IsFiniteSet(MemberRows(ToSet(ids)))
           /\ \A r \in MemberRows(ToSet(ids)) : r.team \in ToSet(ids)
           /\ \A m \in ToSet(ids), u \in Users :
                role[m][u] # "none" =>
                  /\ \E r \in MemberRows(ToSet(ids)) : r.team = m /\ r.user = u
                  /\ Cardinality({r \in MemberRows(ToSet(ids)) : r.team = m /\ r.role = "owner"}) = 1
<1> DEFINE shown == ToSet(ids)
           row(m, u) == [team |-> m, user |-> u, role |-> role[m][u]]
           all == {row(m, u) : m \in shown, u \in Users}
           rows == MemberRows(shown)
<1>1. shown \in SUBSET Teams
  BY DEF ToSet
<1>2. ASSUME NEW m \in shown, NEW u \in Users
      PROVE  /\ row(m, u).team = m /\ row(m, u).user = u /\ row(m, u).role = role[m][u]
             /\ role[m][u] # "none" => row(m, u) \in rows
             /\ role[m][u] \in Roles
  <2>1. row(m, u) \in all
    OBVIOUS
  <2>2. role[m][u] # "none" =>
          row(m, u) \notin {[team |-> n, user |-> v, role |-> "none"] : n \in shown, v \in Users}
    <3>1. ASSUME NEW n \in shown, NEW v \in Users, row(m, u) = [team |-> n, user |-> v, role |-> "none"]
          PROVE  role[m][u] = "none"
      <4>1. row(m, u).role = [team |-> n, user |-> v, role |-> "none"].role
        BY <3>1
      <4> QED BY <4>1
    <3> HIDE DEF row
    <3> QED BY <3>1
  <2>3. role[m][u] \in Roles
    BY <1>1 DEF TablesOK
  <2>4. rows = all \ {[team |-> n, user |-> v, role |-> "none"] : n \in shown, v \in Users}
    BY DEF MemberRows
  <2>5. role[m][u] # "none" => row(m, u) \in rows
    <3> HIDE DEF row, all, rows
    <3> QED BY <2>1, <2>2, <2>4
  <2>6. row(m, u).team = m /\ row(m, u).user = u /\ row(m, u).role = role[m][u]
    OBVIOUS
  <2> QED BY <2>3, <2>5, <2>6
<1>3. ASSUME NEW r \in rows
      PROVE  \E m \in shown, u \in Users : r = row(m, u) /\ role[m][u] # "none"
  <2>1. r \in all /\ \A n \in shown, v \in Users : r # [team |-> n, user |-> v, role |-> "none"]
    BY DEF MemberRows
  <2>2. PICK m \in shown, u \in Users : r = row(m, u)
    BY <2>1
  <2> QED BY <2>1, <2>2
<1>4. ASSUME NEW r \in rows PROVE r \in Member /\ r.team \in shown
  <2>1. PICK m \in shown, u \in Users : r = row(m, u) /\ role[m][u] # "none"
    BY <1>3
  <2>2. role[m][u] \in Roles /\ m \in Teams
    BY <1>1, <1>2
  <2> QED BY <2>1, <2>2 DEF Member
<1>5. IsFiniteSet(rows)
  <2> DEFINE h == [at \in shown \X Users |-> row(at[1], at[2])]
  <2>1. IsFiniteSet(shown) /\ IsFiniteSet(Users)
    <3> HIDE DEF shown
    <3> QED BY <1>1, TeamIdsAssumption, ReportAssumption, FS_Subset
  <2>2. IsFiniteSet(shown \X Users)
    <3> HIDE DEF shown
    <3> QED BY <2>1, FS_Product
  <2>3. h \in Surjection(shown \X Users, all)
    <3> HIDE DEF shown
    <3>1. h \in [shown \X Users -> all]
      OBVIOUS
    <3>2. ASSUME NEW r \in all PROVE \E at \in shown \X Users : h[at] = r
      <4>1. PICK m \in shown, u \in Users : r = row(m, u)
        OBVIOUS
      <4>2. <<m, u>> \in shown \X Users /\ h[<<m, u>>] = r
        BY <4>1
      <4> QED BY <4>2
    <3> HIDE DEF h, all
    <3> QED BY <3>1, <3>2 DEF Surjection
  <2>4. rows \in SUBSET all
    BY DEF MemberRows
  <2> HIDE DEF h, all, shown, rows
  <2>5. IsFiniteSet(all)
    BY <2>2, <2>3, FS_Surjection
  <2> QED BY <2>4, <2>5, FS_Subset
<1>6. ASSUME NEW m \in shown, NEW u \in Users, role[m][u] # "none"
      PROVE  /\ \E r \in rows : r.team = m /\ r.user = u
             /\ Cardinality({r \in rows : r.team = m /\ r.role = "owner"}) = 1
  <2>1. PICK o \in Users : role[m][o] = "owner" /\ \A v \in Users : role[m][v] = "owner" => v = o
    BY <1>1, <1>6 DEF OwnersOK, OneOwner
  <2>2. {r \in rows : r.team = m /\ r.role = "owner"} = {row(m, o)}
    <3>1. row(m, o) \in rows /\ row(m, o).team = m /\ row(m, o).role = "owner"
      BY <1>2, <2>1
    <3>2. ASSUME NEW r \in rows, r.team = m, r.role = "owner" PROVE r = row(m, o)
      <4>1. PICK n \in shown, v \in Users : r = row(n, v)
        BY <1>3
      <4>2. n = m /\ role[n][v] = "owner"
        BY <1>2, <3>2, <4>1
      <4> QED BY <2>1, <4>1, <4>2
    <3> HIDE DEF rows, row
    <3> QED BY <3>1, <3>2
  <2>3. row(m, u) \in rows /\ row(m, u).team = m /\ row(m, u).user = u
    BY <1>2, <1>6
  <2> HIDE DEF rows, row
  <2> QED BY <2>2, <2>3, FS_Singleton
<1> HIDE DEF rows
<1> QED BY <1>4, <1>5, <1>6 DEF rows

\* Rows fetched for the teams listed, and each team with its own of them.
RowsFor(Q, ids, S, key) ==
    /\ ids \in Seq(Teams) /\ \A i, k \in 1..Len(ids) : i < k => ids[i] < ids[k]
    /\ IsFiniteSet(S) /\ S \subseteq Q
    /\ key \in [S -> Nat] /\ \A r \in S : key[r] \in ToSet(ids)

RowsOfTeams(Q, S, key, merged) ==
    /\ merged \in [Teams -> Seq(Q)]
    /\ \A m \in Teams :
         LET mine == {r \in S : key[r] = m}
         IN  ToSet(merged[m]) = mine /\ Len(merged[m]) = Cardinality(mine)

LEMMA RowsMerged ==
    ASSUME NEW Q, NEW ids, NEW S, NEW key, RowsFor(Q, ids, S, key),
           NEW rows, rows = OrderBy(S, key)
    PROVE  /\ rows \in Seq(S)
           /\ RowsOfTeams(Q, S, key, Collect(ids, KeysOf(rows, key), rows, Nothing))
<1>0. /\ ids \in Seq(Teams) /\ \A i, k \in 1..Len(ids) : i < k => ids[i] < ids[k]
      /\ IsFiniteSet(S) /\ S \subseteq Q
      /\ key \in [S -> Nat] /\ \A r \in S : key[r] \in ToSet(ids)
  BY DEF RowsFor
<1> DEFINE merged == Collect(ids, KeysOf(rows, key), rows, Nothing)
<1>1. Nothing \in [Teams -> Seq(Q)] /\ \A m \in Teams : Nothing[m] = <<>>
  BY EmptySeq DEF Nothing
<1>2. Fetched(Teams, Q, ids, S, key, Nothing)
  BY <1>0, <1>1, TeamIdsAssumption DEF Fetched
<1>3. GroupedBy(Teams, Q, ids, S, key, merged)
  BY <1>2, MergeGroups
<1>4. rows \in Seq(S)
  <2>1. Arranged(key, S, rows)
    BY <1>0, OrderByArranges
  <2> QED BY <2>1 DEF Arranged
<1> HIDE DEF merged
<1>5. ASSUME NEW m \in Teams
      PROVE  {r \in S : key[r] = m /\ m \in ToSet(ids)} = {r \in S : key[r] = m}
  BY <1>0
<1>6. /\ merged \in [Teams -> Seq(Q)]
      /\ \A m \in Teams :
           LET mine == {r \in S : key[r] = m /\ m \in ToSet(ids)}
           IN  ToSet(merged[m]) = mine /\ Len(merged[m]) = Cardinality(mine)
  BY <1>3 DEF GroupedBy
<1>7. RowsOfTeams(Q, S, key, merged)
  BY <1>5, <1>6 DEF RowsOfTeams
<1> QED BY <1>4, <1>7 DEF merged

\* Nothing found anew.
LEMMA SameMembers ==
    ASSUME NEW x, NEW y, y.ids = x.ids, y.members = x.members, y.fetchedMembers = x.fetchedMembers,
           MembersFound(x)
    PROVE  MembersFound(y)
BY DEF MembersFound

LEMMA SameTasks ==
    ASSUME NEW x, NEW y, y.ids = x.ids, y.tasks = x.tasks, y.fetchedTasks = x.fetchedTasks,
           TasksFound(x)
    PROVE  TasksFound(y)
BY DEF TasksFound

-----------------------------------------------------------------------------
(* The steps of a list: each goes to a state a list may be in.              *)

Goes(l) == \E y : ListOK(y) /\ list' = [list EXCEPT ![l] = y]

LEMMA ListStartGoes == ASSUME NEW l \in Listers, list \in [Listers -> List], ListOK(list[l]), ListStart(l)
                       PROVE  Goes(l)
<1>x. PICK x : x = list[l]
  OBVIOUS
<1>1. x \in List /\ x.pc = "idle" /\ NothingFound(x) /\ IdsFound(x) /\ x.code # "ok"
  BY <1>x DEF ListStart, ListOK
<1>2. CASE \E u \in Users, wm, wt \in BOOLEAN :
             list' = [list EXCEPT ![l].pc = "teams", ![l].user = u,
                                  ![l].withMembers = wm, ![l].withTasks = wt]
  <2>1. PICK u \in Users, wm \in BOOLEAN, wt \in BOOLEAN :
             list' = [list EXCEPT ![l].pc = "teams", ![l].user = u,
                                  ![l].withMembers = wm, ![l].withTasks = wt]
    BY <1>2
  <2> DEFINE y == [x EXCEPT !.pc = "teams", !.user = u, !.withMembers = wm, !.withTasks = wt]
  <2>2. list' = [list EXCEPT ![l] = y]
    BY <1>x, <2>1
  <2>3. /\ y \in List /\ y.pc = "teams" /\ y.user = u /\ y.ids = x.ids /\ y.code = x.code
        /\ y.members = x.members /\ y.tasks = x.tasks
        /\ y.fetchedMembers = x.fetchedMembers /\ y.fetchedTasks = x.fetchedTasks
    BY <1>1 DEF List
  <2> HIDE DEF y
  <2>4. NothingFound(y)
    BY <1>1, <2>3 DEF NothingFound
  <2>5. IdsFound(y)
    <3>1. y.ids = <<>> /\ ToSet(<<>>) = {} /\ Len(<<>>) = 0
      BY <2>4 DEF NothingFound, ToSet
    <3> QED BY <2>3, <3>1 DEF IdsFound
  <2>6. ListOK(y)
    BY <1>1, <2>3, <2>4, <2>5, NothingIsFound DEF ListOK
  <2> QED BY <2>2, <2>6 DEF Goes
<1>3. CASE list' = [list EXCEPT ![l].pc = "done", ![l].code = "bad_request"]
  <2> DEFINE y == [x EXCEPT !.pc = "done", !.code = "bad_request"]
  <2>1. list' = [list EXCEPT ![l] = y]
    BY <1>x, <1>3
  <2>2. /\ y \in List /\ y.pc = "done" /\ y.user = x.user /\ y.ids = x.ids /\ y.code = "bad_request"
        /\ y.members = x.members /\ y.tasks = x.tasks
        /\ y.fetchedMembers = x.fetchedMembers /\ y.fetchedTasks = x.fetchedTasks
    BY <1>1 DEF List
  <2> HIDE DEF y
  <2>3. NothingFound(y)
    BY <1>1, <2>2 DEF NothingFound
  <2>4. IdsFound(y)
    BY <1>1, <2>2 DEF IdsFound
  <2>5. ListOK(y)
    BY <2>2, <2>3, <2>4, NothingIsFound DEF ListOK
  <2> QED BY <2>1, <2>5 DEF Goes
<1> QED BY <1>2, <1>3 DEF ListStart

LEMMA ListFailsGoes == ASSUME NEW l \in Listers, list \in [Listers -> List], ListOK(list[l]), ListFails(l)
                       PROVE  Goes(l)
<1>x. PICK x : x = list[l]
  OBVIOUS
<1> DEFINE y == [x EXCEPT !.pc = "done", !.code = "error"]
<1>1. x \in List /\ IdsFound(x) /\ MembersFound(x) /\ TasksFound(x)
  BY <1>x DEF ListOK
<1>2. list' = [list EXCEPT ![l] = y]
  BY <1>x DEF ListFails
<1>3. /\ y \in List /\ y.pc = "done" /\ y.user = x.user /\ y.ids = x.ids /\ y.code = "error"
      /\ y.members = x.members /\ y.tasks = x.tasks
      /\ y.fetchedMembers = x.fetchedMembers /\ y.fetchedTasks = x.fetchedTasks
  BY <1>1 DEF List
<1> HIDE DEF y
<1>4. IdsFound(y) /\ MembersFound(y) /\ TasksFound(y)
  BY <1>1, <1>3 DEF IdsFound, MembersFound, TasksFound
<1> QED BY <1>2, <1>3, <1>4 DEF Goes, ListOK

LEMMA ListTeamsGoes ==
    ASSUME TablesOK, NEW l \in Listers, list \in [Listers -> List], ListOK(list[l]), ListTeams(l)
    PROVE  Goes(l)
<1>x. PICK x : x = list[l]
  OBVIOUS
<1>ids. PICK ids : ids = InOrder(TeamsOf(x.user))
  OBVIOUS
<1>1. x \in List /\ x.pc = "teams" /\ x.user \in Users /\ NothingFound(x) /\ x.code # "ok"
  BY <1>x DEF ListOK, ListTeams, IdsFound
<1>2. /\ ids \in Seq(Teams) /\ ToSet(ids) = TeamsOf(x.user)
      /\ \A i, k \in 1..Len(ids) : i < k => ids[i] < ids[k]
  BY <1>1, <1>ids, TeamsInOrder
<1>z. PICK z : z = [x EXCEPT !.ids = ids]
  OBVIOUS
<1>3. /\ z \in List /\ z.user = x.user /\ z.withMembers = x.withMembers /\ z.ids = ids /\ z.code = x.code
      /\ z.members = x.members /\ z.tasks = x.tasks
      /\ z.fetchedMembers = x.fetchedMembers /\ z.fetchedTasks = x.fetchedTasks
  BY <1>1, <1>2, <1>z DEF List
<1>y. PICK y : y = Then(z, {"members", "tasks"})
  OBVIOUS
<1>4. list' = [list EXCEPT ![l] = y]
  BY <1>x, <1>ids, <1>z, <1>y DEF ListTeams
<1>5. /\ y \in List /\ y.user = z.user /\ y.withMembers = z.withMembers /\ y.ids = z.ids
      /\ y.members = z.members /\ y.tasks = z.tasks
      /\ y.fetchedMembers = z.fetchedMembers /\ y.fetchedTasks = z.fetchedTasks
      /\ \/ y.pc = "done" /\ y.code = "ok"
         \/ y.pc \in {"members", "tasks"} /\ y.code = z.code
      /\ z.withMembers => y.pc = "members" \/ z.ids = <<>>
  BY <1>3, <1>y, ThenGoesOn
<1>6. IdsFound(y)
  BY <1>1, <1>2, <1>3, <1>5 DEF IdsFound, TeamsOf
<1>7. MembersFound(y) /\ TasksFound(y)
  <2>1. MembersFound(x) /\ TasksFound(x) /\ x.fetchedMembers = {} /\ x.fetchedTasks = {}
    BY <1>1, NothingIsFound DEF NothingFound
  <2>2. /\ y.members = x.members /\ y.tasks = x.tasks
        /\ y.fetchedMembers = {} /\ y.fetchedTasks = {}
    BY <1>3, <1>5, <2>1
  <2> QED BY <2>1, <2>2 DEF MembersFound, TasksFound
<1>8. y.withMembers /\ (y.pc = "tasks" \/ y.code = "ok") => CallerFound(y)
  <2>1. y.withMembers /\ (y.pc = "tasks" \/ y.code = "ok") => y.ids = <<>>
    BY <1>1, <1>3, <1>5
  <2>2. ToSet(<<>>) = {}
    BY DEF ToSet
  <2> QED BY <2>1, <2>2 DEF CallerFound
<1> QED BY <1>1, <1>3, <1>4, <1>5, <1>6, <1>7, <1>8 DEF Goes, ListOK

LEMMA ListMembersGoes ==
    ASSUME TablesOK, OwnersOK, NEW l \in Listers, list \in [Listers -> List], ListOK(list[l]), ListMembers(l)
    PROVE  Goes(l)
<1>x. PICK x : x = list[l]
  OBVIOUS
<1>1. x \in List /\ x.pc = "members" /\ IdsFound(x) /\ TasksFound(x) /\ x.code # "ok"
  BY <1>x DEF ListOK, ListMembers
<1>found. PICK found : found = MemberRows(ToSet(x.ids))
  OBVIOUS
<1>key. PICK key : key = [r \in found |-> r.team]
  OBVIOUS
<1>rows. PICK rows : rows = OrderBy(found, key)
  OBVIOUS
<1>merged. PICK merged : merged = Collect(x.ids, KeysOf(rows, key), rows, Nothing)
  OBVIOUS
<1>2. x.ids \in Seq(Teams) /\ \A i, k \in 1..Len(x.ids) : i < k => x.ids[i] < x.ids[k]
  BY <1>1 DEF List, IdsFound
<1>3. /\ found \in SUBSET Member /\ IsFiniteSet(found)
      /\ \A r \in found : r.team \in ToSet(x.ids)
      /\ \A m \in ToSet(x.ids), u \in Users :
           role[m][u] # "none" =>
             /\ \E r \in found : r.team = m /\ r.user = u
             /\ Cardinality({r \in found : r.team = m /\ r.role = "owner"}) = 1
  BY <1>2, <1>found, MembersFetched
<1>4. key \in [found -> Nat] /\ \A r \in found : key[r] = r.team
  BY <1>3, <1>key, TeamIdsAssumption DEF Member
<1>5. /\ rows \in Seq(found) /\ merged \in [Teams -> Seq(Member)]
      /\ \A m \in Teams :
           LET mine == {r \in found : key[r] = m}
           IN  ToSet(merged[m]) = mine /\ Len(merged[m]) = Cardinality(mine)
  <2>1. RowsFor(Member, x.ids, found, key)
    BY <1>2, <1>3, <1>4 DEF RowsFor
  <2>2. rows \in Seq(found) /\ RowsOfTeams(Member, found, key, merged)
    BY <1>rows, <1>merged, <2>1, RowsMerged
  <2> QED BY <2>2 DEF RowsOfTeams
<1>6. [i \in DOMAIN rows |-> rows[i].team] = KeysOf(rows, key)
  <2>1. \A i \in DOMAIN rows : rows[i].team = key[rows[i]]
    BY <1>4, <1>5
  <2> QED BY <2>1 DEF KeysOf
<1>z. PICK z : z = [x EXCEPT !.members = merged, !.fetchedMembers = found]
  OBVIOUS
<1>7. /\ z \in List /\ z.user = x.user /\ z.withMembers = x.withMembers /\ z.ids = x.ids /\ z.code = x.code
      /\ z.members = merged /\ z.tasks = x.tasks
      /\ z.fetchedMembers = found /\ z.fetchedTasks = x.fetchedTasks
  BY <1>1, <1>3, <1>5, <1>z DEF List
<1>y. PICK y : y = Then(z, {"tasks"})
  OBVIOUS
<1>8. list' = [list EXCEPT ![l] = y]
  <2>1. list' = [list EXCEPT ![l] =
            Then([x EXCEPT !.members = Collect(x.ids, [i \in DOMAIN rows |-> rows[i].team], rows, Nothing),
                           !.fetchedMembers = found], {"tasks"})]
    BY <1>x, <1>found, <1>key, <1>rows DEF ListMembers
  <2> QED BY <1>6, <1>merged, <1>z, <1>y, <2>1
<1>9. /\ y \in List /\ y.user = z.user /\ y.withMembers = z.withMembers /\ y.ids = z.ids
      /\ y.members = z.members /\ y.tasks = z.tasks
      /\ y.fetchedMembers = z.fetchedMembers /\ y.fetchedTasks = z.fetchedTasks
      /\ \/ y.pc = "done" /\ y.code = "ok"
         \/ y.pc \in {"members", "tasks"} /\ y.code = z.code
  BY <1>7, <1>y, ThenGoesOn
<1>10. IdsFound(y) /\ TasksFound(y)
  BY <1>1, <1>7, <1>9, SameTasks DEF IdsFound
<1>11. MembersFound(y)
  <2>1. \A m \in Teams : {r \in found : key[r] = m} = {r \in found : r.team = m}
    BY <1>4
  <2>2. y.ids = x.ids /\ y.members = merged /\ y.fetchedMembers = found
    BY <1>7, <1>9
  <2> QED BY <1>3, <1>5, <2>1, <2>2 DEF MembersFound
<1>12. CallerFound(y)
  <2>1. \A m \in ToSet(x.ids) : x.user \in Users /\ role[m][x.user] # "none"
    BY <1>1 DEF IdsFound
  <2> QED BY <1>3, <1>7, <1>9, <2>1 DEF CallerFound
<1> QED BY <1>1, <1>7, <1>8, <1>9, <1>10, <1>11, <1>12 DEF Goes, ListOK

LEMMA ListTasksGoes ==
    ASSUME TablesOK, NEW l \in Listers, list \in [Listers -> List], ListOK(list[l]), ListTasks(l)
    PROVE  Goes(l)
<1>x. PICK x : x = list[l]
  OBVIOUS
<1>1. /\ x \in List /\ x.pc = "tasks" /\ IdsFound(x) /\ MembersFound(x) /\ x.code # "ok"
      /\ x.withMembers => CallerFound(x)
  BY <1>x DEF ListOK, ListTasks
<1>found. PICK found : found = {t \in Committed : task[t].team \in ToSet(x.ids)}
  OBVIOUS
<1>key. PICK key : key = [t \in found |-> task[t].team]
  OBVIOUS
<1>rows. PICK rows : rows = OrderBy(found, key)
  OBVIOUS
<1>merged. PICK merged : merged = Collect(x.ids, KeysOf(rows, key), rows, Nothing)
  OBVIOUS
<1>2. x.ids \in Seq(Teams) /\ \A i, k \in 1..Len(x.ids) : i < k => x.ids[i] < x.ids[k]
  BY <1>1 DEF List, IdsFound
<1>3. /\ found \in SUBSET TaskIds
      /\ \A t \in found : task[t] # NoTask /\ task[t].team \in ToSet(x.ids) /\ task[t].team \in Teams
  BY <1>found DEF Committed, TablesOK, Task
<1>4. IsFiniteSet(found) /\ key \in [found -> Nat] /\ \A t \in found : key[t] = task[t].team
  <2>1. IsFiniteSet(found)
    BY <1>3, ReportAssumption, FS_Subset
  <2> QED BY <1>3, <1>key, <2>1, TeamIdsAssumption
<1>5. /\ rows \in Seq(found) /\ merged \in [Teams -> Seq(TaskIds)]
      /\ \A m \in Teams :
           LET mine == {t \in found : key[t] = m}
           IN  ToSet(merged[m]) = mine /\ Len(merged[m]) = Cardinality(mine)
  <2>1. RowsFor(TaskIds, x.ids, found, key)
    BY <1>2, <1>3, <1>4 DEF RowsFor
  <2>2. rows \in Seq(found) /\ RowsOfTeams(TaskIds, found, key, merged)
    BY <1>rows, <1>merged, <2>1, RowsMerged
  <2> QED BY <2>2 DEF RowsOfTeams
<1>6. [i \in DOMAIN rows |-> task[rows[i]].team] = KeysOf(rows, key)
  <2>1. \A i \in DOMAIN rows : task[rows[i]].team = key[rows[i]]
    BY <1>4, <1>5
  <2> QED BY <2>1 DEF KeysOf
<1>z. PICK z : z = [x EXCEPT !.tasks = merged, !.fetchedTasks = found]
  OBVIOUS
<1>7. /\ z \in List /\ z.user = x.user /\ z.withMembers = x.withMembers /\ z.ids = x.ids /\ z.code = x.code
      /\ z.members = x.members /\ z.tasks = merged
      /\ z.fetchedMembers = x.fetchedMembers /\ z.fetchedTasks = found
  BY <1>1, <1>3, <1>5, <1>z DEF List
<1>y. PICK y : y = Then(z, {})
  OBVIOUS
<1>8. list' = [list EXCEPT ![l] = y]
  <2>1. list' = [list EXCEPT ![l] =
            Then([x EXCEPT !.tasks = Collect(x.ids, [i \in DOMAIN rows |-> task[rows[i]].team], rows, Nothing),
                           !.fetchedTasks = found], {})]
    BY <1>x, <1>found, <1>key, <1>rows DEF ListTasks
  <2> QED BY <1>6, <1>merged, <1>z, <1>y, <2>1
<1>9. /\ y \in List /\ y.user = z.user /\ y.withMembers = z.withMembers /\ y.ids = z.ids
      /\ y.members = z.members /\ y.tasks = z.tasks
      /\ y.fetchedMembers = z.fetchedMembers /\ y.fetchedTasks = z.fetchedTasks
      /\ \/ y.pc = "done" /\ y.code = "ok"
         \/ y.pc \in {"members", "tasks"} /\ y.code = z.code
  BY <1>7, <1>y, ThenGoesOn
<1>10. IdsFound(y) /\ MembersFound(y) /\ (x.withMembers => CallerFound(y))
  <2>1. /\ y.user = x.user /\ y.ids = x.ids /\ y.members = x.members
        /\ y.fetchedMembers = x.fetchedMembers /\ y.pc # "teams"
    BY <1>7, <1>9
  <2>2. IdsFound(y)
    BY <1>1, <2>1 DEF IdsFound
  <2>3. MembersFound(y)
    BY <1>1, <2>1, SameMembers
  <2>4. x.withMembers => CallerFound(y)
    BY <1>1, <2>1 DEF CallerFound
  <2> QED BY <2>2, <2>3, <2>4
<1>11. TasksFound(y)
  <2>1. \A m \in Teams : {t \in found : key[t] = m} = {t \in found : task[t].team = m}
    BY <1>4
  <2>2. y.ids = x.ids /\ y.tasks = merged /\ y.fetchedTasks = found
    BY <1>7, <1>9
  <2> QED BY <1>3, <1>5, <2>1, <2>2 DEF TasksFound
<1> QED BY <1>1, <1>7, <1>8, <1>9, <1>10, <1>11 DEF Goes, ListOK
-----------------------------------------------------------------------------
(* The specification.                                                      *)

\* The inductive invariant: the tables, and each request by what it has read so far.
TeamReadingInv ==
    /\ TablesOK /\ OwnersOK
    /\ list \in [Listers -> List] /\ \A l \in Listers : ListOK(list[l])
    /\ report \in [Reporters -> Reporting] /\ \A r \in Reporters : ReportOK(report[r])

LEMMA InitInv == Init => TeamReadingInv
<1> SUFFICES ASSUME Init PROVE TeamReadingInv
  OBVIOUS
<1>1. TablesOK /\ OwnersOK
  BY DEF Init, TablesOK, OwnersOK, OneOwner, Roles
<1>2. PICK here \in Scenarios :
        /\ list = [l \in Listers |-> [NewList EXCEPT !.pc = IF l \in here THEN "idle" ELSE "done"]]
        /\ report \in [Reporters -> {[pc |-> IF here \cap Reporters = {} THEN "done" ELSE "idle",
               user |-> NoUser, team |-> m, code |-> "none", metrics |-> {}] : m \in Teams}]
  BY DEF Init
<1>3. ASSUME NEW l \in Listers PROVE ListOK(list[l])
  <2>x. PICK x : x = list[l]
    OBVIOUS
  <2>1. x = [NewList EXCEPT !.pc = IF l \in here THEN "idle" ELSE "done"]
    BY <1>2, <2>x
  <2>2. Nothing \in [Teams -> Seq(Member)] /\ Nothing \in [Teams -> Seq(TaskIds)] /\ <<>> \in Seq(Teams)
    BY EmptySeq DEF Nothing
  <2>3. /\ x \in List /\ x.pc \in {"idle", "done"} /\ x.ids = <<>> /\ x.code = "none"
        /\ x.withMembers = FALSE
        /\ x.members = Nothing /\ x.tasks = Nothing
        /\ x.fetchedMembers = {} /\ x.fetchedTasks = {}
    BY <2>1, <2>2 DEF NewList, List
  <2>4. NothingFound(x)
    BY <2>3 DEF NothingFound
  <2>5. IdsFound(x)
    <3>1. ToSet(<<>>) = {} /\ Len(<<>>) = 0
      BY DEF ToSet
    <3> QED BY <2>3, <3>1 DEF IdsFound
  <2>6. ListOK(x)
    BY <2>3, <2>4, <2>5, NothingIsFound DEF ListOK
  <2> QED BY <2>x, <2>6
<1>4. ASSUME NEW r \in Reporters PROVE ReportOK(report[r])
  <2>x. PICK x : x = report[r]
    OBVIOUS
  <2>1. PICK m \in Teams : x = [pc |-> IF here \cap Reporters = {} THEN "done" ELSE "idle",
               user |-> NoUser, team |-> m, code |-> "none", metrics |-> {}]
    BY <1>2, <2>x
  <2>2. x \in Reporting /\ x.code = "none"
    BY <2>1 DEF Reporting
  <2>3. ReportOK(x)
    BY <2>2 DEF ReportOK
  <2> QED BY <2>x, <2>3
<1>5. list \in [Listers -> List]
  BY <1>2, <1>3 DEF ListOK
<1>6. report \in [Reporters -> Reporting]
  BY <1>2, <1>4 DEF ReportOK
<1> QED BY <1>1, <1>3, <1>4, <1>5, <1>6 DEF TeamReadingInv

\* A step that only writes to the tables leaves every request what it has read.
LEMMA WritersKeep ==
    ASSUME TeamReadingInv, Written, UNCHANGED <<list, report>>
    PROVE  TeamReadingInv'
<1>1. TablesOK' /\ OwnersOK' /\ RolesStay(role, role') /\ TasksStay(task, task')
  BY DEF Written
<1>2. ASSUME NEW l \in Listers PROVE ListOK(list[l])'
  <2>1. PICK x : x = list[l] /\ x = list'[l] /\ ListOK(x)
    BY DEF TeamReadingInv
  <2>2. ListOK(x)'
    BY <1>1, <2>1, ListStays
  <2> QED BY <2>1, <2>2 DEF ListOK, IdsFound, MembersFound, TasksFound, CallerFound, NothingFound
<1>3. ASSUME NEW r \in Reporters PROVE ReportOK(report[r])'
  <2>1. PICK x : x = report[r] /\ x = report'[r] /\ ReportOK(x)
    BY DEF TeamReadingInv
  <2> QED BY <2>1 DEF ReportOK
<1> QED BY <1>1, <1>2, <1>3 DEF TeamReadingInv

\* A step of a list leaves the tables and the others alone.
LEMMA ListsKeep ==
    ASSUME TeamReadingInv, NEW l \in Listers, Goes(l), UNCHANGED <<role, task, report>>
    PROVE  TeamReadingInv'
<1>1. PICK y : ListOK(y) /\ list' = [list EXCEPT ![l] = y]
  BY DEF Goes
<1>2. y \in List /\ list \in [Listers -> List]
  BY <1>1 DEF ListOK, TeamReadingInv
<1>3. TablesOK' /\ OwnersOK' /\ RolesStay(role, role') /\ TasksStay(task, task')
  BY NothingWritten DEF TeamReadingInv, Written
<1>4. ASSUME NEW k \in Listers PROVE ListOK(list[k])'
  <2>1. PICK x : x = list'[k] /\ ListOK(x)
    BY <1>1, <1>2 DEF TeamReadingInv
  <2>2. ListOK(x)'
    BY <1>3, <2>1, ListStays
  <2> QED BY <2>1, <2>2 DEF ListOK, IdsFound, MembersFound, TasksFound, CallerFound, NothingFound
<1>5. ASSUME NEW r \in Reporters PROVE ReportOK(report[r])'
  <2>1. PICK x : x = report[r] /\ x = report'[r] /\ ReportOK(x)
    BY DEF TeamReadingInv
  <2> QED BY <2>1 DEF ReportOK
<1>6. list' \in [Listers -> List] /\ report' \in [Reporters -> Reporting]
  BY <1>1, <1>2 DEF TeamReadingInv
<1> QED BY <1>3, <1>4, <1>5, <1>6 DEF TeamReadingInv

\* A report leaves the tables and the others alone.
LEMMA ReportsKeep ==
    ASSUME TeamReadingInv, NEW r \in Reporters, GenReport(r)
    PROVE  TeamReadingInv'
<1>1. PICK y \in Reporting : report' = [report EXCEPT ![r] = y] /\ ReportOK(y)
  BY GenReportStep DEF TeamReadingInv
<1>2. report \in [Reporters -> Reporting] /\ UNCHANGED <<role, task, list>>
  BY DEF TeamReadingInv, GenReport
<1>3. TablesOK' /\ OwnersOK' /\ RolesStay(role, role') /\ TasksStay(task, task')
  BY <1>2, NothingWritten DEF TeamReadingInv, Written
<1>4. ASSUME NEW k \in Reporters PROVE ReportOK(report[k])'
  <2>1. PICK x : x = report'[k] /\ ReportOK(x)
    BY <1>1, <1>2 DEF TeamReadingInv
  <2> QED BY <2>1 DEF ReportOK
<1>5. ASSUME NEW l \in Listers PROVE ListOK(list[l])'
  <2>1. PICK x : x = list'[l] /\ ListOK(x)
    BY <1>2 DEF TeamReadingInv
  <2>2. ListOK(x)'
    BY <1>3, <2>1, ListStays
  <2> QED BY <2>1, <2>2 DEF ListOK, IdsFound, MembersFound, TasksFound, CallerFound, NothingFound
<1>6. list' \in [Listers -> List] /\ report' \in [Reporters -> Reporting]
  BY <1>1, <1>2 DEF TeamReadingInv
<1> QED BY <1>3, <1>4, <1>5, <1>6 DEF TeamReadingInv

LEMMA NextKeeps == TeamReadingInv /\ [Next]_vars => TeamReadingInv'
<1> SUFFICES ASSUME TeamReadingInv, [Next]_vars PROVE TeamReadingInv'
  OBVIOUS
<1>0. TablesOK /\ OwnersOK /\ list \in [Listers -> List] /\ \A l \in Listers : ListOK(list[l])
  BY DEF TeamReadingInv
<1>1. CASE Found
  BY <1>0, <1>1, FoundWrites, WritersKeep DEF Found
<1>2. CASE Invite
  BY <1>0, <1>2, InviteWrites, WritersKeep DEF Invite
<1>3. CASE Publish
  BY <1>0, <1>3, PublishWrites, WritersKeep DEF Publish
<1>4. CASE Move
  BY <1>0, <1>4, MoveWrites, WritersKeep DEF Move
<1>5. CASE Comment
  BY <1>0, <1>5, CommentWrites, WritersKeep DEF Comment
<1>6. CASE Age
  BY <1>0, <1>6, AgeWrites, WritersKeep DEF Age
<1>7. ASSUME NEW l \in Listers, ListStart(l) PROVE TeamReadingInv'
  BY <1>0, <1>7, ListStartGoes, ListsKeep DEF ListStart
<1>8. ASSUME NEW l \in Listers, ListTeams(l) PROVE TeamReadingInv'
  BY <1>0, <1>8, ListTeamsGoes, ListsKeep DEF ListTeams
<1>9. ASSUME NEW l \in Listers, ListMembers(l) PROVE TeamReadingInv'
  BY <1>0, <1>9, ListMembersGoes, ListsKeep DEF ListMembers
<1>10. ASSUME NEW l \in Listers, ListTasks(l) PROVE TeamReadingInv'
  BY <1>0, <1>10, ListTasksGoes, ListsKeep DEF ListTasks
<1>11. ASSUME NEW l \in Listers, ListFails(l) PROVE TeamReadingInv'
  BY <1>0, <1>11, ListFailsGoes, ListsKeep DEF ListFails
<1>12. ASSUME NEW r \in Reporters, GenReport(r) PROVE TeamReadingInv'
  BY <1>12, ReportsKeep
<1>13. CASE UNCHANGED vars
  BY <1>0, <1>13, NothingWritten, WritersKeep DEF vars
<1> QED BY <1>1, <1>2, <1>3, <1>4, <1>5, <1>6, <1>7, <1>8, <1>9, <1>10, <1>11, <1>12, <1>13
        DEF Next, Quiet

LEMMA InvAlways == Spec => []TeamReadingInv
BY InitInv, NextKeeps, PTL DEF Spec

\* TeamReadingSafety!TypeOK: no request and no table leaves its form.
THEOREM TeamReadingIsTyped == Spec => []TypeOK
<1>1. TeamReadingInv => TypeOK
  BY DEF TeamReadingInv, TablesOK, TypeOK
<1> QED BY <1>1, InvAlways, PTL

\* collectMembers and collectTasks give each team the rows fetched for it, all and
\* no other's, however many teams, members and tasks there are.
THEOREM TeamsKeepTheirOwn == Spec => []TeamsAreGrouped
<1>1. TeamReadingInv => TeamsAreGrouped
  BY DEF TeamReadingInv, ListOK, MembersFound, TasksFound, TeamsAreGrouped
<1> QED BY <1>1, InvAlways, PTL

\* GET /teams shows its caller among the members of every team, and one owner,
\* though the teams and the members are read by different statements.
THEOREM CallersAreShown == Spec => []CallersSeeTheirTeams
<1>1. ASSUME TeamReadingInv, NEW l \in Listers, list[l].code = "ok"
      PROVE  /\ \A m \in ToSet(list[l].ids) : list[l].withMembers =>
                  /\ \E r \in ToSet(list[l].members[m]) : r.user = list[l].user
                  /\ Cardinality({r \in ToSet(list[l].members[m]) : r.role = "owner"}) = 1
             /\ \A m \in Teams \ ToSet(list[l].ids) : list[l].members[m] = <<>> /\ list[l].tasks[m] = <<>>
  <2>x. PICK x : x = list[l]
    OBVIOUS
  <2>1. x \in List /\ MembersFound(x) /\ TasksFound(x) /\ (x.withMembers => CallerFound(x))
    BY <1>1, <2>x DEF TeamReadingInv, ListOK
  <2>2. ASSUME NEW m \in ToSet(x.ids), x.withMembers
        PROVE  /\ \E r \in ToSet(x.members[m]) : r.user = x.user
               /\ Cardinality({r \in ToSet(x.members[m]) : r.role = "owner"}) = 1
    <3>1. m \in Teams
      BY <2>1 DEF List, ToSet
    <3>2. ToSet(x.members[m]) = {r \in x.fetchedMembers : r.team = m}
      BY <2>1, <3>1 DEF MembersFound
    <3>3. /\ \E r \in x.fetchedMembers : r.team = m /\ r.user = x.user
          /\ Cardinality({r \in x.fetchedMembers : r.team = m /\ r.role = "owner"}) = 1
      BY <2>1, <2>2 DEF CallerFound
    <3>4. {r \in ToSet(x.members[m]) : r.role = "owner"} =
            {r \in x.fetchedMembers : r.team = m /\ r.role = "owner"}
      BY <3>2
    <3> QED BY <3>2, <3>3, <3>4
  <2>3. ASSUME NEW m \in Teams \ ToSet(x.ids) PROVE x.members[m] = <<>> /\ x.tasks[m] = <<>>
    <3>1. {r \in x.fetchedMembers : r.team = m} = {} /\ {t \in x.fetchedTasks : task[t].team = m} = {}
      BY <2>1 DEF MembersFound, TasksFound
    <3>2. Len(x.members[m]) = 0 /\ Len(x.tasks[m]) = 0
      BY <2>1, <3>1, FS_EmptySet DEF MembersFound, TasksFound
    <3>3. x.members[m] \in Seq(Member) /\ x.tasks[m] \in Seq(TaskIds)
      BY <2>1 DEF List
    <3> QED BY <3>2, <3>3, EmptySeq
  <2> QED BY <2>x, <2>2, <2>3
<1>2. TeamReadingInv => CallersSeeTheirTeams
  BY <1>1 DEF CallersSeeTheirTeams
<1> QED BY <1>2, InvAlways, PTL

\* The metrics of a report agree with each other: GROUP BY, LIMIT and closed_at.
THEOREM MetricsAddUp == Spec => []ReportsAddUp
<1>1. TeamReadingInv => ReportsAddUp
  BY DEF TeamReadingInv, ReportOK, AddUp, ReportsAddUp, OfType
<1> QED BY <1>1, InvAlways, PTL

\* A report is shown to the owner or an admin of that moment, and counts the tasks
\* and the comments of the team, and nothing else.
THEOREM ReportsAreOfTheTeam == Spec => ReportsShowTheTeam
<1> DEFINE Show(r) == report[r].code = "none" /\ report'[r].code = "ok" =>
               LET m == report[r].team
                   rows == {t \in TaskIds : task[t] # NoTask /\ task[t].team = m}
                   of(type) == {x \in report'[r].metrics : x.type = type}
               IN  /\ role[m][report'[r].user] \in {"owner", "admin"}
                   /\ Total(of("status_stats")) = Cardinality(rows)
                   /\ Total(of("total_comments")) = SumFunction([t \in rows |-> task[t].comments])
<1>1. ASSUME TeamReadingInv, [Next]_vars, NEW r \in Reporters,
             report[r].code = "none", report'[r].code = "ok"
      PROVE  Shown(report[r].team, report'[r])
  <2>1. PICK k \in Reporters : GenReport(k)
    <3>1. report' # report
      BY <1>1
    <3> QED BY <1>1, <3>1 DEF Next, vars, Quiet, Found, Invite, Publish, Move, Comment, Age,
                              ListStart, ListTeams, ListMembers, ListTasks, ListFails
  <2>2. TablesOK /\ report \in [Reporters -> Reporting] /\ ReportOK(report[k])
    BY <1>1 DEF TeamReadingInv
  <2>3. PICK y \in Reporting : /\ report' = [report EXCEPT ![k] = y]
                               /\ y.code = "ok" => Shown(report[k].team, y)
    BY <2>1, <2>2, GenReportStep
  <2>4. r = k
    BY <1>1, <2>2, <2>3
  <2>5. report'[r] = y
    BY <2>2, <2>3, <2>4
  <2> QED BY <1>1, <2>3, <2>4, <2>5
<1>2. ASSUME TeamReadingInv, [Next]_vars, NEW r \in Reporters PROVE Show(r)
  BY <1>1, <1>2 DEF Shown, TeamTasks
<1>3. TeamReadingInv /\ [Next]_vars => [\A r \in Reporters : Show(r)]_vars
  BY <1>2
<1> QED BY <1>3, InvAlways, PTL DEF Spec, ReportsShowTheTeam
=============================================================================
