------------------------------ MODULE Merging --------------------------------
(***************************************************************************)
(* The one-pass merges of the services: a list of tasks or teams, sorted   *)
(* by id, meets the rows of a second statement, sorted by the id they      *)
(* belong to.                                                              *)
(***************************************************************************)
EXTENDS Integers, Sequences, Folds

OrderBy_None(S, key) ==
    MapThenFoldSet(LAMBDA x, rest : <<x>> \o rest, <<>>, LAMBDA x : x, LAMBDA s : CHOOSE x \in s : TRUE, S)

\* ORDER BY key: of the rows that are left, one with the least key is next.
OrderBy(S, key) ==
    MapThenFoldSet(LAMBDA x, rest : <<x>> \o rest, <<>>,
                   LAMBDA x : x, LAMBDA s : CHOOSE x \in s : \A y \in s : key[x] <= key[y], S)

End_ToLast(keys, l) == Len(keys) + 1

\* The end of the run of rows with one key that begins at l.
End(keys, l) ==
    CHOOSE r \in (l + 1)..(Len(keys) + 1) :
        /\ \A j \in l..(r - 1) : keys[j] = keys[l]
        /\ r <= Len(keys) => keys[r] # keys[l]

\* From `none`, each of the ids gets its run of the rows, whose keys these are; `at`
\* moves over the ids and the rows.
Collect(ids, keys, rows, none) ==
    LET from[at \in (1..(Len(ids) + 1)) \X (1..(Len(rows) + 1))] ==
          LET i == at[1]
              l == at[2]
          IN  IF i > Len(ids) \/ l > Len(rows) THEN none
              ELSE IF ids[i] < keys[l] THEN from[<<i + 1, l>>]
              ELSE IF ids[i] > keys[l] THEN from[<<i, End(keys, l)>>]
              ELSE [from[<<i + 1, End(keys, l)>>] EXCEPT
                       ![ids[i]] = SubSeq(rows, l, End(keys, l) - 1)]
    IN  from[<<1, 1>>]
=============================================================================
