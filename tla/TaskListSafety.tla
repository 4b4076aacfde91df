--------------------------- MODULE TaskListSafety ----------------------------
(* What TaskListCache must guarantee, and what the documents say it does.  *)
EXTENDS TaskListCache

\* Every part of the state keeps its form.
TypeOK ==
    /\ db \in Nat
    /\ cache \in [Keys -> Entry \cup {NoEntry}]
    /\ ttl \in 0..TTL
    /\ flight \in [Replicas \X Keys -> Flight]
    /\ shared \in [Lists -> BOOLEAN]
    /\ list \in [Lists -> List]
    /\ write \in [Writes -> Write]

\* A hash that Redis keeps is one it will drop: an entry is never left without
\* a time to live, nor a time to live without an entry.
HashExpires == ttl = 0 <=> cache = EmptyHash

\* A cached list misses an acknowledged change for one of two reasons only: the
\* change's Del was lost, or the list was put after that Del by a flight that had
\* read the database before the commit.  In particular a Del that got through
\* reaches every field of the team, whichever replica put it.
StaleForKnownReasons ==
    \A k \in Keys, w \in Writes :
        \/ cache[k] = NoEntry \/ write[w].pc # "done"
        \/ cache[k].ver >= write[w].change
        \/ write[w].lost \/ w \in cache[k].over

\* What goes into Redis is the bare list: the comments and the history one
\* request of a flight asked for are never cached for the others.
CachedListsArePlain == \A k \in Keys : cache[k] # NoEntry => ~cache[k].extras

\* A flight belongs to a request of that replica and that field, one that waits
\* for it unless it has been cancelled: nobody waits for a flight that is gone,
\* and no flight is led from elsewhere.
NobodyIsForgotten ==
    /\ \A l \in Lists :
         list[l].pc = "wait" => flight[<<list[l].at, list[l].key>>].stage # "none"
    /\ \A f \in Replicas \X Keys :
         flight[f].stage # "none" =>
             LET l == flight[f].leader IN
             /\ l \in Lists
             /\ <<list[l].at, list[l].key>> = f
             /\ list[l].pc = "wait" \/ list[l].code = "cancelled"

\* api.go:156 documents with_comments as false by default, and yet a list may come
\* with comments nobody asked for in that request.  But somebody asked: another
\* request that holds the very slice, not one served before or elsewhere.
ExtrasWereAskedFor ==
    \A l \in Lists : list[l].code = "ok" /\ list[l].extras =>
        \E o \in Lists : list[o].with /\ list[o].ref = list[l].ref

\* Every list request that started is answered, whatever fails and however
\* many share its flight.
EveryListAnswered == \A l \in Lists : list[l].pc = "wait" ~> list[l].pc = "done"

\* With no more requests the hash disappears, the stale entries with it.
StaleEntriesGoAway == <>[](cache = EmptyHash)

-----------------------------------------------------------------------------
(* The inductive invariant.                                                *)

\* The slice a flight under way will hand out is nobody's yet.
SlicesAreFresh ==
    \A f \in Replicas \X Keys :
        flight[f].stage # "none" =>
            /\ ~shared[flight[f].leader]
            /\ \A l \in Lists : list[l].ref # flight[f].leader

\* Nor is there one of a request that has not begun.
IdleAreFresh ==
    \A l \in Lists : list[l].pc = "idle" => ~shared[l] /\ \A o \in Lists : list[o].ref # l

AnswersAreFinal == \A l \in Lists : list[l].code # "none" => list[l].pc = "done"

HashInv == HashExpires /\ StaleForKnownReasons /\ CachedListsArePlain

RequestInv ==
    /\ NobodyIsForgotten
    /\ SlicesAreFresh
    /\ IdleAreFresh
    /\ AnswersAreFinal

\* What keeps extras out of Redis and the shared slices apart: a flight's slice
\* is reached by its own requests only, and only after the flight is over.
IInv == TypeOK /\ HashInv /\ RequestInv

-----------------------------------------------------------------------------
(* What the documents and comments say.                                    *)

\* service.go:149-151: the request context is depersonalised, being common to the
\* group, and the flight is not interrupted when a request is cancelled.  No
\* request fails because another one was cancelled.
CancelHurtsNobodyElse == \A l \in Lists : list[l].code # "error"
=============================================================================
