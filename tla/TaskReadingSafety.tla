------------------------- MODULE TaskReadingSafety ---------------------------
(* What comments and readers may rely on.                                  *)
EXTENDS TaskReading

\* Every part of the state keeps its form.
TypeOK ==
    /\ task \in [TaskIds -> Task \cup {NoTask}]
    /\ Committed \subseteq issued /\ issued \subseteq TaskIds
    /\ comment \subseteq Comment
    /\ lastComment \in Nat
    /\ adding \in [Adders -> Adding]
    /\ getting \in [Getters -> Getting]
    /\ walking \in [Walkers -> Walking]

\* The comment a 201 answers with is the one that was sent, whoever else comments
\* on the task at the same moment, and it is there for good.
AnsweredCommentIsStored ==
    \A a \in Adders : adding[a].code = "created" =>
        \E c \in comment :
            /\ adding[a].answer = {c}
            /\ c.task = adding[a].id /\ c.user = adding[a].user
            /\ c.id = adding[a].first

\* The history answered with a task explains its version: it is read after the
\* task, so it may be ahead of it but never behind.
HistoryCoversVersion ==
    \A g \in Getters :
        getting[g].code = "ok" /\ getting[g].extra = "history" =>
            getting[g].events >= getting[g].version - 1

\* A finished walk has met every task that was there when it began, each task
\* once and in order, although tasks whose ids it has passed may appear meanwhile.
WalksAreComplete ==
    \A w \in Walkers :
        LET x == walking[w] IN
        /\ x.code = "ok" => x.known \subseteq ToSet(x.seen)
        /\ \A i, j \in DOMAIN x.seen : i < j => x.seen[i] < x.seen[j]

\* The merge gives each task of the page the comments fetched for it, all of
\* them and no other's.
PagesAreGrouped ==
    \A w \in Walkers, t \in TaskIds :
        LET x == walking[w]
            mine == {c \in x.fetched : c.task = t}
        IN  x.pc \in {"list", "done"} =>
              ToSet(x.merged[t]) = mine /\ Len(x.merged[t]) = Cardinality(mine)

-----------------------------------------------------------------------------
\* README.md:119: comments are left by all who have the right to edit the task.
CommentsByEditors == \A c \in comment : c.entitled
=============================================================================
