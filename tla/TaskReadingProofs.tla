-------------------------- MODULE TaskReadingProofs --------------------------
(***************************************************************************)
(* Proofs about comments and readers, for any users, tasks and requests:   *)
(* the comment answered with is the one that was sent, the history         *)
(* answered with a task is not behind it, a walk through the pages misses   *)
(* nothing, and a page's comments are those of its tasks.                   *)
(***************************************************************************)
EXTENDS TaskReadingSafety, MergingProofs

-----------------------------------------------------------------------------
(* Comments.                                                               *)

Active(a) == adding[a].pc \in {"read", "commit"}

\* The row LastInsertId names: of this request, and nobody else's number.
Own(a) ==
    \E c \in adding[a].rows :
        /\ c.id = adding[a].first /\ c.task = adding[a].id /\ c.user = adding[a].user
        /\ \A d \in comment \cup adding[a].rows : d.id = c.id => d = c
        /\ \A b \in Adders \ {a} : Active(b) => \A d \in adding[b].rows : d.id # c.id
        /\ adding[a].pc = "commit" => adding[a].answer = {c}

\* What a 201 said is there for good.
Stored(a) ==
    \E c \in comment :
        /\ adding[a].answer = {c}
        /\ c.task = adding[a].id /\ c.user = adding[a].user /\ c.id = adding[a].first

Numbered(a) ==
    /\ Active(a) => Own(a) /\ \A c \in adding[a].rows : c.id \in Nat /\ c.id <= lastComment
    /\ adding[a].pc # "done" => adding[a].code # "created"
    /\ adding[a].code = "created" => Stored(a)

\* Numbers are given in order and never twice.
CommentInv ==
    /\ DOMAIN adding = Adders
    /\ lastComment \in Nat
    /\ \A c \in comment : c.id \in Nat /\ c.id <= lastComment
    /\ \A a \in Adders : Numbered(a)

LEMMA InitComments == Init => CommentInv
BY DEF Init, CommentInv, Numbered, Active

\* Requests that read, and tasks that change, leave the comments alone.
LEMMA SameComments ==
    CommentInv /\ UNCHANGED <<comment, lastComment, adding>> => CommentInv'
BY DEF CommentInv, Numbered, Active, Own, Stored

\* A request that quits, or does nothing, does not touch the others' rows.
LEMMA OwnStays ==
    ASSUME NEW a \in Adders, Own(a), adding'[a] = adding[a],
           \A d \in comment' : d \in comment \/ d.id # adding[a].first,
           \A b \in Adders \ {a} : Active(b)' => \A d \in adding'[b].rows : d.id # adding[a].first
    PROVE  Own(a)'
BY DEF Own

LEMMA StoredStays ==
    ASSUME NEW a \in Adders, Stored(a), adding'[a] = adding[a], comment \subseteq comment'
    PROVE  Stored(a)'
BY DEF Stored

\* The rows of the others, when a's are not more than they were.
LEMMA OthersNumbered ==
    ASSUME CommentInv, NEW a \in Adders, UNCHANGED <<comment, lastComment>>,
           \A b \in Adders \ {a} : adding'[b] = adding[b],
           Active(a)' => Active(a) /\ adding'[a].rows = adding[a].rows
    PROVE  \A b \in Adders \ {a} : Numbered(b)'
<1> SUFFICES ASSUME NEW b \in Adders \ {a}
             PROVE  Numbered(b)'
  OBVIOUS
<1>0. Numbered(b) /\ adding'[b] = adding[b]
  BY DEF CommentInv
<1>1. ASSUME Active(b)' PROVE Own(b)'
  <2>1. Active(b) /\ Own(b)
    BY <1>0, <1>1 DEF Active, Numbered
  <2>2. ASSUME NEW o \in Adders \ {b}, Active(o)'
        PROVE  \A d \in adding'[o].rows : d.id # adding[b].first
    BY <2>1, <2>2 DEF Own, Active
  <2> QED BY <1>0, <2>1, <2>2, OwnStays
<1>2. ASSUME adding'[b].code = "created" PROVE Stored(b)'
  BY <1>0, <1>2, StoredStays DEF Numbered
<1> QED BY <1>0, <1>1, <1>2 DEF Numbered, Active

\* A request that ends without a 201.
LEMMA QuitKeeps ==
    ASSUME CommentInv, NEW a \in Adders, NEW code \in {"forbidden", "error"},
           adding' = [adding EXCEPT ![a].pc = "done", ![a].code = code],
           UNCHANGED <<comment, lastComment>>
    PROVE  CommentInv'
<1>1. /\ \A b \in Adders \ {a} : adding'[b] = adding[b]
      /\ adding'[a] = [adding[a] EXCEPT !.pc = "done", !.code = code] /\ DOMAIN adding' = Adders
  BY DEF CommentInv
<1>2. ~Active(a)' /\ adding'[a].pc = "done" /\ adding'[a].code # "created"
  BY <1>1 DEF Active
<1>3. \A b \in Adders \ {a} : Numbered(b)'
  BY <1>1, <1>2, OthersNumbered
<1>4. Numbered(a)'
  BY <1>2 DEF Numbered
<1> QED BY <1>1, <1>3, <1>4 DEF CommentInv

LEMMA InsertKeeps ==
    ASSUME CommentInv, NEW a \in Adders, AddInsert(a)
    PROVE  CommentInv'
<1>1. PICK u \in Users, id \in TaskIds :
         LET n == Cardinality(Selected(u, id))
             row(i) == [id |-> lastComment + i, task |-> id, user |-> u,
                        entitled |-> id \in Committed /\ u \in task[id].editors]
         IN  IF n = 0 \/ id \notin Committed
             THEN /\ adding' = [adding EXCEPT ![a].pc = "done",
                                    ![a].code = IF n = 0 THEN "forbidden" ELSE "error"]
                  /\ UNCHANGED lastComment
             ELSE /\ adding' = [adding EXCEPT ![a].pc = "read", ![a].id = id, ![a].user = u,
                                    ![a].rows = {row(i) : i \in 1..n},
                                    ![a].first = lastComment + 1]
                  /\ lastComment' = lastComment + n
  BY DEF AddInsert
<1> DEFINE n == Cardinality(Selected(u, id))
           right == id \in Committed /\ u \in task[id].editors
           row(i) == [id |-> lastComment + i, task |-> id, user |-> u, entitled |-> right]
           rows == {row(i) : i \in 1..n}
<1>2. n \in Nat
  <2>1. IsFiniteSet(Selected(u, id))
    BY NumbersAssumption, FS_Subset DEF Selected, Committed
  <2> QED BY <2>1, FS_CardinalityType
<1>3. comment' = comment /\ adding[a].pc = "idle"
  BY DEF AddInsert
<1>4. CASE n = 0 \/ id \notin Committed
  <2>1. PICK code \in {"forbidden", "error"} :
          adding' = [adding EXCEPT ![a].pc = "done", ![a].code = code]
    BY <1>1, <1>4
  <2> QED BY <1>1, <1>3, <1>4, <2>1, QuitKeeps
<1>5. CASE ~(n = 0 \/ id \notin Committed)
  <2>1. /\ lastComment' = lastComment + n /\ n > 0
        /\ \A b \in Adders \ {a} : adding'[b] = adding[b]
        /\ DOMAIN adding' = Adders
        /\ adding'[a] = [adding[a] EXCEPT !.pc = "read", !.id = id, !.user = u,
                                         !.rows = rows, !.first = lastComment + 1]
    <3>1. /\ lastComment' = lastComment + n
          /\ adding' = [adding EXCEPT ![a].pc = "read", ![a].id = id, ![a].user = u,
                           ![a].rows = rows, ![a].first = lastComment + 1]
      BY <1>1, <1>5
    <3> HIDE DEF n, rows, row
    <3>2. n > 0
      BY <1>2, <1>5
    <3>3. DOMAIN adding = Adders
      BY DEF CommentInv
    <3>4. adding'[a] = [adding[a] EXCEPT !.pc = "read", !.id = id, !.user = u,
                                         !.rows = rows, !.first = lastComment + 1]
      BY <3>1, <3>3
    <3>5. DOMAIN adding' = Adders /\ \A b \in Adders \ {a} : adding'[b] = adding[b]
      BY <3>1, <3>3
    <3> QED BY <3>1, <3>2, <3>4, <3>5
  <2>2. /\ adding'[a].pc = "read" /\ adding'[a].id = id /\ adding'[a].user = u
        /\ adding'[a].rows = rows /\ adding'[a].first = lastComment + 1
        /\ adding'[a].code = adding[a].code
    <3> HIDE DEF rows
    <3> QED BY <2>1
  <2>3. lastComment \in Nat /\ lastComment' \in Nat /\ lastComment <= lastComment'
    BY <1>2, <2>1 DEF CommentInv
  <2>4. /\ \A d \in rows : d.id \in Nat /\ lastComment < d.id /\ d.id <= lastComment'
        /\ \A d, e \in rows : d.id = e.id => d = e
    <3> HIDE DEF n, right
    <3> QED BY <1>2, <2>1, <2>3
  <2>5. row(1) \in rows /\ row(1).id = lastComment + 1 /\ row(1).task = id /\ row(1).user = u
    <3> HIDE DEF n
    <3>1. 1 \in 1..n
      BY <1>2, <2>1
    <3> QED BY <3>1
  <2> HIDE DEF n, rows, row
  <2>6. ASSUME NEW b \in Adders \ {a} PROVE Numbered(b)'
    <3>1. Numbered(b) /\ adding'[b] = adding[b]
      BY <2>1 DEF CommentInv
    <3>2. ASSUME Active(b) PROVE Own(b)'
      <4>1. Own(b) /\ adding[b].first \in Nat /\ adding[b].first <= lastComment
        BY <3>1, <3>2 DEF Own, Numbered
      <4>2. ASSUME NEW o \in Adders \ {b}, Active(o)'
            PROVE  \A d \in adding'[o].rows : d.id # adding[b].first
        <5>1. CASE o = a
          BY <2>2, <2>3, <2>4, <4>1, <5>1
        <5>2. CASE o # a
          BY <2>1, <4>1, <4>2, <5>2 DEF Own, Active
        <5> QED BY <5>1, <5>2
      <4> QED BY <1>3, <3>1, <4>1, <4>2, OwnStays
    <3>3. ASSUME Active(b), NEW c \in adding[b].rows PROVE c.id \in Nat /\ c.id <= lastComment'
      BY <2>3, <3>1, <3>3 DEF Numbered
    <3>4. ASSUME adding[b].code = "created" PROVE Stored(b)'
      BY <1>3, <3>1, <3>4, StoredStays DEF Numbered
    <3> QED BY <3>1, <3>2, <3>3, <3>4 DEF Numbered, Active
  <2>7. Own(a)'
    <3>1. \A d \in comment : d.id # lastComment + 1
      BY <2>3 DEF CommentInv
    <3>2. \A d \in rows : d.id = lastComment + 1 => d = row(1)
      BY <2>4, <2>5
    <3>3. ASSUME NEW b \in Adders \ {a}, Active(b)'
          PROVE  \A d \in adding'[b].rows : d.id # lastComment + 1
      <4>1. Active(b) /\ Numbered(b) /\ adding'[b] = adding[b]
        BY <2>1, <3>3 DEF Active, CommentInv
      <4> QED BY <2>3, <4>1 DEF Numbered
    <3> QED BY <1>3, <2>2, <2>5, <3>1, <3>2, <3>3 DEF Own
  <2>8. Numbered(a)'
    <3>1. adding'[a].code # "created"
      BY <1>3, <2>2 DEF CommentInv, Numbered
    <3> QED BY <2>2, <2>4, <2>7, <3>1 DEF Numbered
  <2>9. \A c \in comment' : c.id \in Nat /\ c.id <= lastComment'
    BY <1>3, <2>3 DEF CommentInv
  <2> QED BY <2>1, <2>3, <2>6, <2>8, <2>9 DEF CommentInv
<1> QED BY <1>4, <1>5

LEMMA ReadKeeps ==
    ASSUME CommentInv, NEW a \in Adders, AddRead(a)
    PROVE  CommentInv'
<1>1. /\ \A b \in Adders \ {a} : adding'[b] = adding[b]
      /\ adding'[a] = [adding[a] EXCEPT !.pc = "commit", !.answer = ReadBack(a)]
      /\ UNCHANGED <<comment, lastComment>> /\ DOMAIN adding' = Adders /\ adding[a].pc = "read"
  BY DEF AddRead, CommentInv
<1>2. adding'[a].pc = "commit" /\ adding'[a].rows = adding[a].rows /\ adding'[a].code = adding[a].code
      /\ adding'[a].id = adding[a].id /\ adding'[a].user = adding[a].user
      /\ adding'[a].first = adding[a].first /\ adding'[a].answer = ReadBack(a)
  BY <1>1
<1>3. Active(a) /\ Numbered(a)
  BY <1>1 DEF Active, CommentInv
<1>4. \A b \in Adders \ {a} : Numbered(b)'
  BY <1>1, <1>2, <1>3, OthersNumbered
<1>5. Own(a)'
  <2>1. PICK c \in adding[a].rows :
          /\ c.id = adding[a].first /\ c.task = adding[a].id /\ c.user = adding[a].user
          /\ \A d \in comment \cup adding[a].rows : d.id = c.id => d = c
          /\ \A b \in Adders \ {a} : Active(b) => \A d \in adding[b].rows : d.id # c.id
    BY <1>3 DEF Own, Numbered
  <2>2. ReadBack(a) = {c}
    BY <2>1 DEF ReadBack
  <2> QED BY <1>1, <1>2, <2>1, <2>2 DEF Own, Active
<1>6. Numbered(a)'
  BY <1>1, <1>2, <1>3, <1>5 DEF Numbered
<1> QED BY <1>1, <1>4, <1>6 DEF CommentInv

LEMMA CommitKeeps ==
    ASSUME CommentInv, NEW a \in Adders, AddCommit(a)
    PROVE  CommentInv'
<1>1. PICK code \in {"created", "error"} :
        adding' = [adding EXCEPT ![a].pc = "done", ![a].code = code]
  BY DEF AddCommit
<1>2. /\ \A b \in Adders \ {a} : adding'[b] = adding[b]
      /\ adding'[a] = [adding[a] EXCEPT !.pc = "done", !.code = code]
      /\ comment' = comment \cup adding[a].rows /\ adding[a].pc = "commit"
      /\ lastComment' = lastComment /\ DOMAIN adding' = Adders
  BY <1>1 DEF AddCommit, CommentInv
<1>3. adding'[a].pc = "done" /\ adding'[a].id = adding[a].id /\ adding'[a].user = adding[a].user
      /\ adding'[a].first = adding[a].first /\ adding'[a].answer = adding[a].answer
  BY <1>2
<1>4. Active(a) /\ Own(a) /\ \A c \in adding[a].rows : c.id \in Nat /\ c.id <= lastComment
  BY <1>2 DEF Active, CommentInv, Numbered
<1>5. Numbered(a)'
  <2>1. Stored(a)'
    BY <1>2, <1>3, <1>4 DEF Own, Stored
  <2> QED BY <1>3, <2>1 DEF Numbered, Active
<1>6. ASSUME NEW b \in Adders \ {a} PROVE Numbered(b)'
  <2>1. Numbered(b) /\ adding'[b] = adding[b]
    BY <1>2 DEF CommentInv
  <2>2. ASSUME Active(b) PROVE Own(b)'
    <3>1. Own(b)
      BY <2>1, <2>2 DEF Numbered
    <3>2. \A d \in adding[a].rows : d.id # adding[b].first
      BY <1>4, <3>1 DEF Own
    <3>3. ASSUME NEW o \in Adders \ {b}, Active(o)'
          PROVE  \A d \in adding'[o].rows : d.id # adding[b].first
      <4>1. o # a
        BY <1>3, <3>3 DEF Active
      <4> QED BY <1>2, <3>1, <3>3, <4>1 DEF Own, Active
    <3> QED BY <1>2, <2>1, <3>1, <3>2, <3>3, OwnStays
  <2>3. ASSUME adding[b].code = "created" PROVE Stored(b)'
    BY <1>2, <2>1, <2>3, StoredStays DEF Numbered
  <2> QED BY <1>2, <2>1, <2>2, <2>3 DEF Numbered, Active
<1>7. \A c \in comment' : c.id \in Nat /\ c.id <= lastComment'
  BY <1>2, <1>4 DEF CommentInv
<1> QED BY <1>2, <1>5, <1>6, <1>7 DEF CommentInv

LEMMA CommentStep == CommentInv /\ [Next]_vars => CommentInv'
<1> SUFFICES ASSUME CommentInv, [Next]_vars PROVE CommentInv'
  OBVIOUS
<1>1. ASSUME NEW a \in Adders, AddFail(a) PROVE CommentInv'
  BY <1>1, QuitKeeps DEF AddFail
<1>2. CASE UNCHANGED <<comment, lastComment, adding>>
  BY <1>2, SameComments
<1> QED BY <1>1, <1>2, InsertKeeps, ReadKeeps, CommitKeeps
        DEF Next, vars, Quiet, Open, Publish, Alter, Get, GetTask, GetComments, GetHistory, GetFails,
            Walk, WalkList, WalkComments, WalkFails

\* The comment a 201 answers with is the one sent, and is there for good.
THEOREM CommentsAreStored == Spec => []AnsweredCommentIsStored
<1>1. CommentInv => AnsweredCommentIsStored
  BY DEF CommentInv, Numbered, Stored, AnsweredCommentIsStored
<1> QED BY <1>1, InitComments, CommentStep, PTL DEF Spec

-----------------------------------------------------------------------------
(* A task and its history.                                                 *)

\* Between its statements a request knows of a version the task has reached.
Reader(g) ==
    LET x == getting[g] IN
    /\ x.pc = "reading" =>
         /\ x.extra \in {"comments", "history"}
         /\ \/ x.todo = <<"task", x.extra>>
            \/ /\ x.todo = <<x.extra>>
               /\ x.id \in Committed
               /\ x.version \in Nat /\ x.version <= task[x.id].version
    /\ x.pc # "done" => x.code # "ok"
    /\ x.code = "ok" /\ x.extra = "history" => x.events >= x.version - 1

ReaderInv ==
    /\ task \in [TaskIds -> Task \cup {NoTask}]
    /\ DOMAIN getting = Getters
    /\ \A g \in Getters : Reader(g)

LEMMA InitReaders == Init => ReaderInv
BY DEF Init, ReaderInv, Reader

\* Versions only grow.
LEMMA VersionsGrow ==
    ASSUME ReaderInv, Open \/ Publish \/ Alter \/ UNCHANGED task
    PROVE  /\ task' \in [TaskIds -> Task \cup {NoTask}]
           /\ \A t \in Committed : t \in Committed' /\ task[t].version <= task'[t].version
<1>1. \A t \in Committed : t \in TaskIds /\ task[t] \in Task /\ task[t].version \in Nat
  BY DEF ReaderInv, Committed, Task
<1>2. CASE Publish
  <2>1. PICK t \in issued \ Committed, m \in Teams, editors \in SUBSET Users \ {{}} :
          task' = [task EXCEPT ![t] = NewTask(m, editors)]
    BY <1>2 DEF Publish
  <2>2. NewTask(m, editors) \in Task
    BY DEF NewTask, Task
  <2>3. task' \in [TaskIds -> Task \cup {NoTask}]
    BY <2>1, <2>2 DEF ReaderInv
  <2>4. \A s \in Committed : s # t /\ task'[s] = task[s]
    BY <1>1, <2>1 DEF ReaderInv
  <2> QED BY <1>1, <2>3, <2>4 DEF Committed
<1>3. CASE Alter
  <2>1. PICK t \in Committed, editors \in SUBSET Users \ {{}} :
          task' = [task EXCEPT ![t].version = @ + 1, ![t].editors = editors]
    BY <1>3 DEF Alter
  <2> DEFINE row == [task[t] EXCEPT !.version = task[t].version + 1, !.editors = editors]
  <2>2. task' = [task EXCEPT ![t] = row]
    BY <1>1, <2>1 DEF ReaderInv
  <2>3. row \in Task /\ row.version = task[t].version + 1
    <3>1. task[t].version + 1 \in Nat \ {0} /\ task[t] \in Task
      BY <1>1
    <3> QED BY <3>1 DEF Task
  <2> HIDE DEF row
  <2>4. task' \in [TaskIds -> Task \cup {NoTask}]
    BY <2>2, <2>3 DEF ReaderInv
  <2>5. \A s \in Committed : task'[s] = IF s = t THEN row ELSE task[s]
    BY <1>1, <2>2 DEF ReaderInv
  <2> QED BY <1>1, <2>3, <2>4, <2>5, NoTaskAssumption DEF Committed
<1>4. CASE UNCHANGED task
  BY <1>1, <1>4 DEF ReaderInv, Committed
<1> QED BY <1>2, <1>3, <1>4 DEF Open

LEMMA ReaderStays ==
    ASSUME ReaderInv, Open \/ Publish \/ Alter \/ UNCHANGED task,
           NEW g \in Getters, getting'[g] = getting[g]
    PROVE  Reader(g)'
<1>1. Reader(g) /\ task \in [TaskIds -> Task \cup {NoTask}]
  BY DEF ReaderInv
<1>2. /\ task' \in [TaskIds -> Task \cup {NoTask}]
      /\ \A t \in Committed : t \in Committed' /\ task[t].version <= task'[t].version
  BY VersionsGrow
<1>3. \A t \in Committed : task[t].version \in Nat /\ task'[t].version \in Nat
  BY <1>1, <1>2, NoTaskAssumption DEF Committed, Task
<1> QED BY <1>1, <1>2, <1>3 DEF Reader

LEMMA GetKeeps ==
    ASSUME ReaderInv, NEW g \in Getters,
           Get(g) \/ GetTask(g) \/ GetComments(g) \/ GetHistory(g) \/ GetFails(g)
    PROVE  Reader(g)' /\ DOMAIN getting' = Getters
           /\ \A h \in Getters \ {g} : getting'[h] = getting[h]
<1> DEFINE x == getting[g]
           y == getting'[g]
<1>1. DOMAIN getting = Getters /\ Reader(g) /\ UNCHANGED task
  BY DEF ReaderInv, Get, GetTask, GetComments, GetHistory, GetFails
<1>2. DOMAIN getting' = Getters /\ \A h \in Getters \ {g} : getting'[h] = getting[h]
  BY <1>1 DEF Get, GetTask, GetComments, GetHistory, GetFails
<1>3. ASSUME Get(g) PROVE Reader(g)'
  <2>1. PICK id \in TaskIds, extra \in {"comments", "history"} :
         getting' = [getting EXCEPT ![g].pc = "reading", ![g].id = id,
                                   ![g].extra = extra, ![g].todo = Order(extra)]
    BY <1>3 DEF Get
  <2>2. y = [x EXCEPT !.pc = "reading", !.id = id, !.extra = extra, !.todo = Order(extra)]
    BY <1>1, <2>1
  <2>3. y.pc = "reading" /\ y.extra = extra /\ y.todo = <<"task", extra>> /\ y.code = x.code
    BY <2>2 DEF Order
  <2>4. x.code # "ok"
    BY <1>1, <1>3 DEF Get, Reader
  <2> QED BY <2>3, <2>4 DEF Reader
<1>4. ASSUME GetTask(g) PROVE Reader(g)'
  <2>1. x.pc = "reading" /\ Head(x.todo) = "task" /\ x.code # "ok"
    BY <1>1, <1>4 DEF GetTask, Reads, Reader
  <2>2. x.todo = <<"task", x.extra>> /\ x.extra \in {"comments", "history"}
    BY <1>1, <2>1 DEF Reader
  <2>3. CASE x.id \in Committed
             /\ getting' = [getting EXCEPT ![g] = Advanced([@ EXCEPT !.version = task[x.id].version])]
    <3> DEFINE z == [x EXCEPT !.version = task[x.id].version]
    <3>1. y = Advanced(z)
      BY <1>1, <2>3
    <3>2. z.todo = x.todo /\ z.version = task[x.id].version /\ z.id = x.id /\ z.pc = x.pc
          /\ z.extra = x.extra /\ z.code = x.code
      OBVIOUS
    <3> HIDE DEF z
    <3>3. Len(z.todo) = 2 /\ Tail(z.todo) = <<x.extra>>
      BY <2>2, <3>2
    <3>4. y = [z EXCEPT !.todo = <<x.extra>>]
      <4> HIDE DEF x, y
      <4>1. ~(Len(z.todo) = 1)
        BY <3>3
      <4> QED BY <3>1, <3>3, <4>1 DEF Advanced
    <3>5. y.todo = <<x.extra>> /\ y.version = task[x.id].version /\ y.id = x.id /\ y.pc = "reading"
          /\ y.extra = x.extra /\ y.code # "ok"
      BY <2>1, <3>2, <3>4
    <3>6. task[x.id].version \in Nat /\ x.id \in Committed'
      BY <1>1, <2>3 DEF ReaderInv, Committed, Task
    <3> QED BY <1>1, <2>2, <3>5, <3>6 DEF Reader
  <2>4. CASE getting' = [getting EXCEPT ![g].pc = "done", ![g].code = "not_found"]
    <3>1. y = [x EXCEPT !.pc = "done", !.code = "not_found"]
      BY <1>1, <2>4
    <3>2. y.pc = "done" /\ y.code = "not_found"
      BY <3>1
    <3> QED BY <3>2 DEF Reader
  <2> QED BY <1>4, <2>3, <2>4 DEF GetTask
<1>5. ASSUME GetComments(g) \/ GetHistory(g) PROVE Reader(g)'
  <2>1. x.pc = "reading" /\ Head(x.todo) \in {"comments", "history"} /\ x.code # "ok"
    BY <1>1, <1>5 DEF GetComments, GetHistory, Reads, Reader
  <2>2. /\ x.todo = <<x.extra>> /\ x.id \in Committed /\ Head(x.todo) = x.extra
        /\ x.version \in Nat /\ x.version <= task[x.id].version
    BY <1>1, <2>1 DEF Reader
  <2>3. Len(x.todo) = 1
    BY <2>2
  <2>4. CASE GetComments(g)
    <3> DEFINE z == [x EXCEPT !.comments = CommentsOf({x.id})]
    <3>1. y = Advanced(z) /\ x.extra = "comments"
      BY <1>1, <2>2, <2>4 DEF GetComments, Reads
    <3>2. z.todo = x.todo /\ z.extra = x.extra
      OBVIOUS
    <3> HIDE DEF z
    <3>3. y = [z EXCEPT !.todo = <<>>, !.pc = "done", !.code = "ok"]
      BY <2>3, <3>1, <3>2 DEF Advanced
    <3>4. y.pc = "done" /\ y.extra = "comments"
      BY <3>1, <3>2, <3>3
    <3> QED BY <3>4 DEF Reader
  <2>5. CASE GetHistory(g)
    <3> DEFINE z == [x EXCEPT !.events = EventsOf(x.id)]
    <3>1. y = Advanced(z)
      BY <1>1, <2>5 DEF GetHistory
    <3>2. z.todo = x.todo /\ z.events = EventsOf(x.id) /\ z.version = x.version
      OBVIOUS
    <3> HIDE DEF z
    <3>3. y = [z EXCEPT !.todo = <<>>, !.pc = "done", !.code = "ok"]
      BY <2>3, <3>1, <3>2 DEF Advanced
    <3>4. y.pc = "done" /\ y.events = EventsOf(x.id) /\ y.version = x.version
      BY <3>2, <3>3
    <3>5. EventsOf(x.id) = task[x.id].version - 1 /\ task[x.id].version \in Nat
      BY <2>2 DEF EventsOf, ReaderInv, Committed, Task
    <3> QED BY <2>2, <3>4, <3>5 DEF Reader
  <2> QED BY <1>5, <2>4, <2>5
<1>6. ASSUME GetFails(g) PROVE Reader(g)'
  <2>1. y = [x EXCEPT !.pc = "done", !.code = "error"]
    BY <1>1, <1>6 DEF GetFails
  <2>2. y.pc = "done" /\ y.code = "error"
    BY <2>1
  <2> QED BY <2>2 DEF Reader
<1> QED BY <1>2, <1>3, <1>4, <1>5, <1>6

LEMMA ReaderStep == ReaderInv /\ [Next]_vars => ReaderInv'
<1> SUFFICES ASSUME ReaderInv, [Next]_vars PROVE ReaderInv'
  OBVIOUS
<1>1. CASE (Open \/ Publish \/ Alter \/ UNCHANGED task) /\ UNCHANGED getting
  BY <1>1, VersionsGrow, ReaderStays DEF ReaderInv
<1>2. ASSUME NEW g \in Getters,
             Get(g) \/ GetTask(g) \/ GetComments(g) \/ GetHistory(g) \/ GetFails(g)
      PROVE  ReaderInv'
  <2>1. UNCHANGED task
    BY <1>2 DEF Get, GetTask, GetComments, GetHistory, GetFails
  <2> QED BY <1>2, <2>1, GetKeeps, ReaderStays DEF ReaderInv
<1> QED BY <1>1, <1>2
        DEF Next, vars, Quiet, Open, Publish, Alter, AddInsert, AddRead, AddCommit, AddFail,
            Walk, WalkList, WalkComments, WalkFails

\* The history answered with a task is not behind the version answered with it.
THEOREM HistoryIsNotBehind == Spec => []HistoryCoversVersion
<1>1. ReaderInv => HistoryCoversVersion
  BY DEF ReaderInv, Reader, HistoryCoversVersion
<1> QED BY <1>1, InitReaders, ReaderStep, PTL DEF Spec

-----------------------------------------------------------------------------
(* The form of the state.                                                  *)

LEMMA InitTypes == Init => TypeOK
<1> SUFFICES ASSUME Init PROVE TypeOK
  OBVIOUS
<1>1. PICK here \in Scenarios, team \in [Walkers -> Teams], limit \in [Walkers -> 1..MaxInt] :
        /\ adding = [a \in Adders |->
             [pc |-> IF a \in here THEN "idle" ELSE "done", id |-> 0, user |-> NoUser,
              rows |-> {}, first |-> 0, answer |-> {}, code |-> "none"]]
        /\ getting = [g \in Getters |->
             [pc |-> IF g \in here THEN "idle" ELSE "done", id |-> 0, extra |-> "none",
              todo |-> <<>>, version |-> 0, events |-> 0, comments |-> {}, code |-> "none"]]
        /\ walking = [w \in Walkers |->
             [pc |-> IF w \in here THEN "idle" ELSE "done", team |-> team[w],
              limit |-> limit[w], cursor |-> 0, seen |-> <<>>, page |-> <<>>,
              merged |-> NoComments, known |-> {}, fetched |-> {}, code |-> "none"]]
  BY DEF Init
<1>2. task \in [TaskIds -> Task \cup {NoTask}] /\ Committed = {} /\ issued = {} /\ comment = {} /\ lastComment = 0
  BY DEF Init, Committed
<1>3. adding \in [Adders -> Adding]
  BY <1>1 DEF Adding
<1>4. getting \in [Getters -> Getting]
  <2>1. <<>> \in Seq(Statements)
    BY EmptySeq
  <2> QED BY <1>1, <2>1 DEF Getting
<1>5. walking \in [Walkers -> Walking]
  <2>1. <<>> \in Seq(TaskIds) /\ NoComments \in [TaskIds -> Seq(Comment)]
    BY EmptySeq DEF NoComments
  <2> QED BY <1>1, <2>1 DEF Walking
<1> QED BY <1>2, <1>3, <1>4, <1>5 DEF TypeOK

\* Tasks appear and change.
LEMMA TasksTyped ==
    ASSUME TypeOK, Open \/ Publish \/ Alter
    PROVE  TypeOK'
<1>1. UNCHANGED <<comment, lastComment, adding, getting, walking>>
  BY DEF Open, Publish, Alter
<1>2. task' \in [TaskIds -> Task \cup {NoTask}] /\ Committed' \subseteq issued' /\ issued' \subseteq TaskIds
  <2>1. CASE Open
    BY <2>1 DEF Open, TypeOK, Committed
  <2>2. CASE Publish
    <3>1. PICK t \in issued \ Committed, m \in Teams, editors \in SUBSET Users \ {{}} :
            task' = [task EXCEPT ![t] = NewTask(m, editors)]
      BY <2>2 DEF Publish
    <3>2. NewTask(m, editors) \in Task
      BY DEF NewTask, Task
    <3> QED BY <2>2, <3>1, <3>2 DEF Publish, TypeOK, Committed
  <2>3. CASE Alter
    <3>1. PICK t \in Committed, editors \in SUBSET Users \ {{}} :
            task' = [task EXCEPT ![t].version = @ + 1, ![t].editors = editors]
      BY <2>3 DEF Alter
    <3>2. task[t] \in Task /\ t \in TaskIds
      BY NoTaskAssumption DEF TypeOK, Committed
    <3> DEFINE row == [task[t] EXCEPT !.version = task[t].version + 1, !.editors = editors]
    <3>3. row \in Task
      <4>1. task[t].version + 1 \in Nat \ {0}
        BY <3>2 DEF Task
      <4> QED BY <3>2, <4>1 DEF Task
    <3>4. task' = [task EXCEPT ![t] = row]
      BY <3>1, <3>2 DEF TypeOK
    <3> HIDE DEF row
    <3> QED BY <2>3, <3>2, <3>3, <3>4 DEF Alter, TypeOK, Committed
  <2> QED BY <2>1, <2>2, <2>3
<1> QED BY <1>1, <1>2 DEF TypeOK

\* What the INSERT of comments finds.
LEMMA SelectedIsFinite ==
    ASSUME NEW u
    PROVE  \A id : IsFiniteSet(Selected(u, id)) /\ Cardinality(Selected(u, id)) \in Nat
<1> SUFFICES ASSUME NEW id
             PROVE  IsFiniteSet(Selected(u, id)) /\ Cardinality(Selected(u, id)) \in Nat
  OBVIOUS
<1>1. Selected(u, id) \in SUBSET TaskIds
  BY DEF Selected, Committed
<1> QED BY <1>1, NumbersAssumption, FS_Subset, FS_CardinalityType

LEMMA AddersTyped ==
    ASSUME TypeOK, NEW a \in Adders, AddInsert(a) \/ AddRead(a) \/ AddCommit(a) \/ AddFail(a)
    PROVE  TypeOK'
<1>1. UNCHANGED <<task, issued, getting, walking>> /\ adding[a] \in Adding
      /\ adding \in [Adders -> Adding] /\ comment \subseteq Comment /\ lastComment \in Nat
  BY DEF TypeOK, AddInsert, AddRead, AddCommit, AddFail
<1>2. ASSUME NEW y \in Adding, adding' = [adding EXCEPT ![a] = y],
             comment' \subseteq Comment, lastComment' \in Nat
      PROVE  TypeOK'
  BY <1>1, <1>2 DEF TypeOK, Committed
<1>3. CASE AddInsert(a)
  <2>1. PICK u \in Users, id \in TaskIds :
          LET n == Cardinality(Selected(u, id))
              row(i) == [id |-> lastComment + i, task |-> id, user |-> u,
                         entitled |-> id \in Committed /\ u \in task[id].editors]
          IN  IF n = 0 \/ id \notin Committed
              THEN /\ adding' = [adding EXCEPT ![a].pc = "done",
                                     ![a].code = IF n = 0 THEN "forbidden" ELSE "error"]
                   /\ UNCHANGED lastComment
              ELSE /\ adding' = [adding EXCEPT ![a].pc = "read", ![a].id = id, ![a].user = u,
                                     ![a].rows = {row(i) : i \in 1..n},
                                     ![a].first = lastComment + 1]
                   /\ lastComment' = lastComment + n
    BY <1>3 DEF AddInsert
  <2> DEFINE n == Cardinality(Selected(u, id))
             row(i) == [id |-> lastComment + i, task |-> id, user |-> u,
                        entitled |-> id \in Committed /\ u \in task[id].editors]
             rows == {row(i) : i \in 1..n}
  <2>2. n \in Nat /\ UNCHANGED comment
    BY <1>3, SelectedIsFinite DEF AddInsert
  <2> HIDE DEF n
  <2>3. CASE n = 0 \/ id \notin Committed
    <3> DEFINE y == [adding[a] EXCEPT !.pc = "done", !.code = IF n = 0 THEN "forbidden" ELSE "error"]
    <3>1. y \in Adding
      BY <1>1 DEF Adding
    <3>2. adding' = [adding EXCEPT ![a] = y] /\ UNCHANGED lastComment
      BY <1>1, <2>1, <2>3 DEF n
    <3> QED BY <1>1, <1>2, <2>2, <3>1, <3>2
  <2>4. CASE ~(n = 0 \/ id \notin Committed)
    <3> DEFINE y == [adding[a] EXCEPT !.pc = "read", !.id = id, !.user = u,
                                      !.rows = rows, !.first = lastComment + 1]
    <3>1. ASSUME NEW i \in 1..n PROVE row(i) \in Comment
      <4>1. lastComment + i \in Nat
        BY <1>1, <2>2
      <4>2. (id \in Committed /\ u \in task[id].editors) \in BOOLEAN
        OBVIOUS
      <4> QED BY <4>1, <4>2 DEF Comment
    <3>2. rows \subseteq Comment
      BY <3>1
    <3>3. adding' = [adding EXCEPT ![a] = y] /\ lastComment' = lastComment + n
      BY <1>1, <2>1, <2>4 DEF n
    <3> HIDE DEF rows
    <3>4. y \in Adding
      <4>1. lastComment + 1 \in Nat
        BY <1>1
      <4> QED BY <1>1, <3>2, <4>1 DEF Adding
    <3>5. lastComment' \in Nat
      BY <1>1, <2>2, <3>3
    <3> QED BY <1>1, <1>2, <2>2, <3>3, <3>4, <3>5
  <2> QED BY <2>3, <2>4
<1>4. CASE AddRead(a)
  <2> DEFINE y == [adding[a] EXCEPT !.pc = "commit", !.answer = ReadBack(a)]
  <2>1. ReadBack(a) \subseteq Comment
    BY <1>1 DEF ReadBack, Adding
  <2>2. y \in Adding
    BY <1>1, <2>1 DEF Adding
  <2> QED BY <1>1, <1>2, <1>4, <2>2 DEF AddRead
<1>5. CASE AddCommit(a)
  <2>1. PICK code \in {"created", "error"} :
          adding' = [adding EXCEPT ![a].pc = "done", ![a].code = code]
    BY <1>5 DEF AddCommit
  <2> DEFINE y == [adding[a] EXCEPT !.pc = "done", !.code = code]
  <2>2. y \in Adding /\ adding' = [adding EXCEPT ![a] = y]
    BY <1>1, <2>1 DEF Adding
  <2>3. comment' \subseteq Comment /\ UNCHANGED lastComment
    BY <1>1, <1>5 DEF AddCommit, Adding
  <2> QED BY <1>1, <1>2, <2>2, <2>3
<1>6. CASE AddFail(a)
  <2> DEFINE y == [adding[a] EXCEPT !.pc = "done", !.code = "error"]
  <2>1. y \in Adding
    BY <1>1 DEF Adding
  <2> QED BY <1>1, <1>2, <1>6, <2>1 DEF AddFail
<1> QED BY <1>3, <1>4, <1>5, <1>6

LEMMA GettersTyped ==
    ASSUME TypeOK, ReaderInv, NEW g \in Getters,
           Get(g) \/ GetTask(g) \/ GetComments(g) \/ GetHistory(g) \/ GetFails(g)
    PROVE  TypeOK'
<1> DEFINE x == getting[g]
<1>1. UNCHANGED <<task, issued, comment, lastComment, adding, walking>> /\ x \in Getting
      /\ getting \in [Getters -> Getting]
  BY DEF TypeOK, Get, GetTask, GetComments, GetHistory, GetFails
<1>2. ASSUME NEW y \in Getting, getting' = [getting EXCEPT ![g] = y] PROVE TypeOK'
  BY <1>1, <1>2 DEF TypeOK, Committed
<1>3. ASSUME NEW z \in Getting, z.pc = "reading", z.todo = x.todo, x.pc = "reading"
      PROVE  Advanced(z) \in Getting
  <2>1. z.todo = <<"task", x.extra>> \/ z.todo = <<x.extra>>
    BY <1>3 DEF ReaderInv, Reader
  <2>2. CASE z.todo = <<x.extra>>
    <3>1. Len(z.todo) = 1 /\ <<>> \in Seq(Statements)
      BY <2>2
    <3> QED BY <3>1 DEF Advanced, Getting
  <2>3. CASE z.todo = <<"task", x.extra>>
    <3>1. Len(z.todo) = 2 /\ Tail(z.todo) = <<x.extra>>
      BY <2>3
    <3>2. x.extra \in Statements
      BY <1>3 DEF ReaderInv, Reader, Statements
    <3>3. <<x.extra>> \in Seq(Statements)
      BY <3>2
    <3>4. Tail(z.todo) \in Seq(Statements)
      BY <3>1, <3>3
    <3> QED BY <3>1, <3>4 DEF Advanced, Getting
  <2> QED BY <2>1, <2>2, <2>3
<1>4. CASE Get(g)
  <2>1. PICK id \in TaskIds, extra \in {"comments", "history"} :
         getting' = [getting EXCEPT ![g].pc = "reading", ![g].id = id,
                                   ![g].extra = extra, ![g].todo = Order(extra)]
    BY <1>4 DEF Get
  <2> DEFINE y == [x EXCEPT !.pc = "reading", !.id = id, !.extra = extra, !.todo = Order(extra)]
  <2>2. Order(extra) \in Seq(Statements)
    BY DEF Order, Statements
  <2>3. y \in Getting /\ getting' = [getting EXCEPT ![g] = y]
    BY <1>1, <2>1, <2>2 DEF Getting
  <2> QED BY <1>2, <2>3
<1>5. CASE GetFails(g)
  <2> DEFINE y == [x EXCEPT !.pc = "done", !.code = "error"]
  <2>1. y \in Getting /\ getting' = [getting EXCEPT ![g] = y]
    BY <1>1, <1>5 DEF GetFails, Getting
  <2> QED BY <1>2, <2>1
<1>6. CASE GetTask(g)
  <2>1. CASE getting' = [getting EXCEPT ![g].pc = "done", ![g].code = "not_found"]
    <3> DEFINE y == [x EXCEPT !.pc = "done", !.code = "not_found"]
    <3>1. y \in Getting /\ getting' = [getting EXCEPT ![g] = y]
      BY <1>1, <2>1 DEF Getting
    <3> QED BY <1>2, <3>1
  <2>2. CASE /\ x.id \in Committed
             /\ getting' = [getting EXCEPT ![g] = Advanced([@ EXCEPT !.version = task[x.id].version])]
    <3> DEFINE z == [x EXCEPT !.version = task[x.id].version]
    <3>1. task[x.id].version \in Nat
      BY <2>2 DEF TypeOK, Committed, Task
    <3>2. z \in Getting /\ z.pc = x.pc /\ z.todo = x.todo
      BY <1>1, <3>1 DEF Getting
    <3>3. getting' = [getting EXCEPT ![g] = Advanced(z)]
      BY <1>1, <2>2
    <3>4. x.pc = "reading"
      BY <1>6 DEF GetTask, Reads
    <3> HIDE DEF z
    <3> QED BY <1>2, <1>3, <3>2, <3>3, <3>4
  <2> QED BY <1>6, <2>1, <2>2 DEF GetTask
<1>7. CASE GetComments(g)
  <2> DEFINE z == [x EXCEPT !.comments = CommentsOf({x.id})]
  <2>1. CommentsOf({x.id}) \subseteq Comment
    BY DEF CommentsOf, TypeOK
  <2>2. z \in Getting /\ z.pc = x.pc /\ z.todo = x.todo
    BY <1>1, <2>1 DEF Getting
  <2>3. getting' = [getting EXCEPT ![g] = Advanced(z)] /\ x.pc = "reading"
    BY <1>1, <1>7 DEF GetComments, Reads
  <2> HIDE DEF z
  <2> QED BY <1>2, <1>3, <2>2, <2>3
<1>8. CASE GetHistory(g)
  <2> DEFINE z == [x EXCEPT !.events = EventsOf(x.id)]
  <2>1. EventsOf(x.id) \in Nat
    BY DEF EventsOf, TypeOK, Committed, Task
  <2>2. z \in Getting /\ z.pc = x.pc /\ z.todo = x.todo
    BY <1>1, <2>1 DEF Getting
  <2>3. getting' = [getting EXCEPT ![g] = Advanced(z)] /\ x.pc = "reading"
    BY <1>1, <1>8 DEF GetHistory, Reads
  <2> HIDE DEF z
  <2> QED BY <1>2, <1>3, <2>2, <2>3
<1> QED BY <1>4, <1>5, <1>6, <1>7, <1>8

-----------------------------------------------------------------------------
(* Pages.                                                                  *)

\* The rows of a page, in the order of their ids, and where the next begins.
Paged(found, rows, page, cursor) ==
    \E k \in 0..Len(rows) :
        /\ rows \in Seq(found)
        /\ \A t \in found : \E i \in 1..Len(rows) : rows[i] = t
        /\ \A i, j \in 1..Len(rows) : i < j => rows[i] < rows[j]
        /\ page \in Seq(found) /\ Len(page) = k
        /\ \A i \in 1..k : page[i] = rows[i]
        /\ \/ cursor = 0 /\ k = Len(rows)
           \/ k < Len(rows) /\ cursor = rows[k + 1]

Found(w) == {t \in Committed : task[t].team = walking[w].team /\ t >= walking[w].cursor}

\* What storage.List answers with, and the handler makes of it: nothing, or a page.
PageRead(w, y) ==
    LET x == walking[w] IN
    \/ y = [x EXCEPT !.pc = "done", !.code = "error"]
    \/ Found(w) = {} /\ y = [x EXCEPT !.pc = "done", !.code = "ok", !.cursor = 0]
    \/ \E page \in Seq(Found(w)), cursor \in Found(w) \cup {0} :
          /\ \E rows : Paged(Found(w), rows, page, cursor)
          /\ y = [x EXCEPT !.pc = "comments", !.page = page, !.seen = @ \o page, !.cursor = cursor]

\* Rows sorted by their ids.
LEMMA FoundInOrder ==
    ASSUME NEW found \in SUBSET TaskIds
    PROVE  LET rows == OrderBy(found, [t \in found |-> t])
           IN  /\ rows \in Seq(found) /\ Len(rows) \in Nat
               /\ \A t \in found : \E i \in 1..Len(rows) : rows[i] = t
               /\ \A i, j \in 1..Len(rows) : i < j => rows[i] < rows[j]
<1> DEFINE key == [t \in found |-> t]
           rows == OrderBy(found, key)
<1>1. IsFiniteSet(found) /\ key \in [found -> Nat] /\ found \subseteq Nat
  BY NumbersAssumption, FS_Subset
<1>2. Arranged(key, found, rows)
  <2> HIDE DEF key, rows
  <2> QED BY <1>1, OrderByArranges DEF rows
<1> HIDE DEF rows
<1>3. rows \in Seq(found) /\ Len(rows) \in Nat /\ \A t \in found : \E i \in 1..Len(rows) : rows[i] = t
  BY <1>2 DEF Arranged
<1>4. \A i \in 1..Len(rows) : rows[i] \in found /\ rows[i] \in Nat
  BY <1>1, <1>3, ElementOfSeq
<1>5. \A i, j \in 1..Len(rows) : i < j => rows[i] # rows[j] /\ key[rows[i]] <= key[rows[j]]
  BY <1>2 DEF Arranged
<1>6. ASSUME NEW i \in 1..Len(rows), NEW j \in 1..Len(rows), i < j PROVE rows[i] < rows[j]
  <2>1. rows[i] \in found /\ rows[j] \in found /\ rows[i] \in Nat /\ rows[j] \in Nat
    BY <1>4
  <2>2. key[rows[i]] = rows[i] /\ key[rows[j]] = rows[j]
    BY <2>1
  <2> QED BY <1>5, <1>6, <2>1, <2>2
<1> QED BY <1>3, <1>6 DEF rows

LEMMA PagesAreCut ==
    ASSUME NEW found \in SUBSET TaskIds, NEW rows \in Seq(found), Len(rows) \in Nat,
           \A t \in found : \E i \in 1..Len(rows) : rows[i] = t,
           \A i, j \in 1..Len(rows) : i < j => rows[i] < rows[j],
           NEW limit \in 1..MaxInt, ~(Plus1(limit) < 0)
    PROVE  LET got == SubSeq(rows, 1, IF Plus1(limit) < Len(rows) THEN Plus1(limit) ELSE Len(rows))
               page == SubSeq(got, 1, IF limit < Len(got) THEN limit ELSE Len(got))
           IN  /\ got = <<>> => found = {}
               /\ Paged(found, rows, page, NextCursor(got, limit))
               /\ page \in Seq(found) /\ NextCursor(got, limit) \in found \cup {0}
<1> DEFINE m == IF Plus1(limit) < Len(rows) THEN Plus1(limit) ELSE Len(rows)
           got == SubSeq(rows, 1, m)
           k == IF limit < Len(got) THEN limit ELSE Len(got)
           page == SubSeq(got, 1, k)
<1>1. Plus1(limit) = limit + 1 /\ limit \in Nat \ {0}
  BY NumbersAssumption DEF Plus1
<1>2. m \in 0..Len(rows) /\ m \in Int /\ (m = limit + 1 \/ m = Len(rows)) /\ m <= limit + 1
  BY <1>1
<1>3. got \in Seq(found) /\ Len(got) = m /\ \A i \in 1..m : got[i] = rows[i]
  <2> HIDE DEF m
  <2>1. \A i \in 1..m : rows[i] \in found
    BY <1>2, ElementOfSeq
  <2>2. /\ got \in Seq(found) /\ Len(got) = IF 1 <= m THEN m - 1 + 1 ELSE 0
        /\ \A i \in 1..(m - 1 + 1) : got[i] = rows[1 + i - 1]
    <3>1. 1 \in Int /\ m \in Int
      BY <1>2
    <3> QED BY ONLY <2>1, <3>1, SubSeqProperties
  <2>3. Len(got) = m
    BY <1>2, <2>2
  <2>4. ASSUME NEW i \in 1..m PROVE got[i] = rows[i]
    <3>1. i \in 1..(m - 1 + 1) /\ 1 + i - 1 = i
      BY <1>2
    <3> QED BY <2>2, <3>1
  <2> QED BY <2>2, <2>3, <2>4
<1> HIDE DEF got
<1>4. k \in 0..Len(rows) /\ k \in Int /\ k <= m /\ ((m <= limit /\ k = m) \/ (m = limit + 1 /\ k = limit))
  <2>1. Len(got) = m
    BY <1>3
  <2> HIDE DEF m
  <2> QED BY <1>1, <1>2, <2>1
<1>5. page \in Seq(found) /\ Len(page) = k /\ \A i \in 1..k : page[i] = rows[i]
  <2> HIDE DEF m, k
  <2>1. ASSUME NEW i \in 1..k PROVE got[i] \in found
    <3>1. i \in 1..m /\ i \in 1..Len(rows)
      BY <1>2, <1>4
    <3>2. rows[i] \in found
      BY <3>1, ElementOfSeq
    <3> QED BY <1>3, <3>1, <3>2
  <2>2. /\ page \in Seq(found) /\ Len(page) = IF 1 <= k THEN k - 1 + 1 ELSE 0
        /\ \A i \in 1..(k - 1 + 1) : page[i] = got[1 + i - 1]
    <3>1. 1 \in Int /\ k \in Int
      BY <1>4
    <3> QED BY ONLY <2>1, <3>1, SubSeqProperties
  <2>3. Len(page) = k
    BY <1>4, <2>2
  <2>4. ASSUME NEW i \in 1..k PROVE page[i] = rows[i]
    <3>1. i \in 1..(k - 1 + 1) /\ 1 + i - 1 = i /\ i \in 1..m
      BY <1>2, <1>4
    <3> QED BY <1>3, <2>2, <3>1
  <2> QED BY <2>2, <2>3, <2>4
<1>6. got = <<>> => found = {}
  <2> SUFFICES ASSUME got = <<>>, NEW t \in found PROVE FALSE
    OBVIOUS
  <2>1. m = 0
    BY <1>3
  <2>2. Len(rows) = 0
    BY <1>1, <1>2, <2>1
  <2> QED BY <2>2
<1> DEFINE cursor == NextCursor(got, limit)
<1>7. cursor \in found \cup {0} /\ ((cursor = 0 /\ k = Len(rows)) \/ (k < Len(rows) /\ cursor = rows[k + 1]))
  <2>1. CASE m <= limit /\ k = m
    <3>1. m = Len(rows)
      BY <1>1, <1>2, <2>1
    <3>2. cursor = 0
      BY <1>1, <1>2, <1>3, <2>1 DEF NextCursor
    <3> QED BY <2>1, <3>1, <3>2
  <2>2. CASE m = limit + 1 /\ k = limit
    <3>1. cursor = got[limit + 1] /\ limit + 1 \in 1..m /\ limit + 1 \in 1..Len(rows)
      BY <1>1, <1>2, <1>3, <2>2 DEF NextCursor
    <3>2. cursor = rows[limit + 1] /\ rows[limit + 1] \in found
      BY <1>3, <3>1, ElementOfSeq
    <3> HIDE DEF cursor, k, m
    <3>3. k < Len(rows) /\ k + 1 = limit + 1
      BY <1>1, <2>2, <3>1
    <3> QED BY <3>2, <3>3
  <2> QED BY <1>4, <2>1, <2>2
<1> HIDE DEF k, page, cursor
<1>8. Paged(found, rows, page, cursor)
  BY <1>4, <1>5, <1>7 DEF Paged
<1> QED BY <1>5, <1>6, <1>7, <1>8 DEF got, page, k, m, cursor
LEMMA ListReads ==
    ASSUME TypeOK, NEW w \in Walkers, WalkList(w)
    PROVE  \E y : PageRead(w, y) /\ walking' = [walking EXCEPT ![w] = y]
<1> DEFINE x == walking[w]
           found == Found(w)
           rows == OrderBy(found, [t \in found |-> t])
           got == SubSeq(rows, 1, IF Plus1(x.limit) < Len(rows) THEN Plus1(x.limit) ELSE Len(rows))
           page == SubSeq(got, 1, IF x.limit < Len(got) THEN x.limit ELSE Len(got))
           cursor == NextCursor(got, x.limit)
<1>1. x \in Walking /\ x.limit \in 1..MaxInt /\ walking \in [Walkers -> Walking]
  BY DEF TypeOK, Walking
<1>2. IF Plus1(x.limit) < 0
      THEN walking' = [walking EXCEPT ![w].pc = "done", ![w].code = "error"]
      ELSE IF got = <<>>
      THEN walking' = [walking EXCEPT ![w].pc = "done", ![w].code = "ok", ![w].cursor = 0]
      ELSE walking' = [walking EXCEPT ![w].pc = "comments", ![w].page = page,
                           ![w].seen = @ \o page, ![w].cursor = cursor]
  BY DEF WalkList, Found
<1>3. found \in SUBSET TaskIds
  BY DEF Found, Committed
<1>4. /\ rows \in Seq(found) /\ Len(rows) \in Nat
      /\ \A t \in found : \E i \in 1..Len(rows) : rows[i] = t
      /\ \A i, j \in 1..Len(rows) : i < j => rows[i] < rows[j]
  <2> HIDE DEF found
  <2> QED BY <1>3, FoundInOrder
<1> HIDE DEF rows
<1>5. CASE Plus1(x.limit) < 0
  <2> DEFINE y == [x EXCEPT !.pc = "done", !.code = "error"]
  <2>1. walking' = [walking EXCEPT ![w] = y] /\ PageRead(w, y)
    BY <1>1, <1>2, <1>5 DEF PageRead
  <2> QED BY <2>1
<1>6. CASE ~(Plus1(x.limit) < 0)
  <2>1. /\ got = <<>> => found = {}
        /\ Paged(found, rows, page, cursor)
        /\ page \in Seq(found) /\ cursor \in found \cup {0}
    <3> HIDE DEF found
    <3> QED BY <1>1, <1>3, <1>4, <1>6, PagesAreCut
  <2> HIDE DEF got, page, cursor, found
  <2>2. CASE got = <<>>
    <3> DEFINE y == [x EXCEPT !.pc = "done", !.code = "ok", !.cursor = 0]
    <3>1. walking' = [walking EXCEPT ![w] = y]
      BY <1>1, <1>2, <1>6, <2>2
    <3>2. PageRead(w, y)
      BY <2>1, <2>2 DEF PageRead, found
    <3> QED BY <3>1, <3>2
  <2>3. CASE got # <<>>
    <3> DEFINE y == [x EXCEPT !.pc = "comments", !.page = page, !.seen = @ \o page, !.cursor = cursor]
    <3>1. walking' = [walking EXCEPT ![w] = y]
      BY <1>1, <1>2, <1>6, <2>3
    <3>2. PageRead(w, y)
      BY <2>1 DEF PageRead, found
    <3> QED BY <3>1, <3>2
  <2> QED BY <2>2, <2>3
<1> QED BY <1>5, <1>6

-----------------------------------------------------------------------------
(* Walks.                                                                  *)

\* Each id once, the lower first.
InOrder(ids) == \A i, j \in 1..Len(ids) : i < j => ids[i] < ids[j]

Met(x, t) == \E i \in 1..Len(x.seen) : x.seen[i] = t

\* A walk has met what is below its cursor; without one it begins, or has met all.
Walked(x) ==
    /\ InOrder(x.seen) /\ InOrder(x.page)
    /\ x.cursor # 0 => \A i \in 1..Len(x.seen) : x.seen[i] < x.cursor
    /\ x.pc = "idle" => x.cursor = 0
    /\ x.pc \in {"idle", "list"} /\ x.cursor = 0 => x.seen = <<>>
    /\ x.pc # "idle" => \A t \in x.known : t \in Committed /\ task[t].team = x.team
    /\ x.pc = "list" => \A t \in x.known : Met(x, t) \/ t >= x.cursor
    /\ x.pc = "comments" => \A t \in x.known : Met(x, t) \/ (x.cursor # 0 /\ t >= x.cursor)
    /\ x.code = "ok" => \A t \in x.known : Met(x, t)
    /\ x.pc # "done" => x.code = "none"

LEMMA BeginWalk ==
    ASSUME NEW x \in Walking, Walked(x), x.pc = "idle", NEW known \in SUBSET Committed,
           \A t \in known : task[t].team = x.team
    PROVE  Walked([x EXCEPT !.pc = "list", !.known = known])
<1> DEFINE y == [x EXCEPT !.pc = "list", !.known = known]
<1>1. /\ y.pc = "list" /\ y.known = known /\ y.cursor = x.cursor /\ y.seen = x.seen /\ y.page = x.page
      /\ y.team = x.team /\ y.code = x.code
  BY DEF Walking
<1>2. \A t \in known : t >= 0 /\ t \in Nat
  BY NumbersAssumption DEF Committed
<1> HIDE DEF y
<1>3. Walked(y)
  BY <1>1, <1>2 DEF Walked, InOrder
<1> QED BY <1>3 DEF y

LEMMA PagesFollow ==
    ASSUME NEW seen \in Seq(TaskIds), NEW page \in Seq(TaskIds), InOrder(seen), InOrder(page),
           \A i \in 1..Len(seen), j \in 1..Len(page) : seen[i] < page[j]
    PROVE  /\ seen \o page \in Seq(TaskIds) /\ InOrder(seen \o page)
           /\ Len(seen \o page) = Len(seen) + Len(page)
           /\ \A i \in 1..Len(seen) : (seen \o page)[i] = seen[i]
           /\ \A i \in 1..Len(page) : (seen \o page)[Len(seen) + i] = page[i]
           /\ \A i \in 1..Len(seen \o page) :
                 \/ i \in 1..Len(seen) /\ (seen \o page)[i] = seen[i]
                 \/ i - Len(seen) \in 1..Len(page) /\ (seen \o page)[i] = page[i - Len(seen)]
<1> DEFINE all == seen \o page
           m == Len(seen)
           n == Len(page)
<1>1. m \in Nat /\ n \in Nat /\ Len(all) = m + n /\ all \in Seq(TaskIds)
  OBVIOUS
<1>2. ASSUME NEW i \in 1..(m + n) PROVE all[i] = IF i <= m THEN seen[i] ELSE page[i - m]
  OBVIOUS
<1> HIDE DEF m, n, all
<1>3. ASSUME NEW i \in 1..n PROVE all[m + i] = page[i]
  <2>1. PICK j \in 1..(m + n) : j = m + i /\ ~(j <= m) /\ j - m = i
    BY <1>1
  <2> QED BY <1>2, <2>1
<1>4. ASSUME NEW i \in 1..m PROVE all[i] = seen[i]
  <2>1. i \in 1..(m + n) /\ i <= m
    BY <1>1
  <2> QED BY <1>2, <2>1
<1>5. ASSUME NEW i \in 1..Len(all)
      PROVE  \/ i \in 1..m /\ all[i] = seen[i]
             \/ i - m \in 1..n /\ all[i] = page[i - m]
  <2>1. i \in 1..(m + n) /\ (i \in 1..m \/ (~(i <= m) /\ i - m \in 1..n))
    BY <1>1
  <2> QED BY <1>2, <1>4, <2>1
<1>6. ASSUME NEW i \in 1..Len(all), NEW j \in 1..Len(all), i < j PROVE all[i] < all[j]
  <2>1. CASE i \in 1..m /\ j \in 1..m
    BY <1>4, <1>6, <2>1 DEF InOrder, m
  <2>2. CASE i \in 1..m /\ j - m \in 1..n /\ all[j] = page[j - m]
    BY <1>4, <2>2 DEF m, n
  <2>3. CASE i - m \in 1..n /\ all[i] = page[i - m] /\ j - m \in 1..n /\ all[j] = page[j - m]
    <3>1. i - m < j - m
      BY <1>1, <1>6
    <3> QED BY <2>3, <3>1 DEF InOrder, n
  <2>4. j \in 1..m => i \in 1..m
    BY <1>1, <1>6
  <2> QED BY <1>5, <2>1, <2>2, <2>3, <2>4
<1> QED BY <1>1, <1>3, <1>4, <1>5, <1>6 DEF all, m, n, InOrder
LEMMA CursorIsNatural == ASSUME NEW x \in Walking PROVE x.cursor \in Nat
<1>1. x.cursor \in TaskIds \/ x.cursor = 0
  BY DEF Walking
<1>2. \A t \in TaskIds : t \in Nat
  BY NumbersAssumption
<1> QED BY <1>1, <1>2

\* The next page begins at the cursor and ends where the new cursor is.
LEMMA NextPage ==
    ASSUME TypeOK, NEW x \in Walking, Walked(x), x.pc = "list",
           NEW found \in SUBSET TaskIds,
           found = {t \in Committed : task[t].team = x.team /\ t >= x.cursor},
           NEW page \in Seq(found), NEW cursor \in found \cup {0}, NEW rows,
           Paged(found, rows, page, cursor)
    PROVE  LET y == [x EXCEPT !.pc = "comments", !.page = page, !.seen = @ \o page, !.cursor = cursor]
           IN  y \in Walking /\ Walked(y)
<1> DEFINE y == [x EXCEPT !.pc = "comments", !.page = page, !.seen = x.seen \o page, !.cursor = cursor]
<1>1. PICK k \in 0..Len(rows) :
        /\ rows \in Seq(found)
        /\ \A t \in found : \E i \in 1..Len(rows) : rows[i] = t
        /\ \A i, j \in 1..Len(rows) : i < j => rows[i] < rows[j]
        /\ page \in Seq(found) /\ Len(page) = k
        /\ \A i \in 1..k : page[i] = rows[i]
        /\ \/ cursor = 0 /\ k = Len(rows)
           \/ k < Len(rows) /\ cursor = rows[k + 1]
  BY DEF Paged
<1>2. /\ x.seen \in Seq(TaskIds) /\ page \in Seq(TaskIds) /\ Len(page) \in Nat /\ Len(rows) \in Nat /\ k \in Nat
      /\ x.cursor \in TaskIds \cup {0} /\ cursor \in TaskIds \cup {0}
  <2>1. page \in Seq(TaskIds)
    <3>1. \A i \in 1..Len(page) : page[i] \in TaskIds
      BY ElementOfSeq
    <3>2. page = [i \in 1..Len(page) |-> page[i]] /\ Len(page) \in Nat
      OBVIOUS
    <3> QED BY <3>1, <3>2
  <2> QED BY <1>1, <2>1 DEF Walking
<1>3. TaskIds \subseteq Nat /\ 0 \notin TaskIds /\ x.cursor \in Nat /\ cursor \in Nat
  <2>1. TaskIds \subseteq Nat /\ 0 \notin TaskIds
    BY NumbersAssumption
  <2>2. x.cursor \in Nat
    BY CursorIsNatural
  <2>3. cursor \in Nat
    BY <1>2, <2>1
  <2> QED BY <2>1, <2>2, <2>3
<1>4. \A i \in 1..Len(rows) : rows[i] \in found /\ rows[i] \in Nat /\ rows[i] >= x.cursor
  BY <1>1, <1>3, ElementOfSeq
<1>5. /\ \A i \in 1..k : i \in 1..Len(rows) /\ page[i] = rows[i] /\ page[i] \in found
                         /\ page[i] \in Nat /\ page[i] >= x.cursor
      /\ InOrder(page)
  <2>1. ASSUME NEW i \in 1..k
        PROVE  i \in 1..Len(rows) /\ page[i] = rows[i] /\ page[i] \in found /\ page[i] \in Nat /\ page[i] >= x.cursor
    <3>1. i \in 1..Len(rows) /\ page[i] = rows[i]
      BY <1>1, <1>2
    <3> QED BY <1>4, <3>1
  <2> QED BY <1>1, <2>1 DEF InOrder
<1>6. \A i \in 1..Len(x.seen) : x.seen[i] \in Nat /\ x.cursor # 0 /\ x.seen[i] < x.cursor
  <2> SUFFICES ASSUME NEW i \in 1..Len(x.seen)
               PROVE  x.seen[i] \in Nat /\ x.cursor # 0 /\ x.seen[i] < x.cursor
    OBVIOUS
  <2>1. x.seen # <<>>
    OBVIOUS
  <2>2. x.seen[i] \in TaskIds
    BY <1>2, ElementOfSeq
  <2> QED BY <1>3, <2>1, <2>2 DEF Walked
<1>7. ASSUME NEW i \in 1..Len(x.seen), NEW j \in 1..Len(page) PROVE x.seen[i] < page[j]
  <2>1. x.seen[i] \in Nat /\ x.seen[i] < x.cursor
    BY <1>6
  <2>2. page[j] \in Nat /\ page[j] >= x.cursor
    BY <1>1, <1>5
  <2> QED BY <1>3, <2>1, <2>2
<1> DEFINE all == x.seen \o page
<1>8. /\ all \in Seq(TaskIds) /\ InOrder(all)
      /\ \A i \in 1..Len(x.seen) : i \in 1..Len(all) /\ all[i] = x.seen[i]
      /\ \A i \in 1..Len(page) : Len(x.seen) + i \in 1..Len(all) /\ all[Len(x.seen) + i] = page[i]
      /\ \A i \in 1..Len(all) :
           \/ i \in 1..Len(x.seen) /\ all[i] = x.seen[i]
           \/ i - Len(x.seen) \in 1..Len(page) /\ all[i] = page[i - Len(x.seen)]
  <2>1. InOrder(x.seen)
    BY DEF Walked
  <2>2. /\ all \in Seq(TaskIds) /\ InOrder(all) /\ Len(all) = Len(x.seen) + Len(page)
        /\ \A i \in 1..Len(x.seen) : all[i] = x.seen[i]
        /\ \A i \in 1..Len(page) : all[Len(x.seen) + i] = page[i]
        /\ \A i \in 1..Len(all) :
             \/ i \in 1..Len(x.seen) /\ all[i] = x.seen[i]
             \/ i - Len(x.seen) \in 1..Len(page) /\ all[i] = page[i - Len(x.seen)]
    BY <1>2, <1>5, <1>7, <2>1, PagesFollow
  <2>3. Len(x.seen) \in Nat /\ Len(page) \in Nat
    BY <1>2
  <2> HIDE DEF all
  <2> QED BY <2>2, <2>3
<1> HIDE DEF all
<1>9. /\ y.pc = "comments" /\ y.page = page /\ y.seen = all /\ y.cursor = cursor
      /\ y.known = x.known /\ y.team = x.team /\ y.code = x.code
  BY DEF Walking, all
<1>10. y \in Walking
  BY <1>2, <1>8 DEF Walking, all
<1>11. ASSUME cursor # 0, NEW i \in 1..Len(all) PROVE all[i] < cursor
  <2>1. k < Len(rows) /\ cursor = rows[k + 1] /\ k + 1 \in 1..Len(rows)
    BY <1>1, <1>2, <1>11
  <2>2. cursor \in Nat /\ cursor >= x.cursor
    BY <1>4, <2>1
  <2>3. CASE i \in 1..Len(x.seen) /\ all[i] = x.seen[i]
    <3>1. x.seen[i] \in Nat /\ x.seen[i] < x.cursor
      BY <1>6, <2>3
    <3> QED BY <1>3, <2>2, <2>3, <3>1
  <2>4. CASE i - Len(x.seen) \in 1..Len(page) /\ all[i] = page[i - Len(x.seen)]
    <3> DEFINE j == i - Len(x.seen)
    <3>1. j \in 1..k /\ all[i] = page[j]
      BY <1>1, <2>4
    <3> HIDE DEF j
    <3>2. j \in 1..Len(rows) /\ page[j] = rows[j] /\ j < k + 1
      BY <1>2, <1>5, <3>1
    <3> QED BY <1>1, <2>1, <3>1, <3>2
  <2> QED BY <1>8, <2>3, <2>4
<1>12. ASSUME NEW t \in x.known PROVE Met(y, t) \/ (cursor # 0 /\ t >= cursor)
  <2>1. t \in Committed /\ task[t].team = x.team /\ (Met(x, t) \/ t >= x.cursor)
    BY DEF Walked
  <2>2. CASE Met(x, t)
    BY <1>8, <1>9, <2>2 DEF Met
  <2>3. CASE t >= x.cursor
    <3>1. t \in found
      BY <2>1, <2>3
    <3>2. PICK i \in 1..Len(rows) : rows[i] = t
      BY <1>1, <3>1
    <3>3. CASE i <= k
      <4>1. i \in 1..Len(page) /\ page[i] = t
        BY <1>1, <1>2, <3>2, <3>3
      <4> QED BY <1>8, <1>9, <4>1 DEF Met
    <3>4. CASE ~(i <= k)
      <4>1. cursor = rows[k + 1] /\ k + 1 \in 1..Len(rows) /\ (i = k + 1 \/ k + 1 < i)
        BY <1>1, <1>2, <3>4
      <4>2. rows[k + 1] \in Nat /\ rows[k + 1] \in TaskIds /\ t \in Nat
        BY <1>4, <3>2, <4>1
      <4>3. rows[k + 1] = t \/ rows[k + 1] < t
        BY <1>1, <3>2, <4>1
      <4> QED BY <1>3, <4>1, <4>2, <4>3
    <3> QED BY <3>3, <3>4
  <2> QED BY <2>1, <2>2, <2>3
<1> HIDE DEF y
<1>13. Walked(y)
  BY <1>5, <1>8, <1>9, <1>11, <1>12 DEF Walked
<1> QED BY <1>10, <1>13 DEF y

\* The last page may be empty.
LEMMA NoMorePages ==
    ASSUME TypeOK, NEW x \in Walking, Walked(x), x.pc = "list",
           {t \in Committed : task[t].team = x.team /\ t >= x.cursor} = {}
    PROVE  LET y == [x EXCEPT !.pc = "done", !.code = "ok", !.cursor = 0]
           IN  y \in Walking /\ Walked(y)
<1> DEFINE y == [x EXCEPT !.pc = "done", !.code = "ok", !.cursor = 0]
<1>1. /\ y.pc = "done" /\ y.page = x.page /\ y.seen = x.seen /\ y.cursor = 0
      /\ y.known = x.known /\ y.team = x.team /\ y.code = "ok" /\ y \in Walking
  BY DEF Walking
<1> HIDE DEF y
<1>2. ASSUME NEW t \in x.known PROVE Met(y, t)
  <2>1. t \in Committed /\ task[t].team = x.team /\ (Met(x, t) \/ t >= x.cursor)
    BY DEF Walked
  <2> QED BY <1>1, <2>1 DEF Met
<1>3. Walked(y)
  BY <1>1, <1>2 DEF Walked
<1> QED BY <1>1, <1>3 DEF y

LEMMA QuitWalk ==
    ASSUME NEW x \in Walking, Walked(x), x.pc # "idle"
    PROVE  LET y == [x EXCEPT !.pc = "done", !.code = "error"]
           IN  y \in Walking /\ Walked(y)
<1> DEFINE y == [x EXCEPT !.pc = "done", !.code = "error"]
<1>1. /\ y.pc = "done" /\ y.page = x.page /\ y.seen = x.seen /\ y.cursor = x.cursor
      /\ y.known = x.known /\ y.team = x.team /\ y.code = "error" /\ y \in Walking
  BY DEF Walking
<1> HIDE DEF y
<1>2. Walked(y)
  BY <1>1 DEF Walked
<1> QED BY <1>1, <1>2 DEF y
\* What the merge gave the tasks of the last page.
Grouped(x) ==
    \A t \in TaskIds :
        LET mine == {c \in x.fetched : c.task = t}
        IN  ToSet(x.merged[t]) = mine /\ Len(x.merged[t]) = Cardinality(mine)

LEMMA CommentsMerged ==
    ASSUME TypeOK, IsFiniteSet(comment), NEW page \in Seq(TaskIds), InOrder(page)
    PROVE  LET fetched == CommentsOf(ToSet(page))
               rows == Sorted(fetched)
               merged == Collect(page, TaskOf(rows), rows, NoComments)
           IN  /\ fetched \subseteq Comment
               /\ merged \in [TaskIds -> Seq(Comment)]
               /\ \A t \in TaskIds :
                    LET mine == {c \in fetched : c.task = t}
                    IN  ToSet(merged[t]) = mine /\ Len(merged[t]) = Cardinality(mine)
<1> DEFINE fetched == CommentsOf(ToSet(page))
           key == [c \in fetched |-> c.task]
           rows == OrderBy(fetched, key)
           keys == KeysOf(rows, key)
           merged == Collect(page, keys, rows, NoComments)
<1>1. fetched \subseteq Comment /\ IsFiniteSet(fetched)
  <2>1. fetched \in SUBSET comment
    BY DEF CommentsOf
  <2> QED BY <2>1, FS_Subset DEF TypeOK
<1>2. key \in [fetched -> Nat] /\ \A c \in fetched : key[c] = c.task /\ c.task \in ToSet(page)
  <2>1. \A c \in fetched : c.task \in TaskIds /\ c.task \in ToSet(page)
    BY <1>1 DEF Comment, CommentsOf
  <2> HIDE DEF fetched
  <2> QED BY <2>1, NumbersAssumption
<1>3. TaskIds \subseteq Nat /\ NoComments \in [TaskIds -> Seq(Comment)] /\ \A t \in TaskIds : NoComments[t] = <<>>
  BY NumbersAssumption, EmptySeq DEF NoComments
<1>4. \A i, k \in 1..Len(page) : i < k => page[i] < page[k]
  BY DEF InOrder
<1> HIDE DEF fetched, key
<1>5. /\ merged \in [TaskIds -> Seq(Comment)]
      /\ \A t \in TaskIds :
           LET mine == {c \in fetched : key[c] = t /\ t \in ToSet(page)}
           IN  ToSet(merged[t]) = mine /\ Len(merged[t]) = Cardinality(mine)
  <2>1. Fetched(TaskIds, Comment, page, fetched, key, NoComments)
    BY <1>1, <1>2, <1>3, <1>4 DEF Fetched
  <2>2. GroupedBy(TaskIds, Comment, page, fetched, key, merged)
    BY <2>1, MergeGroups
  <2> HIDE DEF merged
  <2> QED BY <2>2 DEF GroupedBy
<1>6. ASSUME NEW t \in TaskIds
      PROVE  {c \in fetched : key[c] = t /\ t \in ToSet(page)} = {c \in fetched : c.task = t}
  BY <1>2
<1>7. TaskOf(rows) = keys
  <2>1. rows \in Seq(fetched)
    <3>1. Arranged(key, fetched, rows)
      BY <1>1, <1>2, OrderByArranges
    <3> QED BY <3>1 DEF Arranged
  <2> HIDE DEF rows
  <2>2. \A i \in DOMAIN rows : rows[i] \in fetched /\ rows[i].task = key[rows[i]]
    BY <1>2, <2>1
  <2> QED BY <2>2 DEF TaskOf, KeysOf
<1>8. Sorted(fetched) = rows
  BY DEF Sorted, key
<1> HIDE DEF rows, keys
<1>9. Collect(page, TaskOf(Sorted(fetched)), Sorted(fetched), NoComments) = merged
  BY <1>7, <1>8
<1> HIDE DEF merged
<1>10. \A t \in TaskIds :
         LET mine == {c \in fetched : c.task = t}
         IN  ToSet(merged[t]) = mine /\ Len(merged[t]) = Cardinality(mine)
  BY <1>5, <1>6
<1> QED BY <1>1, <1>5, <1>9, <1>10 DEF fetched

\* The last page ends the walk.
LEMMA PageMerged ==
    ASSUME TypeOK, IsFiniteSet(comment), NEW w \in Walkers, WalkComments(w), Walked(walking[w])
    PROVE  \E y \in Walking : Walked(y) /\ Grouped(y) /\ walking' = [walking EXCEPT ![w] = y]
<1> DEFINE x == walking[w]
           fetched == CommentsOf(ToSet(x.page))
           merged == Collect(x.page, TaskOf(Sorted(fetched)), Sorted(fetched), NoComments)
           pc == IF x.cursor = 0 THEN "done" ELSE "list"
           code == IF x.cursor = 0 THEN "ok" ELSE "none"
           y == [x EXCEPT !.fetched = fetched, !.merged = merged, !.pc = pc, !.code = code]
<1>1. x \in Walking /\ walking \in [Walkers -> Walking] /\ x.page \in Seq(TaskIds) /\ InOrder(x.page)
  BY DEF TypeOK, Walking, Walked
<1>2. fetched \subseteq Comment /\ merged \in [TaskIds -> Seq(Comment)]
      /\ \A t \in TaskIds :
           LET mine == {c \in fetched : c.task = t}
           IN  ToSet(merged[t]) = mine /\ Len(merged[t]) = Cardinality(mine)
  <2> HIDE DEF x
  <2> QED BY <1>1, CommentsMerged
<1>3. walking' = [walking EXCEPT ![w].fetched = fetched, ![w].merged = merged, ![w].pc = pc, ![w].code = code]
      /\ x.pc = "comments"
  BY DEF WalkComments
<1> HIDE DEF fetched, merged
<1>4. walking' = [walking EXCEPT ![w] = y]
  BY <1>1, <1>3
<1>5. y \in Walking /\ y.fetched = fetched /\ y.merged = merged
  BY <1>1, <1>2 DEF Walking
<1>6. Grouped(y)
  <2> HIDE DEF y
  <2> QED BY <1>2, <1>5 DEF Grouped
<1>7. /\ y.pc = pc /\ y.code = code /\ y.page = x.page /\ y.seen = x.seen /\ y.cursor = x.cursor
      /\ y.known = x.known /\ y.team = x.team
  BY <1>1 DEF Walking
<1> HIDE DEF y
<1>8. Walked(y)
  <2>1. /\ InOrder(x.seen) /\ InOrder(x.page)
        /\ x.cursor # 0 => \A i \in 1..Len(x.seen) : x.seen[i] < x.cursor
        /\ \A t \in x.known : t \in Committed /\ task[t].team = x.team
        /\ \A t \in x.known : Met(x, t) \/ (x.cursor # 0 /\ t >= x.cursor)
    BY <1>3 DEF Walked
  <2>2. \A t : Met(y, t) <=> Met(x, t)
    BY <1>7 DEF Met
  <2> HIDE DEF x
  <2>3. CASE x.cursor = 0
    <3>1. y.pc = "done" /\ y.code = "ok"
      BY <1>7, <2>3
    <3> QED BY <1>7, <2>1, <2>2, <2>3, <3>1 DEF Walked
  <2>4. CASE x.cursor # 0
    <3>1. y.pc = "list" /\ y.code = "none"
      BY <1>7, <2>4
    <3> QED BY <1>7, <2>1, <2>2, <2>4, <3>1 DEF Walked
  <2> QED BY <2>3, <2>4
<1> QED BY <1>4, <1>5, <1>6, <1>8

-----------------------------------------------------------------------------
(* The invariant of the readers.                                           *)

FiniteRows(stored, adds) ==
    IsFiniteSet(stored) /\ \A a \in Adders : IsFiniteSet(adds[a].rows)

AllFinite == FiniteRows(comment, adding)

ReadingInv ==
    /\ TypeOK /\ ReaderInv /\ AllFinite
    /\ \A w \in Walkers : Walked(walking[w]) /\ Grouped(walking[w])

LEMMA InitReading == Init => ReadingInv
<1> SUFFICES ASSUME Init PROVE ReadingInv
  OBVIOUS
<1>1. TypeOK /\ ReaderInv
  BY InitTypes, InitReaders
<1>2. AllFinite
  <2>1. comment = {} /\ \A a \in Adders : adding[a].rows = {}
    BY DEF Init
  <2> QED BY <2>1, FS_EmptySet DEF AllFinite, FiniteRows
<1>3. ASSUME NEW w \in Walkers PROVE Walked(walking[w]) /\ Grouped(walking[w])
  <2> DEFINE x == walking[w]
  <2>1. /\ x.pc \in {"idle", "done"} /\ x.cursor = 0 /\ x.seen = <<>> /\ x.page = <<>>
        /\ x.merged = NoComments /\ x.known = {} /\ x.fetched = {} /\ x.code = "none"
    BY DEF Init
  <2> HIDE DEF x
  <2>2. Walked(x)
    BY <2>1 DEF Walked, InOrder
  <2>3. ASSUME NEW t \in TaskIds
        PROVE  x.merged[t] = <<>> /\ {c \in x.fetched : c.task = t} = {}
    BY <2>1 DEF NoComments
  <2>4. ToSet(<<>>) = {} /\ Len(<<>>) = 0 /\ Cardinality({}) = 0
    BY FS_EmptySet DEF ToSet
  <2>5. Grouped(x)
    BY <2>3, <2>4 DEF Grouped
  <2> QED BY <2>2, <2>5 DEF x
<1> QED BY <1>1, <1>2, <1>3 DEF ReadingInv

\* The rows of an INSERT are one for each number.
LEMMA StaysFinite == TypeOK /\ AllFinite /\ [Next]_vars => AllFinite'
<1> SUFFICES ASSUME TypeOK, AllFinite, [Next]_vars PROVE AllFinite'
  OBVIOUS
<1>1. DOMAIN adding = Adders
  BY DEF TypeOK
<1>2. ASSUME NEW a \in Adders, AddInsert(a) PROVE AllFinite'
  <2>1. PICK u \in Users, id \in TaskIds :
          LET n == Cardinality(Selected(u, id))
              row(i) == [id |-> lastComment + i, task |-> id, user |-> u,
                         entitled |-> id \in Committed /\ u \in task[id].editors]
          IN  IF n = 0 \/ id \notin Committed
              THEN /\ adding' = [adding EXCEPT ![a].pc = "done",
                                     ![a].code = IF n = 0 THEN "forbidden" ELSE "error"]
                   /\ UNCHANGED lastComment
              ELSE /\ adding' = [adding EXCEPT ![a].pc = "read", ![a].id = id, ![a].user = u,
                                     ![a].rows = {row(i) : i \in 1..n},
                                     ![a].first = lastComment + 1]
                   /\ lastComment' = lastComment + n
    BY <1>2 DEF AddInsert
  <2> DEFINE n == Cardinality(Selected(u, id))
             row(i) == [id |-> lastComment + i, task |-> id, user |-> u,
                        entitled |-> id \in Committed /\ u \in task[id].editors]
             rows == {row(i) : i \in 1..n}
  <2>2. IsFiniteSet(rows)
    <3>1. n \in Nat
      BY SelectedIsFinite
    <3> HIDE DEF n
    <3> DEFINE f == [i \in 1..n |-> row(i)]
    <3>2. f \in Surjection(1..n, rows)
      <4> HIDE DEF row
      <4> QED BY DEF Surjection
    <3>3. IsFiniteSet(1..n)
      <4>1. 1 \in Int /\ n \in Int
        BY <3>1
      <4> QED BY ONLY <4>1, FS_Interval
    <3> HIDE DEF f, rows
    <3> QED BY <3>2, <3>3, FS_Surjection
  <2>3. adding'[a].rows = adding[a].rows \/ adding'[a].rows = rows
    <3> HIDE DEF row, n
    <3>1. CASE n = 0 \/ id \notin Committed
      <4>1. adding' = [adding EXCEPT ![a].pc = "done", ![a].code = IF n = 0 THEN "forbidden" ELSE "error"]
        BY <2>1, <3>1 DEF n
      <4> QED BY <1>1, <4>1
    <3>2. CASE ~(n = 0 \/ id \notin Committed)
      <4>1. adding' = [adding EXCEPT ![a].pc = "read", ![a].id = id, ![a].user = u,
                                     ![a].rows = rows, ![a].first = lastComment + 1]
        BY <2>1, <3>2 DEF n, row
      <4> HIDE DEF rows
      <4> QED BY <1>1, <4>1
    <3> QED BY <3>1, <3>2
  <2>4. UNCHANGED comment /\ \A b \in Adders \ {a} : adding'[b] = adding[b]
    BY <1>1, <1>2, <2>1 DEF AddInsert
  <2> HIDE DEF rows
  <2> QED BY <2>2, <2>3, <2>4 DEF AllFinite, FiniteRows
<1>3. ASSUME NEW a \in Adders, AddRead(a) \/ AddCommit(a) \/ AddFail(a) PROVE AllFinite'
  <2>1. \A b \in Adders : adding'[b].rows = adding[b].rows
    <3>1. CASE AddRead(a)
      BY <1>1, <3>1 DEF AddRead
    <3>2. CASE AddCommit(a)
      <4>1. PICK code \in {"created", "error"} :
              adding' = [adding EXCEPT ![a].pc = "done", ![a].code = code]
        BY <3>2 DEF AddCommit
      <4> QED BY <1>1, <4>1
    <3>3. CASE AddFail(a)
      BY <1>1, <3>3 DEF AddFail
    <3> QED BY <1>3, <3>1, <3>2, <3>3
  <2>2. comment' = comment \/ comment' = comment \cup adding[a].rows
    BY <1>3 DEF AddRead, AddCommit, AddFail
  <2>3. IsFiniteSet(comment')
    BY <2>2, FS_Union DEF AllFinite, FiniteRows
  <2> QED BY <2>1, <2>3 DEF AllFinite, FiniteRows
<1>4. CASE UNCHANGED <<comment, adding>>
  <2>1. comment' = comment /\ adding' = adding
    BY <1>4
  <2> QED BY <2>1 DEF AllFinite
<1> QED BY <1>2, <1>3, <1>4
        DEF Next, vars, Quiet, Open, Publish, Alter, Get, GetTask, GetComments, GetHistory, GetFails,
            Walk, WalkList, WalkComments, WalkFails

\* Tasks appear, and keep their team.
LEMMA WalkStays ==
    ASSUME TypeOK, Open \/ Publish \/ Alter \/ UNCHANGED task, NEW x, Walked(x)
    PROVE  Walked(x)'
<1>1. ASSUME NEW t \in Committed PROVE t \in Committed' /\ task'[t].team = task[t].team
  <2>1. t \in TaskIds /\ task[t] \in Task /\ task[t] # NoTask
    BY DEF TypeOK, Committed
  <2>2. CASE Publish
    <3>1. PICK s \in issued \ Committed, m \in Teams, editors \in SUBSET Users \ {{}} :
            task' = [task EXCEPT ![s] = NewTask(m, editors)]
      BY <2>2 DEF Publish
    <3> QED BY <2>1, <3>1 DEF TypeOK, Committed
  <2>3. CASE Alter
    <3>1. PICK s \in Committed, editors \in SUBSET Users \ {{}} :
            task' = [task EXCEPT ![s].version = @ + 1, ![s].editors = editors]
      BY <2>3 DEF Alter
    <3> DEFINE row == [task[s] EXCEPT !.version = task[s].version + 1, !.editors = editors]
    <3>2. s \in TaskIds /\ task[s] \in Task
      BY DEF TypeOK, Committed
    <3>3. row \in Task /\ row.team = task[s].team
      <4>1. task[s].version + 1 \in Nat \ {0}
        BY <3>2 DEF Task
      <4> QED BY <3>2, <4>1 DEF Task
    <3>4. task' = [task EXCEPT ![s] = row]
      BY <3>1, <3>2 DEF TypeOK
    <3> HIDE DEF row
    <3>5. task'[t] = IF t = s THEN row ELSE task[t]
      BY <2>1, <3>4 DEF TypeOK
    <3> QED BY <2>1, <3>3, <3>5, NoTaskAssumption DEF Committed
  <2>4. CASE UNCHANGED task
    BY <2>4 DEF Committed
  <2> QED BY <2>2, <2>3, <2>4 DEF Open, Committed
<1> QED BY <1>1 DEF Walked, Met, InOrder
\* A walker's step keeps its walk.
LEMMA WalkerStep ==
    ASSUME ReadingInv, NEW w \in Walkers, Walk(w) \/ WalkList(w) \/ WalkComments(w) \/ WalkFails(w)
    PROVE  \E y \in Walking : Walked(y) /\ Grouped(y) /\ walking' = [walking EXCEPT ![w] = y]
<1> DEFINE x == walking[w]
<1>1. TypeOK /\ IsFiniteSet(comment) /\ x \in Walking /\ walking \in [Walkers -> Walking]
      /\ Walked(x) /\ Grouped(x)
  BY DEF ReadingInv, AllFinite, FiniteRows, TypeOK
<1>2. CASE Walk(w)
  <2> DEFINE known == {t \in Committed : task[t].team = x.team}
             y == [x EXCEPT !.pc = "list", !.known = known]
  <2>1. known \in SUBSET Committed /\ \A t \in known : task[t].team = x.team
    OBVIOUS
  <2>2. x.pc = "idle" /\ walking' = [walking EXCEPT ![w] = y]
    BY <1>1, <1>2 DEF Walk
  <2>3. y \in Walking /\ y.merged = x.merged /\ y.fetched = x.fetched
    BY <1>1 DEF Walking, Committed
  <2>4. Walked(y)
    <3> HIDE DEF x, known
    <3> QED BY <1>1, <2>1, <2>2, BeginWalk
  <2>5. Grouped(y)
    <3> HIDE DEF y
    <3> QED BY <1>1, <2>3 DEF Grouped
  <2> QED BY <2>2, <2>3, <2>4, <2>5
<1>3. CASE WalkList(w)
  <2>1. PICK y : PageRead(w, y) /\ walking' = [walking EXCEPT ![w] = y]
    BY <1>1, <1>3, ListReads
  <2>2. x.pc = "list"
    BY <1>3 DEF WalkList
  <2>3. Found(w) = {t \in Committed : task[t].team = x.team /\ t >= x.cursor} /\ Found(w) \in SUBSET TaskIds
    BY DEF Found, Committed
  <2>4. y \in Walking /\ Walked(y) /\ y.merged = x.merged /\ y.fetched = x.fetched
    <3>1. CASE y = [x EXCEPT !.pc = "done", !.code = "error"]
      <4>1. y.merged = x.merged /\ y.fetched = x.fetched
        BY <1>1, <3>1 DEF Walking
      <4> HIDE DEF x
      <4> QED BY <1>1, <2>2, <3>1, <4>1, QuitWalk
    <3>2. CASE Found(w) = {} /\ y = [x EXCEPT !.pc = "done", !.code = "ok", !.cursor = 0]
      <4>1. y.merged = x.merged /\ y.fetched = x.fetched
        BY <1>1, <3>2 DEF Walking
      <4> HIDE DEF x
      <4> QED BY <1>1, <2>2, <2>3, <3>2, <4>1, NoMorePages
    <3>3. CASE \E page \in Seq(Found(w)), cursor \in Found(w) \cup {0} :
                 /\ \E rows : Paged(Found(w), rows, page, cursor)
                 /\ y = [x EXCEPT !.pc = "comments", !.page = page, !.seen = @ \o page, !.cursor = cursor]
      <4>0. PICK page \in Seq(Found(w)), cursor \in Found(w) \cup {0} :
              /\ \E rows : Paged(Found(w), rows, page, cursor)
              /\ y = [x EXCEPT !.pc = "comments", !.page = page, !.seen = @ \o page, !.cursor = cursor]
        BY <3>3
      <4>1. PICK rows :
              /\ Paged(Found(w), rows, page, cursor)
              /\ y = [x EXCEPT !.pc = "comments", !.page = page, !.seen = @ \o page, !.cursor = cursor]
        BY <4>0
      <4>2. y.merged = x.merged /\ y.fetched = x.fetched
        BY <1>1, <4>1 DEF Walking
      <4> HIDE DEF x
      <4> QED BY <1>1, <2>2, <2>3, <4>1, <4>2, NextPage
    <3> QED BY <2>1, <3>1, <3>2, <3>3 DEF PageRead
  <2>5. Grouped(y)
    BY <1>1, <2>4 DEF Grouped
  <2> QED BY <2>1, <2>4, <2>5
<1>4. CASE WalkComments(w)
  BY <1>1, <1>4, PageMerged
<1>5. CASE WalkFails(w)
  <2> DEFINE y == [x EXCEPT !.pc = "done", !.code = "error"]
  <2>1. x.pc # "idle" /\ walking' = [walking EXCEPT ![w] = y]
    BY <1>1, <1>5 DEF WalkFails
  <2>2. y.merged = x.merged /\ y.fetched = x.fetched
    BY <1>1 DEF Walking
  <2>3. y \in Walking /\ Walked(y)
    <3> HIDE DEF x
    <3> QED BY <1>1, <2>1, QuitWalk
  <2>4. Grouped(y)
    <3> HIDE DEF y
    <3> QED BY <1>1, <2>2 DEF Grouped
  <2> QED BY <2>1, <2>3, <2>4
<1> QED BY <1>2, <1>3, <1>4, <1>5

LEMMA ReadingStep == ReadingInv /\ [Next]_vars => ReadingInv'
<1> SUFFICES ASSUME ReadingInv, [Next]_vars PROVE ReadingInv'
  OBVIOUS
<1>1. TypeOK /\ ReaderInv /\ AllFinite /\ ReaderInv' /\ AllFinite'
  BY ReaderStep, StaysFinite DEF ReadingInv
<1>2. \A w \in Walkers : Walked(walking[w]) /\ Grouped(walking[w])
  BY DEF ReadingInv
<1>3. ASSUME TypeOK', UNCHANGED walking, Open \/ Publish \/ Alter \/ UNCHANGED task PROVE ReadingInv'
  <2>1. ASSUME NEW w \in Walkers PROVE Walked(walking[w])' /\ Grouped(walking[w])'
    <3>1. PICK x : x = walking[w] /\ x = walking'[w] /\ Walked(x) /\ Grouped(x)
      BY <1>2, <1>3
    <3>2. Walked(x)'
      BY <1>1, <1>3, <3>1, WalkStays
    <3> QED BY <3>1, <3>2 DEF Grouped, Walked, Met
  <2> QED BY <1>1, <1>3, <2>1 DEF ReadingInv
<1>4. CASE Open \/ Publish \/ Alter
  <2>1. TypeOK' /\ UNCHANGED walking
    BY <1>1, <1>4, TasksTyped DEF Open, Publish, Alter
  <2> QED BY <1>3, <1>4, <2>1
<1>5. ASSUME NEW a \in Adders, AddInsert(a) \/ AddRead(a) \/ AddCommit(a) \/ AddFail(a)
      PROVE  ReadingInv'
  <2>1. TypeOK' /\ UNCHANGED <<task, walking>>
    BY <1>1, <1>5, AddersTyped DEF AddInsert, AddRead, AddCommit, AddFail
  <2> QED BY <1>3, <2>1
<1>6. ASSUME NEW g \in Getters, Get(g) \/ GetTask(g) \/ GetComments(g) \/ GetHistory(g) \/ GetFails(g)
      PROVE  ReadingInv'
  <2>1. TypeOK' /\ UNCHANGED <<task, walking>>
    BY <1>1, <1>6, GettersTyped DEF Get, GetTask, GetComments, GetHistory, GetFails
  <2> QED BY <1>3, <2>1
<1>7. ASSUME NEW w \in Walkers, Walk(w) \/ WalkList(w) \/ WalkComments(w) \/ WalkFails(w)
      PROVE  ReadingInv'
  <2>1. PICK y \in Walking : Walked(y) /\ Grouped(y) /\ walking' = [walking EXCEPT ![w] = y]
    BY <1>7, WalkerStep
  <2>2. UNCHANGED <<task, issued, comment, lastComment, adding, getting>>
    BY <1>7 DEF Walk, WalkList, WalkComments, WalkFails
  <2>3. walking' \in [Walkers -> Walking] /\ TypeOK'
    BY <1>1, <2>1, <2>2 DEF TypeOK, Committed
  <2>4. ASSUME NEW v \in Walkers PROVE Walked(walking[v])' /\ Grouped(walking[v])'
    <3>1. PICK x : x = walking'[v] /\ Walked(x) /\ Grouped(x)
      BY <1>1, <1>2, <2>1 DEF TypeOK
    <3>2. Walked(x)'
      BY <1>1, <2>2, <3>1, WalkStays
    <3> QED BY <3>1, <3>2 DEF Grouped, Walked, Met
  <2> QED BY <1>1, <2>3, <2>4 DEF ReadingInv
<1>8. CASE UNCHANGED vars
  <2>1. TypeOK' /\ UNCHANGED <<task, walking>>
    BY <1>1, <1>8 DEF vars, TypeOK, Committed
  <2> QED BY <1>3, <2>1
<1> QED BY <1>4, <1>5, <1>6, <1>7, <1>8 DEF Next, Quiet

\* Every part of the state keeps its form.
THEOREM ReadingIsTyped == Spec => []TypeOK
<1>1. ReadingInv => TypeOK
  BY DEF ReadingInv
<1> QED BY <1>1, InitReading, ReadingStep, PTL DEF Spec

\* A client that walks through GET /tasks to its end meets every task that was there
\* when it began, each once and in order.
THEOREM WalksMissNothing == Spec => []WalksAreComplete
<1>1. ASSUME ReadingInv, NEW w \in Walkers
      PROVE  LET x == walking[w]
             IN  /\ x.code = "ok" => x.known \subseteq ToSet(x.seen)
                 /\ \A i, j \in DOMAIN x.seen : i < j => x.seen[i] < x.seen[j]
  <2> DEFINE x == walking[w]
  <2>1. Walked(x) /\ x.seen \in Seq(TaskIds)
    BY <1>1 DEF ReadingInv, TypeOK, Walking
  <2> HIDE DEF x
  <2>2. DOMAIN x.seen = 1..Len(x.seen)
    BY <2>1
  <2>3. \A t : Met(x, t) => t \in ToSet(x.seen)
    BY <2>2 DEF Met, ToSet
  <2> QED BY <2>1, <2>2, <2>3 DEF Walked, InOrder, x
<1>2. ReadingInv => WalksAreComplete
  BY <1>1 DEF WalksAreComplete
<1> QED BY <1>2, InitReading, ReadingStep, PTL DEF Spec

\* The merge of a page with its comments gives each task its own.
THEOREM PagesKeepTheirComments == Spec => []PagesAreGrouped
<1>1. ReadingInv => PagesAreGrouped
  BY DEF ReadingInv, Grouped, PagesAreGrouped
<1> QED BY <1>1, InitReading, ReadingStep, PTL DEF Spec
=============================================================================
