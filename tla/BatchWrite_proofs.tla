--------------------------- MODULE BatchWrite_proofs ---------------------------
(***************************************************************************)
(* Proofs about BatchWrite, for any number of connections, any set of      *)
(* drivers and vectors of any size.                                        *)
(*                                                                         *)
(* The database is used through four kinds of statement, and a proof about *)
(* a call needs of each only what its answers have in common: the lemmas   *)
(* on Begin, Commit, Rollback, Write and Prepare say that.  IInv then      *)
(* follows a row from the call that names it, through the session that     *)
(* wrote it, to where it is durable (Apart), and says what holds of a      *)
(* batch at each of its statements (BatchInv).                             *)
(***************************************************************************)
EXTENDS BatchWrite, TLAPS

\* What is so of every session, whoever uses it.
SessionInv(s) ==
  /\ s.txn = "none" => s.work = {}
  /\ ~s.alive => s.txn = "none"
  /\ s.txn = "failed" => driver = "postgresql"

\* The rows that a batch has still to write.
Left(c) ==
  IF pc[c] = "rollback" THEN {}
  ELSE batch[c].first + batch[c].next .. batch[c].first + batch[c].size - 1

\* How far a call is: its rows have been named, and it is inside its vector.
ShapeOf(c) ==
  /\ pc[c] = "idle" => batch[c] = NoBatch
  /\ pc[c] \in {"prepare", "begin"} => batch[c].rows = {}
  /\ pc[c] # "idle" => /\ batch[c].first > 0
                       /\ batch[c].first + batch[c].size <= used + 1
                       /\ batch[c].next <= batch[c].size

\* The rows a connection has written and not made durable, or is to write.
Touched(c) == session[c].work \cup batch[c].rows \cup Left(c)

\* A row is durable, in the session's transaction or still to be written, but
\* not two of these.
ApartOf(c) ==
  /\ SessionInv(session[c])
  /\ Touched(c) \subseteq 1..used
  /\ session[c].work \cap db = {}
  /\ Left(c) \cap (db \cup session[c].work \cup batch[c].rows) = {}

\* What a batch has done, when it began a transaction ...
Began(c) ==
  /\ Transacted(c)
  /\ pc[c] \in {"item", "rollback"} \/ (pc[c] = "prepare" /\ driver = "postgresql")
  /\ batch[c].rows \cap db = {}
  /\ pc[c] # "rollback" /\ session[c].alive =>
       session[c].txn = "open" /\ batch[c].rows \subseteq session[c].work
  /\ driver = "sqlite" => session[c].work \subseteq batch[c].rows

\* ... and when it did not.
Plain(c) ==
  ~user_txn[c] /\ c \notin astray =>
    session[c].txn = "none" /\ batch[c].rows \subseteq db

BatchOf(c) ==
  /\ batch[c].begun => Began(c)
  /\ ~batch[c].begun => Plain(c)
  /\ pc[c] = "item" \/ (pc[c] = "prepare" /\ driver = "postgresql") =>
       (Transacted(c) => batch[c].begun)
  /\ driver = "mysql_async" /\ batch[c].error => has_error_[c]

\* The connections together: no two have a row in common.
Shape == \A c \in Conns : ShapeOf(c)
Apart == /\ db \subseteq 1..used
         /\ \A c \in Conns : ApartOf(c)
         /\ \A c, d \in Conns : c # d => Touched(c) \cap Touched(d) = {}
BatchInv == \A c \in Conns : BatchOf(c)

\* What the application has been told is so.
Told == void = {} /\ ConfirmedIsStored

\* IInv in two parts, of which only the second needs that no call of
\* set_enable_transaction() meets a running batch.
Rows == TypeOK /\ Shape /\ Apart

IInv == Rows /\ BatchInv /\ Told

-----------------------------------------------------------------------------
(* The statements                                                          *)

SessionType == [alive : BOOLEAN, txn : {"none", "open", "failed"}, work : SUBSET Row]

\* What all answers to a statement of c have in common that may write the rows
\* in new.
Sound(c, a, new) ==
  /\ a.ok \in BOOLEAN
  /\ a.session \in SessionType /\ SessionInv(a.session)
  /\ a.durable \subseteq session[c].work \cup new
  /\ a.session.work \subseteq session[c].work \cup new
  /\ a.durable \cap a.session.work = {}
  /\ a.ok => session[c].alive /\ a.session.alive
  /\ session[c].txn = "none" => a.session.txn = "none" \/ a.ok

\* The connection breaks, or is broken: the transaction is gone.
LEMMA BrokenAnswers ==
  ASSUME NEW durable, NEW a, a \in Broken(durable) \/ a \in Dead
  PROVE  /\ a.ok = FALSE /\ (a.durable = {} \/ a.durable = durable)
         /\ a.session \in SessionType /\ SessionInv(a.session)
         /\ a.session.alive = FALSE /\ a.session.txn = "none" /\ a.session.work = {}
         /\ a.durable = {} \/ driver # "sqlite"
  <1>1. /\ NoSession \in SessionType /\ SessionInv(NoSession)
        /\ NoSession.alive = FALSE /\ NoSession.txn = "none" /\ NoSession.work = {}
    BY DEF NoSession, SessionType, SessionInv
  <1>2. CASE a \in Dead
    BY <1>1, <1>2 DEF Dead, Answer
  <1>3. CASE a \in Broken(durable)
    <2>1. driver # "sqlite" /\ \E rows \in {{}, durable} : a = Answer(FALSE, NoSession, rows)
      BY <1>3 DEF Broken
    <2>2. QED
      BY <1>1, <2>1 DEF Answer
  <1>4. QED
    BY <1>2, <1>3

LEMMA SessionKept ==
  ASSUME TypeOK, NEW c \in Conns
  PROVE  session[c] \in SessionType
  BY DEF TypeOK, SessionType

LEMMA TxnOf ==
  ASSUME NEW s \in SessionType, NEW txn \in {"none", "open", "failed"},
         NEW work \in SUBSET Row
  PROVE  /\ Txn(s, txn, work) \in SessionType
         /\ Txn(s, txn, work).alive = s.alive
         /\ Txn(s, txn, work).txn = txn
         /\ Txn(s, txn, work).work = work
  BY DEF Txn, SessionType

LEMMA SessionLeft ==
  ASSUME TypeOK, NEW c \in Conns, SessionInv(session[c])
  PROVE  \A work \in SUBSET Row :
           LET t == Txn(session[c], "none", {})
               u == Txn(session[c], "open", work)
               v == Txn(session[c], "failed", work)
           IN  /\ t \in SessionType /\ SessionInv(t)
               /\ t.alive = session[c].alive /\ t.txn = "none" /\ t.work = {}
               /\ u \in SessionType /\ v \in SessionType
               /\ session[c].alive => SessionInv(u)
               /\ session[c].alive /\ driver = "postgresql" => SessionInv(v)
               /\ u.alive = session[c].alive /\ u.txn = "open" /\ u.work = work
               /\ v.alive = session[c].alive /\ v.txn = "failed" /\ v.work = work
  BY SessionKept, TxnOf DEF SessionInv

LEMMA BeginAnswers ==
  ASSUME TypeOK, NEW c \in Conns, SessionInv(session[c]),
         NEW a \in Replies(c, Begin(session[c]), session[c].work)
  PROVE  /\ Sound(c, a, {})
         /\ a.ok => a.session.txn = "open"
         /\ ~a.ok => a.session.txn \in {"none", session[c].txn}
         /\ driver = "sqlite" => a.durable = {} /\ (a.ok => a.session.work = {})
  <1> DEFINE s == session[c]
             t == Txn(s, "open", {})
  <1>1. s \in SessionType /\ s.work \in SUBSET Row
    BY SessionKept DEF SessionType
  <1>2. CASE a \in Broken(s.work) \/ a \in Dead
    BY <1>2, BrokenAnswers DEF Sound
  <1>3. CASE s.alive /\ a \in Begin(s)
    <2>1. t \in SessionType /\ SessionInv(t) /\ t.alive /\ t.txn = "open" /\ t.work = {}
      BY <1>1, <1>3, SessionLeft
    <2> HIDE DEF t
    <2>2. CASE /\ s.txn = "none" \/ (s.txn = "open" /\ driver \in {"mysql", "mysql_async"})
               /\ \E rows \in {{}, s.work} : a = Answer(TRUE, t, rows)
               /\ driver = "sqlite" => a = Answer(TRUE, t, {})
      <3>1. /\ a.ok = TRUE /\ a.session = t /\ a.durable \in {{}, s.work}
            /\ driver = "sqlite" => a.durable = {}
        BY <2>2 DEF Answer
      <3>2. Sound(c, a, {})
        BY <1>1, <1>3, <2>1, <3>1 DEF Sound
      <3>3. QED
        BY <2>1, <3>1, <3>2
    <2>3. CASE \/ s.txn = "open" /\ driver = "postgresql" /\ a = Answer(TRUE, s, {})
               \/ a = Answer(FALSE, s, {})
      <3>1. /\ a.ok \in BOOLEAN /\ a.session = s /\ a.durable = {}
            /\ a.ok => s.txn = "open" /\ driver = "postgresql"
        <4>1. CASE s.txn = "open" /\ driver = "postgresql" /\ a = Answer(TRUE, s, {})
          BY <4>1 DEF Answer
        <4>2. CASE a = Answer(FALSE, s, {})
          BY <4>2 DEF Answer
        <4>3. QED
          BY <2>3, <4>1, <4>2
      <3>2. Sound(c, a, {})
        BY <1>1, <1>3, <3>1 DEF Sound
      <3>3. QED
        BY <3>1, <3>2
    <2>4. QED
      BY <1>1, <1>3, <2>2, <2>3 DEF Begin, t
  <1>4. QED
    BY <1>2, <1>3 DEF Replies

LEMMA CommitAnswers ==
  ASSUME TypeOK, NEW c \in Conns, SessionInv(session[c]),
         NEW a \in Replies(c, Commit(session[c]), session[c].work)
  PROVE  /\ Sound(c, a, {})
         /\ a.ok => a.session.txn = "none"
         /\ a.ok /\ session[c].txn # "failed" => session[c].work \subseteq a.durable
         /\ ~a.ok => a.session.txn \in {"none", session[c].txn}
         /\ a.ok \/ ~a.session.alive \/ a.durable = {}
  <1> DEFINE s == session[c]
             t == Txn(s, "none", {})
  <1>1. s \in SessionType /\ s.work \in SUBSET Row
    BY SessionKept DEF SessionType
  <1>2. CASE a \in Broken(s.work) \/ a \in Dead
    BY <1>2, BrokenAnswers DEF Sound
  <1>3. CASE s.alive /\ a \in Commit(s)
    <2>1. t \in SessionType /\ SessionInv(t) /\ t.alive /\ t.txn = "none" /\ t.work = {}
      BY <1>1, <1>3, SessionLeft
    <2> HIDE DEF t
    <2>2. CASE \/ a = Answer(TRUE, t, s.work)
               \/ s.txn = "failed" /\ a = Answer(TRUE, t, {})
               \/ a = Answer(FALSE, t, {})
      <3>1. /\ a.ok \in BOOLEAN /\ a.session = t /\ a.durable \in {{}, s.work}
            /\ a.ok => s.txn = "failed" \/ a.durable = s.work
            /\ a.ok \/ a.durable = {}
        <4>1. CASE a = Answer(TRUE, t, s.work)
          BY <4>1 DEF Answer
        <4>2. CASE s.txn = "failed" /\ a = Answer(TRUE, t, {})
          BY <4>2 DEF Answer
        <4>3. CASE a = Answer(FALSE, t, {})
          BY <4>3 DEF Answer
        <4>4. QED
          BY <2>2, <4>1, <4>2, <4>3
      <3>2. Sound(c, a, {})
        BY <1>1, <1>3, <2>1, <3>1 DEF Sound
      <3>3. QED
        BY <2>1, <3>1, <3>2
    <2>3. CASE \/ s.txn = "none" /\ a = Answer(driver # "sqlite", s, {})
               \/ a = Answer(FALSE, s, {})
      <3>1. /\ a.ok \in BOOLEAN /\ a.session = s /\ a.durable = {}
            /\ a.ok => s.txn = "none"
        <4>1. CASE s.txn = "none" /\ a = Answer(driver # "sqlite", s, {})
          BY <4>1 DEF Answer
        <4>2. CASE a = Answer(FALSE, s, {})
          BY <4>2 DEF Answer
        <4>3. QED
          BY <2>3, <4>1, <4>2
      <3>2. Sound(c, a, {})
        BY <1>1, <1>3, <3>1 DEF Sound
      <3>3. QED
        BY <3>1, <3>2 DEF SessionInv
    <2>4. s.txn \in {"none", "open", "failed"}
      BY <1>1 DEF SessionType
    <2>5. QED
      BY <1>3, <2>2, <2>3, <2>4 DEF Commit, t
  <1>4. QED
    BY <1>2, <1>3 DEF Replies

LEMMA RollbackAnswers ==
  ASSUME TypeOK, NEW c \in Conns, SessionInv(session[c]),
         NEW a \in Replies(c, Rollback(session[c]), {})
  PROVE  /\ Sound(c, a, {})
         /\ a.session.txn = "none" /\ a.session.work = {} /\ a.durable = {}
  <1> DEFINE s == session[c]
             t == Txn(s, "none", {})
  <1>1. t \in SessionType /\ SessionInv(t) /\ t.alive = s.alive /\ t.txn = "none" /\ t.work = {}
    BY SessionLeft
  <1>2. CASE a \in Broken({}) \/ a \in Dead
    BY <1>2, BrokenAnswers DEF Sound
  <1>3. CASE s.alive /\ a \in Rollback(s)
    <2> HIDE DEF t
    <2>1. a = Answer(s.txn # "none" \/ driver # "sqlite", t, {})
      BY <1>3 DEF Rollback, t
    <2>2. a.ok \in BOOLEAN /\ a.session = t /\ a.durable = {}
      BY <2>1 DEF Answer
    <2>3. Sound(c, a, {})
      BY <1>1, <1>3, <2>2 DEF Sound
    <2>4. QED
      BY <1>1, <2>2, <2>3
  <1>4. QED
    BY <1>2, <1>3 DEF Replies

LEMMA WriteAnswers ==
  ASSUME TypeOK, NEW c \in Conns, SessionInv(session[c]), NEW row \in Row,
         NEW a \in Replies(c, Write(session[c], row), Autocommitted(c, row))
  PROVE  /\ Sound(c, a, {row})
         /\ a.durable \subseteq {row}
         /\ session[c].txn # "none" => a.durable = {}
         /\ session[c].txn = "none" => a.session.txn = "none"
         /\ a.ok => a.session.txn = session[c].txn /\ session[c].work \subseteq a.session.work
         /\ ~a.ok => a.session.work \subseteq session[c].work
  <1> DEFINE s == session[c]
  <1>1. s \in SessionType /\ s.work \in SUBSET Row /\ s.txn \in {"none", "open", "failed"}
    BY SessionKept DEF SessionType
  <1>2. CASE a \in Broken(Autocommitted(c, row)) \/ a \in Dead
    <2>1. /\ Autocommitted(c, row) \subseteq {row}
          /\ s.txn # "none" => Autocommitted(c, row) = {}
      BY DEF Autocommitted
    <2>2. /\ a.ok = FALSE /\ a.session \in SessionType /\ SessionInv(a.session)
          /\ a.session.txn = "none" /\ a.session.work = {}
          /\ a.durable = {} \/ a.durable = Autocommitted(c, row)
      BY <1>2, BrokenAnswers
    <2>3. QED
      BY <2>1, <2>2 DEF Sound
  <1>3. CASE s.alive /\ a \in Write(s, row)
    <2>1. CASE \/ s.txn = "none" /\ a \in {Answer(TRUE, s, {row}), Answer(TRUE, s, {})}
               \/ a = Answer(FALSE, s, {})
      <3>1. /\ a.ok \in BOOLEAN /\ a.session = s /\ a.durable \in {{}, {row}}
            /\ s.txn = "none" \/ a.durable = {}
            /\ s.txn = "none" \/ ~a.ok
        <4>1. CASE s.txn = "none" /\ a = Answer(TRUE, s, {row})
          BY <4>1 DEF Answer
        <4>2. CASE s.txn = "none" /\ a = Answer(TRUE, s, {})
          BY <4>2 DEF Answer
        <4>3. CASE a = Answer(FALSE, s, {})
          BY <4>3 DEF Answer
        <4>4. QED
          BY <2>1, <4>1, <4>2, <4>3
      <3>2. s.txn = "none" => s.work = {}
        BY DEF SessionInv
      <3>3. Sound(c, a, {row})
        BY <1>1, <1>3, <3>1, <3>2 DEF Sound
      <3>4. QED
        BY <3>1, <3>3
    <2>2. CASE s.txn = "open" /\ \E rows \in {{row}, {}} :
                 a = Answer(TRUE, [s EXCEPT !.work = @ \cup rows], {})
      <3>1. PICK rows \in {{row}, {}} : a = Answer(TRUE, [s EXCEPT !.work = @ \cup rows], {})
        BY <2>2
      <3> DEFINE t == [s EXCEPT !.work = @ \cup rows]
      <3>2. /\ t \in SessionType /\ t.work = s.work \cup rows
            /\ t.txn = s.txn /\ t.alive = s.alive
        BY <1>1, <3>1 DEF SessionType
      <3>3. SessionInv(t)
        BY <1>3, <2>2, <3>2 DEF SessionInv
      <3>4. a.ok = TRUE /\ a.session = t /\ a.durable = {}
        BY <3>1 DEF Answer
      <3> HIDE DEF t
      <3>5. Sound(c, a, {row})
        BY <1>3, <2>2, <3>2, <3>3, <3>4 DEF Sound
      <3>6. QED
        BY <2>2, <3>2, <3>4, <3>5
    <2>3. CASE /\ s.txn = "open"
               /\ \/ driver = "postgresql" /\ a = Answer(FALSE, Txn(s, "failed", s.work), {})
                  \/ a = Answer(FALSE, Txn(s, "none", {}), {})
      <3> DEFINE t == a.session
      <3>1. /\ a.ok = FALSE /\ a.durable = {}
            /\ \/ driver = "postgresql" /\ t = Txn(s, "failed", s.work)
               \/ t = Txn(s, "none", {})
        BY <2>3 DEF Answer
      <3>2. /\ t \in SessionType /\ SessionInv(t)
            /\ \/ driver = "postgresql" /\ t.work = s.work
               \/ t.txn = "none" /\ t.work = {}
        BY <1>1, <1>3, <3>1, SessionLeft
      <3>3. Sound(c, a, {row})
        BY <2>3, <3>1, <3>2 DEF Sound
      <3>4. QED
        BY <2>3, <3>1, <3>2, <3>3
    <2>4. QED
      BY <1>1, <1>3, <2>1, <2>2, <2>3 DEF Write
  <1>4. QED
    BY <1>2, <1>3 DEF Replies

LEMMA PrepareAnswers ==
  ASSUME TypeOK, NEW c \in Conns, SessionInv(session[c]),
         NEW a \in Replies(c, Prepare(session[c]), {})
  PROVE  /\ Sound(c, a, {})
         /\ a.durable = {}
         /\ a.ok => a.session = session[c]
         /\ session[c].txn = "none" => a.session.txn = "none"
  <1> DEFINE s == session[c]
             t == Txn(s, "failed", s.work)
  <1>1. s \in SessionType /\ s.work \in SUBSET Row
    BY SessionKept DEF SessionType
  <1>2. CASE a \in Broken({}) \/ a \in Dead
    BY <1>2, BrokenAnswers DEF Sound
  <1>3. CASE s.alive /\ a \in Prepare(s)
    <2>1. CASE a = Answer(s.txn # "failed", s, {}) \/ a = Answer(FALSE, s, {})
      <3>1. a.ok \in BOOLEAN /\ a.session = s /\ a.durable = {}
        <4>1. CASE a = Answer(s.txn # "failed", s, {})
          BY <4>1 DEF Answer
        <4>2. CASE a = Answer(FALSE, s, {})
          BY <4>2 DEF Answer
        <4>3. QED
          BY <2>1, <4>1, <4>2
      <3>2. Sound(c, a, {})
        BY <1>1, <1>3, <3>1 DEF Sound
      <3>3. QED
        BY <3>1, <3>2
    <2>2. CASE driver = "postgresql" /\ s.txn # "none" /\ a = Answer(FALSE, t, {})
      <3>1. t \in SessionType /\ SessionInv(t) /\ t.alive /\ t.txn = "failed" /\ t.work = s.work
        BY <1>1, <1>3, <2>2, SessionLeft
      <3> HIDE DEF t
      <3>2. a.ok = FALSE /\ a.session = t /\ a.durable = {}
        BY <2>2 DEF Answer
      <3>3. Sound(c, a, {})
        BY <2>2, <3>1, <3>2 DEF Sound
      <3>4. QED
        BY <2>2, <3>1, <3>2, <3>3
    <2>3. QED
      BY <1>3, <2>1, <2>2 DEF Prepare
  <1>4. QED
    BY <1>2, <1>3 DEF Replies

-----------------------------------------------------------------------------
(* One connection at a time                                                *)

\* A step of c leaves the other connections alone.
Alone(c) ==
  \A d \in Conns \ {c} :
    /\ pc'[d] = pc[d] /\ batch'[d] = batch[d] /\ session'[d] = session[d]
    /\ user_txn'[d] = user_txn[d] /\ (d \in astray' <=> d \in astray)
    /\ driver = "mysql_async" => has_error_'[d] = has_error_[d]

\* New rows have new names: the rows that come with a step of c.
Named == used + 1 .. used'

\* A step of c touches its own rows only.
OwnStep(c) ==
  /\ Alone(c)
  /\ driver' = driver /\ used' \in Nat /\ used <= used'
  /\ db \subseteq db' /\ db' \subseteq db \cup Touched(c) \cup Named
  /\ Touched(c)' \subseteq Touched(c) \cup Named

\* What a step of c leaves of the rows of c.
LeftApart(c) ==
  /\ SessionInv(session[c])
  /\ session[c].work \cap db = {}
  /\ Left(c) \cap (db \cup session[c].work \cup batch[c].rows) = {}

LEMMA OthersApart ==
  ASSUME Rows, NEW c \in Conns, OwnStep(c)
  PROVE  /\ used \in Nat /\ 1..used \subseteq 1..used' /\ Named \subseteq 1..used'
         /\ Named \cap 1..used = {}
         /\ \A d \in Conns \ {c} :
              /\ Touched(d)' = Touched(d) /\ Left(d)' = Left(d)
              /\ Touched(d) \cap (Touched(c) \cup Named) = {}
              /\ Touched(d) \cap db' \subseteq db
  <1>1. used \in Nat /\ used' \in Nat /\ used <= used'
    BY DEF Rows, TypeOK, OwnStep
  <1>2. /\ 1..used \subseteq 1..used' /\ Named \subseteq 1..used'
        /\ Named \cap 1..used = {}
    BY <1>1 DEF Named
  <1>3. ASSUME NEW d \in Conns \ {c}
        PROVE  /\ Touched(d)' = Touched(d) /\ Left(d)' = Left(d)
               /\ Touched(d) \cap (Touched(c) \cup Named) = {}
               /\ Touched(d) \cap db' \subseteq db
    <2>1. Touched(d)' = Touched(d) /\ Left(d)' = Left(d)
      BY <1>3 DEF OwnStep, Alone, Touched, Left
    <2>2. Touched(d) \cap Touched(c) = {} /\ Touched(d) \subseteq 1..used
      BY <1>3 DEF Rows, Apart, ApartOf
    <2>3. QED
      BY <1>2, <2>1, <2>2 DEF OwnStep
  <1>4. QED
    BY <1>1, <1>2, <1>3

LEMMA RowsKept ==
  ASSUME Rows, NEW c \in Conns, OwnStep(c), ShapeOf(c)', LeftApart(c)'
  PROVE  Shape' /\ Apart'
  <1>1. \A d \in Conns : Touched(d) \subseteq 1..used /\ SessionInv(session[d])
                           /\ ShapeOf(d) /\ ApartOf(d)
    BY DEF Rows, Apart, ApartOf, Shape
  <1>2. db' \subseteq 1..used' /\ Touched(c)' \subseteq 1..used'
    BY <1>1, OthersApart DEF Rows, Apart, OwnStep
  <1>3. Shape'
    <2>1. ASSUME NEW d \in Conns, d # c
          PROVE  ShapeOf(d)'
      <3>1. ShapeOf(d) /\ batch[d].first + batch[d].size \in Int
        BY <1>1 DEF Rows, TypeOK
      <3>2. used \in Nat /\ used' \in Nat /\ used <= used'
        BY OthersApart DEF OwnStep
      <3>3. QED
        BY <2>1, <3>1, <3>2 DEF ShapeOf, OwnStep, Alone
    <2>2. QED
      BY <2>1 DEF Shape
  <1>4. ASSUME NEW d \in Conns, d # c
        PROVE  ApartOf(d)'
    <2>1. ApartOf(d) /\ session'[d] = session[d] /\ batch'[d] = batch[d]
      BY <1>1, <1>4 DEF OwnStep, Alone
    <2>2. /\ Touched(d)' = Touched(d) /\ Left(d)' = Left(d)
          /\ Touched(d) \cap db' \subseteq db /\ 1..used \subseteq 1..used'
      BY <1>4, OthersApart
    <2>3. SessionInv(session[d])'
      BY <2>1 DEF ApartOf, SessionInv, OwnStep
    <2>4. Touched(d)' \subseteq 1..used'
      BY <1>1, <2>2
    <2>5. (session[d].work \cap db = {})'
      BY <2>1, <2>2 DEF ApartOf, Touched
    <2>6. (Left(d) \cap (db \cup session[d].work \cup batch[d].rows) = {})'
      BY <2>1, <2>2 DEF ApartOf, Touched
    <2>7. QED
      BY <2>3, <2>4, <2>5, <2>6 DEF ApartOf
  <1>5. ApartOf(c)'
    BY <1>2 DEF ApartOf, LeftApart
  <1>6. ASSUME NEW d \in Conns, NEW e \in Conns, d # e
        PROVE  Touched(d)' \cap Touched(e)' = {}
    <2>1. CASE d # c /\ e # c
      BY <1>6, <2>1, OthersApart DEF Rows, Apart
    <2>2. CASE d = c
      BY <1>6, <2>2, OthersApart DEF OwnStep
    <2>3. CASE e = c
      BY <1>6, <2>3, OthersApart DEF OwnStep
    <2>4. QED
      BY <2>1, <2>2, <2>3
  <1>7. QED
    BY <1>2, <1>3, <1>4, <1>5, <1>6 DEF Apart

LEMMA BatchesKept ==
  ASSUME Rows, BatchInv, NEW c \in Conns, OwnStep(c), transaction_' = transaction_,
         BatchOf(c)'
  PROVE  BatchInv'
  <1>1. ASSUME NEW d \in Conns, d # c
        PROVE  BatchOf(d)'
    <2>1. /\ pc'[d] = pc[d] /\ batch'[d] = batch[d] /\ session'[d] = session[d]
          /\ user_txn'[d] = user_txn[d] /\ (d \in astray' <=> d \in astray)
          /\ driver = "mysql_async" => has_error_'[d] = has_error_[d]
          /\ driver' = driver /\ db \subseteq db'
      BY <1>1 DEF OwnStep, Alone
    <2>2. batch[d].rows \cap db' \subseteq db
      BY <1>1, OthersApart DEF Touched
    <2>3. Began(d) => Began(d)'
      BY <2>1, <2>2 DEF Began, Transacted
    <2>4. Plain(d) => Plain(d)'
      BY <2>1 DEF Plain
    <2>5. Transacted(d)' = Transacted(d)
      BY <2>1 DEF Transacted
    <2>6. BatchOf(d)
      BY DEF BatchInv
    <2>7. QED
      BY <2>1, <2>3, <2>4, <2>5, <2>6 DEF BatchOf
  <1>2. QED
    BY <1>1 DEF BatchInv

\* What a statement of c does to the rows of c.
LEMMA StatementKeeps ==
  ASSUME Rows, NEW c \in Conns, NEW new \in SUBSET Row, NEW a,
         Takes(c, a), Sound(c, a, new), driver' = driver,
         new \subseteq Left(c) \/ new \subseteq Named,
         Left(c)' \subseteq (Left(c) \cup Named) \ new,
         batch'[c].rows \subseteq batch[c].rows \cup new
  PROVE  /\ db \subseteq db' /\ db' \subseteq db \cup Touched(c) \cup Named
         /\ Touched(c)' \subseteq Touched(c) \cup Named
         /\ LeftApart(c)'
         /\ session' \in [Conns -> SessionType] /\ db' \in SUBSET Row
         /\ session'[c] = a.session /\ db' = db \cup a.durable
         /\ \A d \in Conns \ {c} : session'[d] = session[d]
  <1>1. /\ session \in [Conns -> SessionType] /\ db \in SUBSET Row
        /\ session[c].work \in SUBSET Row
    BY DEF Rows, TypeOK, SessionType
  <1>2. session'[c] = a.session /\ db' = db \cup a.durable
    BY <1>1 DEF Takes
  <1>3. /\ a.durable \subseteq session[c].work \cup new
        /\ a.session.work \subseteq session[c].work \cup new
        /\ a.durable \cap a.session.work = {} /\ SessionInv(a.session)
        /\ a.session \in SessionType
    BY DEF Sound
  <1>4. /\ new \cap db = {}
        /\ (Left(c) \cup Named) \cap (db \cup session[c].work \cup batch[c].rows) = {}
    <2>1. used \in Nat
      BY DEF Rows, TypeOK
    <2>2. Named \cap 1..used = {}
      BY <2>1 DEF Named
    <2>3. db \subseteq 1..used /\ Touched(c) \subseteq 1..used
      BY DEF Rows, Apart, ApartOf
    <2>4. Named \cap (db \cup session[c].work \cup batch[c].rows) = {}
      BY <2>2, <2>3 DEF Touched
    <2>5. Left(c) \cap (db \cup session[c].work \cup batch[c].rows) = {}
      BY DEF Rows, Apart, ApartOf
    <2>6. QED
      BY <2>4, <2>5
  <1>5. session[c].work \cap db = {}
    BY DEF Rows, Apart, ApartOf
  <1>6. LeftApart(c)'
    <2>1. SessionInv(session[c])'
      BY <1>2, <1>3 DEF SessionInv
    <2>2. (session[c].work \cap db = {})'
      BY <1>2, <1>3, <1>4, <1>5
    <2>3. (Left(c) \cap (db \cup session[c].work \cup batch[c].rows) = {})'
      BY <1>2, <1>3, <1>4
    <2>4. QED
      BY <2>1, <2>2, <2>3 DEF LeftApart
  <1>7. Touched(c)' \subseteq Touched(c) \cup Named
    BY <1>2, <1>3 DEF Touched
  <1>8. db \subseteq db' /\ db' \subseteq db \cup Touched(c) \cup Named
    BY <1>2, <1>3 DEF Touched
  <1>9. session' \in [Conns -> SessionType] /\ \A d \in Conns \ {c} : session'[d] = session[d]
    BY <1>1, <1>3 DEF Takes
  <1>10. QED
    BY <1>1, <1>2, <1>3, <1>6, <1>7, <1>8, <1>9

\* The member has_error_.
ErrorsShared == driver \in Blocking => \A c, d \in Conns : has_error_[c] = has_error_[d]

\* What a step of c may do to it.
ErrorOf(c) ==
  /\ has_error_' \in [Conns -> BOOLEAN] /\ ErrorsShared'
  /\ driver = "mysql_async" =>
       \A d \in Conns \ {c} : has_error_'[d] = has_error_[d]

LEMMA ErrorSet ==
  ASSUME TypeOK, NEW c \in Conns, NEW error \in BOOLEAN, SetError(c, error), driver' = driver
  PROVE  ErrorOf(c) /\ has_error_'[c] = error
  <1>1. has_error_ \in [Conns -> BOOLEAN] /\ c \in Sharing(c)
    BY DEF TypeOK, Sharing
  <1>2. has_error_' = [d \in Conns |-> IF d \in Sharing(c) THEN error ELSE has_error_[d]]
    BY DEF SetError
  <1>3. has_error_' \in [Conns -> BOOLEAN] /\ has_error_'[c] = error
    BY <1>1, <1>2
  <1>4. ErrorsShared'
    BY <1>2 DEF Sharing, ErrorsShared
  <1>5. driver = "mysql_async" => \A d \in Conns \ {c} : has_error_'[d] = has_error_[d]
    BY <1>2 DEF Sharing, Blocking
  <1>6. QED
    BY <1>3, <1>4, <1>5 DEF ErrorOf

LEMMA ErrorReported ==
  ASSUME TypeOK, NEW c \in Conns, NEW ok \in BOOLEAN, Report(c, ok), driver' = driver
  PROVE  /\ ErrorOf(c)
         /\ ~ok => has_error_'[c]
         /\ driver = "mysql_async" /\ has_error_[c] => has_error_'[c]
  <1> DEFINE error == IF driver = "mysql_async" THEN has_error_[c] \/ ~ok ELSE ~ok
  <1>1. error \in BOOLEAN /\ SetError(c, error)
    BY DEF Report
  <1> HIDE DEF error
  <1>2. ErrorOf(c) /\ has_error_'[c] = error
    BY <1>1, ErrorSet
  <1>3. QED
    BY <1>2 DEF error

\* Where a connection is idle, there is nothing of a vector.
LEMMA IdleLeft ==
  ASSUME Rows, NEW c \in Conns, pc[c] = "idle"
  PROVE  batch[c] = NoBatch /\ Left(c) = {}
  <1>1. batch[c] = NoBatch
    BY DEF Rows, Shape, ShapeOf
  <1>2. QED
    BY <1>1 DEF Left, NoBatch

BatchType == [kind : Kinds, size : 0..MaxBatch, first : 0..(MaxRows + 1),
              next : 0..MaxBatch, rows : SUBSET Row, begun : BOOLEAN, error : BOOLEAN]

\* What a step of c may change, the database apart.
Changes(c) ==
  /\ driver' = driver /\ transaction_' = transaction_
  /\ ErrorOf(c)
  /\ pc' \in [Conns -> {"idle", "prepare", "begin", "item", "rollback"}]
  /\ batch' \in [Conns -> BatchType]
  /\ user_txn' \in [Conns -> BOOLEAN]
  /\ used' \in 0..MaxRows /\ used <= used'
  /\ void' \in SUBSET Row /\ missing' \in SUBSET Row /\ uncommitted' \in SUBSET Row
  /\ astray' \subseteq Conns /\ silent' \in BOOLEAN
  /\ \A d \in Conns \ {c} :
       /\ pc'[d] = pc[d] /\ batch'[d] = batch[d]
       /\ user_txn'[d] = user_txn[d] /\ (d \in astray' <=> d \in astray)

\* A statement of c that writes rows of c, or rows with new names.
Writes(c, a, new) ==
  /\ Takes(c, a) /\ Sound(c, a, new)
  /\ new \in SUBSET Row
  /\ new \subseteq Left(c) \/ new \subseteq Named
  /\ Left(c)' \subseteq (Left(c) \cup Named) \ new
  /\ batch'[c].rows \subseteq batch[c].rows \cup new

LEMMA StepKeepsRows ==
  ASSUME Rows, NEW c \in Conns, NEW a, NEW new, Writes(c, a, new), Changes(c), ShapeOf(c)'
  PROVE  /\ Rows' /\ OwnStep(c)
         /\ session'[c] = a.session /\ db' = db \cup a.durable
  <1>1. /\ db \subseteq db' /\ db' \subseteq db \cup Touched(c) \cup Named
        /\ Touched(c)' \subseteq Touched(c) \cup Named
        /\ LeftApart(c)'
        /\ session' \in [Conns -> SessionType] /\ db' \in SUBSET Row
        /\ session'[c] = a.session /\ db' = db \cup a.durable
        /\ \A d \in Conns \ {c} : session'[d] = session[d]
    BY StatementKeeps DEF Writes, Changes
  <1>2. OwnStep(c)
    <2>1. used' \in Nat /\ used <= used'
      BY BatchAssumption DEF Changes
    <2>2. Alone(c)
      BY <1>1 DEF Changes, Alone, ErrorOf
    <2>3. QED
      BY <1>1, <2>1, <2>2 DEF OwnStep, Changes
  <1>3. Shape' /\ Apart'
    BY <1>1, <1>2, RowsKept
  <1>4. TypeOK'
    <2>1. {db', void', missing', uncommitted'} \subseteq SUBSET Row
      BY <1>1 DEF Changes
    <2>2. driver \in Drivers /\ transaction_ \in [Conns -> BOOLEAN]
          /\ (driver \in Blocking => \A d, e \in Conns : transaction_[d] = transaction_[e])
      BY DEF Rows, TypeOK
    <2>3. QED
      BY <1>1, <2>1, <2>2 DEF Changes, ErrorOf, TypeOK, SessionType, BatchType, ErrorsShared
  <1>5. QED
    BY <1>1, <1>2, <1>3, <1>4 DEF Rows

\* A step that says nothing to the database.
LEMMA NoStatement ==
  ASSUME Rows, NEW c \in Conns, UNCHANGED server
  PROVE  LET a == Answer(FALSE, session[c], {})
         IN  Takes(c, a) /\ Sound(c, a, {}) /\ a.session = session[c] /\ a.durable = {}
  <1> DEFINE a == Answer(FALSE, session[c], {})
  <1>1. a.ok = FALSE /\ a.session = session[c] /\ a.durable = {}
    BY DEF Answer
  <1> HIDE DEF a
  <1>2. session[c] \in SessionType /\ SessionInv(session[c])
    BY SessionKept DEF Rows, Apart, ApartOf
  <1>3. Sound(c, a, {})
    BY <1>1, <1>2 DEF Sound
  <1>4. [session EXCEPT ![c] = session[c]] = session
    BY DEF Rows, TypeOK
  <1>5. Takes(c, a)
    BY <1>1, <1>4 DEF Takes, server
  <1>6. QED
    BY <1>1, <1>3, <1>5 DEF a

-----------------------------------------------------------------------------
(* The calls of an idle connection                                         *)

\* What is proved of a step of c: it keeps the rows apart; and what is known
\* of the batch of c, and what the application was told, stays so.
Keeps(c) ==
  /\ Rows' /\ OwnStep(c) /\ transaction_' = transaction_
  /\ BatchInv /\ Told => BatchOf(c)' /\ Told'

LEMMA IdleKeeps ==
  ASSUME Rows, NEW c \in Conns, pc[c] = "idle", NEW a, NEW new \in SUBSET Row,
         new \subseteq Named, Takes(c, a), Sound(c, a, new),
         UNCHANGED <<driver, transaction_, pc, batch>>,
         ErrorOf(c), user_txn' \in [Conns -> BOOLEAN],
         \A d \in Conns \ {c} : user_txn'[d] = user_txn[d],
         used' \in 0..MaxRows, used <= used',
         void' \in SUBSET Row, missing' \in SUBSET Row, uncommitted' \in SUBSET Row,
         astray' = astray \/ astray' = astray \ {c}, silent' \in BOOLEAN
  PROVE  /\ Rows' /\ OwnStep(c)
         /\ session'[c] = a.session /\ db' = db \cup a.durable
         /\ batch[c] = NoBatch
  <1>1. batch[c] = NoBatch /\ Left(c) = {} /\ Left(c)' = {}
    BY IdleLeft DEF Left
  <1>2. Writes(c, a, new)
    BY <1>1 DEF Writes
  <1>3. ShapeOf(c)'
    BY <1>1 DEF ShapeOf
  <1>4. TypeOK
    BY DEF Rows
  <1>5. Changes(c)
    BY <1>4 DEF Changes, TypeOK, BatchType
  <1>6. QED
    BY <1>1, <1>2, <1>3, <1>5, StepKeepsRows

\* A connection that is idle again.
LEMMA IdleBatch ==
  ASSUME NEW c \in Conns, pc'[c] = "idle", batch'[c] = NoBatch,
         ~user_txn'[c] /\ c \notin astray' => session'[c].txn = "none"
  PROVE  BatchOf(c)'
  BY DEF BatchOf, Plain, NoBatch

LEMMA UserBeginKeeps ==
  ASSUME Rows, NEW c \in Conns, UserBegin(c)
  PROVE  Keeps(c)
  <1>1. PICK a \in Replies(c, Begin(session[c]), session[c].work) :
          /\ Takes(c, a) /\ Report(c, a.ok)
          /\ user_txn' = [user_txn EXCEPT ![c] = a.ok]
          /\ astray' = IF a.ok THEN astray \ {c} ELSE astray
    BY DEF UserBegin
  <1>2. /\ pc[c] = "idle" /\ ~user_txn[c]
        /\ UNCHANGED <<driver, transaction_, pc, batch, used, void, missing, uncommitted, silent>>
    BY DEF UserBegin, call
  <1>3. Sound(c, a, {}) /\ a.ok \in BOOLEAN
    BY BeginAnswers DEF Rows, Apart, ApartOf, Sound
  <1>4. Rows' /\ OwnStep(c) /\ session'[c] = a.session /\ batch[c] = NoBatch
    <2>1. ErrorOf(c)
      BY <1>1, <1>2, <1>3, ErrorReported DEF Rows
    <2>2. user_txn' \in [Conns -> BOOLEAN] /\ \A d \in Conns \ {c} : user_txn'[d] = user_txn[d]
      BY <1>1, <1>2, <1>3 DEF Rows, TypeOK
    <2>3. astray' = astray \/ astray' = astray \ {c}
      BY <1>1, <1>2
    <2>4. used' \in 0..MaxRows /\ used <= used' /\ void' \in SUBSET Row
            /\ missing' \in SUBSET Row /\ uncommitted' \in SUBSET Row /\ silent' \in BOOLEAN
      BY <1>2 DEF Rows, TypeOK
    <2>5. QED
      BY <1>1, <1>2, <1>3, <2>1, <2>2, <2>3, <2>4, IdleKeeps
  <1>5. ASSUME BatchInv, Told
        PROVE  BatchOf(c)' /\ Told'
    <2>1. ~user_txn'[c] /\ c \notin astray' => session'[c].txn = "none"
      BY <1>1, <1>2, <1>3, <1>4, <1>5 DEF BatchInv, BatchOf, Plain, NoBatch, Sound, Rows, TypeOK
    <2>2. Told'
      BY <1>2, <1>5 DEF Told, ConfirmedIsStored
    <2>3. QED
      BY <1>2, <1>4, <2>1, <2>2, IdleBatch
  <1>6. QED
    BY <1>2, <1>4, <1>5 DEF Keeps

LEMMA UserCommitKeeps ==
  ASSUME Rows, NEW c \in Conns, UserCommit(c)
  PROVE  Keeps(c)
  <1>1. PICK a \in Replies(c, Commit(session[c]), session[c].work) :
          /\ Takes(c, a) /\ Report(c, a.ok)
          /\ user_txn' = [user_txn EXCEPT ![c] = @ /\ ~a.ok]
          /\ uncommitted' =
               uncommitted \cup (IF a.ok THEN session[c].work \ db' ELSE {})
          /\ astray' = IF a.ok THEN astray \ {c} ELSE astray
    BY DEF UserCommit
  <1>2. /\ pc[c] = "idle"
        /\ UNCHANGED <<driver, transaction_, pc, batch, used, void, missing, silent>>
    BY DEF UserCommit, call
  <1>3. /\ Sound(c, a, {}) /\ a.ok \in BOOLEAN
        /\ a.ok => a.session.txn = "none"
        /\ a.ok /\ session[c].txn # "failed" => session[c].work \subseteq a.durable
    BY CommitAnswers DEF Rows, Apart, ApartOf, Sound
  <1>4. Rows' /\ OwnStep(c) /\ session'[c] = a.session /\ batch[c] = NoBatch
          /\ db' = db \cup a.durable
    <2>1. session[c].work \in SUBSET Row /\ uncommitted' \in SUBSET Row
      BY <1>1, SessionKept DEF SessionType, Rows, TypeOK
    <2>2. user_txn' \in [Conns -> BOOLEAN] /\ \A d \in Conns \ {c} : user_txn'[d] = user_txn[d]
      BY <1>1 DEF Rows, TypeOK
    <2>3. astray' = astray \/ astray' = astray \ {c}
      BY <1>1
    <2>4. used' \in 0..MaxRows /\ used <= used' /\ void' \in SUBSET Row
            /\ missing' \in SUBSET Row /\ silent' \in BOOLEAN
      BY <1>2 DEF Rows, TypeOK
    <2>5. ErrorOf(c)
      BY <1>1, <1>2, <1>3, ErrorReported DEF Rows
    <2>6. QED
      BY <1>1, <1>2, <1>3, <2>1, <2>2, <2>3, <2>4, <2>5, IdleKeeps
  <1>5. ASSUME BatchInv, Told
        PROVE  BatchOf(c)' /\ Told'
    <2>1. ~user_txn'[c] /\ c \notin astray' => session'[c].txn = "none"
      BY <1>1, <1>2, <1>3, <1>4, <1>5 DEF BatchInv, BatchOf, Plain, NoBatch, Sound, Rows, TypeOK
    <2>2. driver # "postgresql" => uncommitted' = {}
      BY <1>1, <1>3, <1>4, <1>5 DEF Told, ConfirmedIsStored, Rows, Apart, ApartOf, SessionInv
    <2>3. Told'
      BY <1>2, <1>5, <2>2 DEF Told, ConfirmedIsStored
    <2>4. QED
      BY <1>2, <1>4, <2>1, <2>3, IdleBatch
  <1>6. QED
    BY <1>2, <1>4, <1>5 DEF Keeps

LEMMA UserRollbackKeeps ==
  ASSUME Rows, NEW c \in Conns, UserRollback(c)
  PROVE  Keeps(c)
  <1>1. PICK a \in Replies(c, Rollback(session[c]), {}) : Takes(c, a) /\ Report(c, a.ok)
    BY DEF UserRollback
  <1>2. /\ pc[c] = "idle"
        /\ user_txn' = [user_txn EXCEPT ![c] = FALSE] /\ astray' = astray \ {c}
        /\ UNCHANGED <<driver, transaction_, pc, batch, used, void, missing, uncommitted, silent>>
    BY DEF UserRollback, call
  <1>3. Sound(c, a, {}) /\ a.ok \in BOOLEAN /\ a.session.txn = "none"
    BY RollbackAnswers DEF Rows, Apart, ApartOf, Sound
  <1>4. Rows' /\ OwnStep(c) /\ session'[c] = a.session /\ batch[c] = NoBatch
    <2>1. ErrorOf(c)
      BY <1>1, <1>2, <1>3, ErrorReported DEF Rows
    <2>2. user_txn' \in [Conns -> BOOLEAN] /\ \A d \in Conns \ {c} : user_txn'[d] = user_txn[d]
      BY <1>1, <1>2, <1>3 DEF Rows, TypeOK
    <2>3. astray' = astray \/ astray' = astray \ {c}
      BY <1>1, <1>2
    <2>4. used' \in 0..MaxRows /\ used <= used' /\ void' \in SUBSET Row
            /\ missing' \in SUBSET Row /\ uncommitted' \in SUBSET Row /\ silent' \in BOOLEAN
      BY <1>2 DEF Rows, TypeOK
    <2>5. {} \in SUBSET Row /\ {} \subseteq Named
      OBVIOUS
    <2>6. QED
      BY <1>1, <1>2, <1>3, <2>1, <2>2, <2>3, <2>4, <2>5, IdleKeeps
  <1>5. ASSUME BatchInv, Told
        PROVE  BatchOf(c)' /\ Told'
    <2>1. Told'
      BY <1>2, <1>5 DEF Told, ConfirmedIsStored
    <2>2. QED
      BY <1>2, <1>3, <1>4, <2>1, IdleBatch
  <1>6. QED
    BY <1>2, <1>4, <1>5 DEF Keeps

LEMMA PrepareOneKeeps ==
  ASSUME Rows, NEW c \in Conns, PrepareOne(c)
  PROVE  Keeps(c)
  <1>1. PICK a \in Replies(c, Prepare(session[c]), {}) : Takes(c, a) /\ Report(c, FALSE)
    BY DEF PrepareOne
  <1>2. /\ pc[c] = "idle"
        /\ UNCHANGED <<driver, transaction_, pc, batch, user_txn, used, void, missing,
                       uncommitted, astray, silent>>
    BY DEF PrepareOne, call, ghosts
  <1>3. Sound(c, a, {}) /\ (session[c].txn = "none" => a.session.txn = "none")
    BY PrepareAnswers DEF Rows, Apart, ApartOf
  <1>4. Rows' /\ OwnStep(c) /\ session'[c] = a.session /\ batch[c] = NoBatch
    <2>1. ErrorOf(c)
      BY <1>1, <1>2, <1>3, ErrorReported DEF Rows
    <2>2. user_txn' \in [Conns -> BOOLEAN] /\ \A d \in Conns \ {c} : user_txn'[d] = user_txn[d]
      BY <1>1, <1>2, <1>3 DEF Rows, TypeOK
    <2>3. astray' = astray \/ astray' = astray \ {c}
      BY <1>1, <1>2
    <2>4. used' \in 0..MaxRows /\ used <= used' /\ void' \in SUBSET Row
            /\ missing' \in SUBSET Row /\ uncommitted' \in SUBSET Row /\ silent' \in BOOLEAN
      BY <1>2 DEF Rows, TypeOK
    <2>5. QED
      BY <1>1, <1>2, <1>3, <2>1, <2>2, <2>3, <2>4, IdleKeeps
  <1>5. ASSUME BatchInv, Told
        PROVE  BatchOf(c)' /\ Told'
    <2>1. ~user_txn'[c] /\ c \notin astray' => session'[c].txn = "none"
      BY <1>2, <1>3, <1>4, <1>5 DEF BatchInv, BatchOf, Plain, NoBatch
    <2>2. Told'
      BY <1>2, <1>5 DEF Told, ConfirmedIsStored
    <2>3. QED
      BY <1>2, <1>4, <2>1, <2>2, IdleBatch
  <1>6. QED
    BY <1>2, <1>4, <1>5 DEF Keeps

LEMMA ConnectKeeps ==
  ASSUME Rows, NEW c \in Conns, Connect(c)
  PROVE  Keeps(c)
  <1> DEFINE s == [session[c] EXCEPT !.alive = TRUE]
             a == Answer(FALSE, s, {})
  <1>1. /\ pc[c] = "idle" /\ ~session[c].alive /\ session' = [session EXCEPT ![c].alive = TRUE]
        /\ user_txn' = [user_txn EXCEPT ![c] = FALSE] /\ astray' = astray \ {c}
        /\ SetError(c, FALSE)
        /\ UNCHANGED <<driver, transaction_, db, pc, batch, used, void, missing, uncommitted, silent>>
    BY DEF Connect, call
  <1>2. session[c] \in SessionType /\ SessionInv(session[c])
    BY SessionKept DEF Rows, Apart, ApartOf
  <1>3. /\ s \in SessionType /\ SessionInv(s) /\ s.txn = "none" /\ s.work = {}
        /\ session[c].txn = "none" /\ session[c].work = {}
    BY <1>1, <1>2 DEF SessionType, SessionInv
  <1>4. a.ok = FALSE /\ a.session = s /\ a.durable = {}
    BY DEF Answer
  <1>5. Takes(c, a)
    <2>1. session' = [session EXCEPT ![c] = s]
      BY <1>1 DEF Rows, TypeOK
    <2>2. QED
      BY <1>1, <1>4, <2>1 DEF Takes
  <1> HIDE DEF a
  <1>6. Sound(c, a, {})
    BY <1>3, <1>4 DEF Sound
  <1> HIDE DEF s
  <1>7. Rows' /\ OwnStep(c) /\ session'[c] = s /\ batch[c] = NoBatch
    <2>1. ErrorOf(c)
      BY <1>1, ErrorSet DEF Rows
    <2>2. user_txn' \in [Conns -> BOOLEAN] /\ \A d \in Conns \ {c} : user_txn'[d] = user_txn[d]
      BY <1>1 DEF Rows, TypeOK
    <2>3. used' \in 0..MaxRows /\ used <= used' /\ void' \in SUBSET Row
            /\ missing' \in SUBSET Row /\ uncommitted' \in SUBSET Row /\ silent' \in BOOLEAN
      BY <1>1 DEF Rows, TypeOK
    <2>4. QED
      BY <1>1, <1>4, <1>5, <1>6, <2>1, <2>2, <2>3, IdleKeeps
  <1>8. ASSUME BatchInv, Told
        PROVE  BatchOf(c)' /\ Told'
    <2>1. Told'
      BY <1>1, <1>8 DEF Told, ConfirmedIsStored
    <2>2. QED
      BY <1>1, <1>3, <1>7, <2>1, IdleBatch
  <1>9. QED
    BY <1>1, <1>7, <1>8 DEF Keeps

LEMMA WriteOneKeeps ==
  ASSUME Rows, NEW c \in Conns, NEW kind \in KindsOf, WriteOne(c, kind)
  PROVE  Keeps(c)
  <1>1. /\ pc[c] = "idle" /\ used < MaxRows /\ used' = used + 1
        /\ UNCHANGED <<driver, transaction_, pc, batch, user_txn, void, uncommitted, astray, silent>>
    BY DEF WriteOne, call
  <1>2. /\ used \in Nat /\ used' \in 0..MaxRows /\ used <= used'
        /\ used' \in Row /\ Named = {used'}
    BY <1>1, BatchAssumption DEF Rows, TypeOK, Named, Row
  <1>3. \E a : \E new \in {{}, {used'}}, ok \in BOOLEAN :
          /\ Takes(c, a) /\ Sound(c, a, new) /\ Report(c, ok)
          /\ session[c].txn = "none" => a.session.txn = "none"
          /\ missing' \in SUBSET Row
          /\ missing' = missing \/ (~user_txn[c] /\ c \notin astray /\
               missing' = missing \cup (Written(a, used') \ db'))
    <2>1. CASE Mismatch(kind)
      <3>1. Report(c, FALSE) /\ UNCHANGED <<server, missing>>
        BY <2>1 DEF WriteOne
      <3>2. PICK a : Takes(c, a) /\ Sound(c, a, {}) /\ a.session = session[c]
        BY <3>1, NoStatement
      <3>3. missing' = missing /\ missing' \in SUBSET Row
        BY <3>1 DEF Rows, TypeOK
      <3>4. QED
        BY <3>1, <3>2, <3>3
    <2>2. CASE ~Mismatch(kind)
      <3>1. PICK a \in Replies(c, Write(session[c], used'), Autocommitted(c, used')) :
              /\ Takes(c, a) /\ Report(c, a.ok)
              /\ IF Accepted(kind, a, used') THEN Promise(c, Written(a, used'))
                                             ELSE UNCHANGED missing
        BY <2>2 DEF WriteOne
      <3>2. /\ Sound(c, a, {used'}) /\ a.ok \in BOOLEAN
            /\ session[c].txn = "none" => a.session.txn = "none"
        BY <1>2, WriteAnswers DEF Rows, Apart, ApartOf, Sound
      <3>3. missing' = missing \/ (~user_txn[c] /\ c \notin astray /\
               missing' = missing \cup (Written(a, used') \ db'))
        BY <3>1 DEF Promise
      <3>4. missing' \in SUBSET Row
        BY <1>2, <3>3 DEF Written, Rows, TypeOK
      <3>5. QED
        BY <3>1, <3>2, <3>3, <3>4
    <2>3. QED
      BY <2>1, <2>2
  <1>10. PICK a : \E new \in {{}, {used'}}, ok \in BOOLEAN :
          /\ Takes(c, a) /\ Sound(c, a, new) /\ Report(c, ok)
          /\ session[c].txn = "none" => a.session.txn = "none"
          /\ missing' \in SUBSET Row
          /\ missing' = missing \/ (~user_txn[c] /\ c \notin astray /\
               missing' = missing \cup (Written(a, used') \ db'))
    BY <1>3
  <1>4. PICK new \in {{}, {used'}}, ok \in BOOLEAN :
          /\ Takes(c, a) /\ Sound(c, a, new) /\ Report(c, ok)
          /\ session[c].txn = "none" => a.session.txn = "none"
          /\ missing' \in SUBSET Row
          /\ missing' = missing \/ (~user_txn[c] /\ c \notin astray /\
               missing' = missing \cup (Written(a, used') \ db'))
    BY <1>10
  <1>5. /\ Rows' /\ OwnStep(c) /\ session'[c] = a.session /\ batch[c] = NoBatch
        /\ db' = db \cup a.durable
    <2>1. ErrorOf(c)
      BY <1>1, <1>4, ErrorReported DEF Rows
    <2>2. /\ user_txn' \in [Conns -> BOOLEAN]
          /\ \A d \in Conns \ {c} : user_txn'[d] = user_txn[d]
      BY <1>1 DEF Rows, TypeOK
    <2>3. void' \in SUBSET Row /\ uncommitted' \in SUBSET Row /\ silent' \in BOOLEAN
      BY <1>1 DEF Rows, TypeOK
    <2>4. new \in SUBSET Row /\ new \subseteq Named
      BY <1>2
    <2>5. QED
      BY <1>1, <1>2, <1>4, <2>1, <2>2, <2>3, <2>4, IdleKeeps
  <1>6. ASSUME BatchInv, Told
        PROVE  BatchOf(c)' /\ Told'
    <2>1. ~user_txn[c] /\ c \notin astray => session[c].txn = "none"
      BY <1>5, <1>6 DEF BatchInv, BatchOf, Plain, NoBatch
    <2>2. a.session.txn = "none" => Written(a, used') \subseteq db'
      BY <1>4, <1>5 DEF Written, Sound, SessionInv
    <2>3. missing' = {}
      BY <1>4, <1>6, <2>1, <2>2 DEF Told, ConfirmedIsStored
    <2>4. Told'
      BY <1>1, <1>6, <2>3 DEF Told, ConfirmedIsStored
    <2>5. QED
      BY <1>1, <1>4, <1>5, <2>1, <2>4, IdleBatch
  <1>7. QED
    BY <1>1, <1>5, <1>6 DEF Keeps

-----------------------------------------------------------------------------
(* The steps of a batch                                                    *)

LEMMA BatchTyped ==
  ASSUME Rows, NEW c \in Conns
  PROVE  /\ batch[c] \in BatchType /\ NoBatch \in BatchType
         /\ session[c] \in SessionType /\ SessionInv(session[c]) /\ ApartOf(c) /\ ShapeOf(c)
  <1>1. NoBatch \in BatchType
    BY BatchAssumption DEF NoBatch, BatchType, Kinds
  <1>2. batch[c] \in BatchType
    BY DEF Rows, TypeOK, BatchType
  <1>3. QED
    BY <1>1, <1>2, SessionKept DEF Rows, Apart, ApartOf, Shape

LEMMA BatchChanges ==
  ASSUME Rows, NEW c \in Conns,
         UNCHANGED <<driver, transaction_, user_txn, used>>, ErrorOf(c),
         NEW place \in {"idle", "prepare", "begin", "item", "rollback"},
         NEW b \in BatchType,
         pc' = [pc EXCEPT ![c] = place], batch' = [batch EXCEPT ![c] = b],
         void' \in SUBSET Row, missing' \in SUBSET Row, uncommitted' \in SUBSET Row,
         astray' = astray \/ astray' = astray \ {c} \/ astray' = astray \cup {c},
         silent' \in BOOLEAN
  PROVE  Changes(c) /\ pc'[c] = place /\ batch'[c] = b
  <1>1. /\ pc'[c] = place /\ batch'[c] = b
        /\ \A d \in Conns \ {c} : pc'[d] = pc[d] /\ batch'[d] = batch[d]
        /\ pc' \in [Conns -> {"idle", "prepare", "begin", "item", "rollback"}]
        /\ batch' \in [Conns -> BatchType]
    BY DEF Rows, TypeOK, BatchType
  <1>2. user_txn \in [Conns -> BOOLEAN] /\ used \in 0..MaxRows /\ astray \subseteq Conns
          /\ used <= used
    BY DEF Rows, TypeOK
  <1>3. Changes(c)
    BY <1>1, <1>2 DEF Changes
  <1>4. QED
    BY <1>1, <1>3

\* A step that ends the call.
LEMMA EndKeeps ==
  ASSUME Rows, NEW c \in Conns, NEW a, NEW new \in SUBSET Row, new \subseteq Left(c),
         Takes(c, a), Sound(c, a, new),
         UNCHANGED <<driver, transaction_, user_txn, used>>, ErrorOf(c),
         pc' = [pc EXCEPT ![c] = "idle"], batch' = [batch EXCEPT ![c] = NoBatch],
         void' \in SUBSET Row, missing' \in SUBSET Row, uncommitted' \in SUBSET Row,
         astray' = astray \/ astray' = astray \cup {c},
         silent' \in BOOLEAN
  PROVE  /\ Rows' /\ OwnStep(c)
         /\ session'[c] = a.session /\ db' = db \cup a.durable
         /\ pc'[c] = "idle" /\ batch'[c] = NoBatch
  <1>1. Changes(c) /\ pc'[c] = "idle" /\ batch'[c] = NoBatch
    BY BatchTyped, BatchChanges
  <1>2. ShapeOf(c)' /\ Left(c)' = {} /\ NoBatch.rows = {}
    BY <1>1 DEF ShapeOf, Left, NoBatch
  <1>3. Writes(c, a, new)
    BY <1>1, <1>2 DEF Writes
  <1>4. QED
    BY <1>1, <1>2, <1>3, StepKeepsRows

LEMMA BatchCallKeeps ==
  ASSUME Rows, NEW c \in Conns, NEW kind \in KindsOf, NEW size \in 0..MaxBatch,
         BatchCall(c, kind, size)
  PROVE  Keeps(c)
  <1> DEFINE a == Answer(FALSE, session[c], {})
             b == [NoBatch EXCEPT !.kind = kind, !.size = size, !.first = used + 1]
  <1>1. /\ pc[c] = "idle" /\ used' = used + size /\ used' <= MaxRows
        /\ batch' = [batch EXCEPT ![c] = b]
        /\ pc' = [pc EXCEPT ![c] = IF driver \in {"sqlite", "mysql"} THEN "prepare" ELSE "begin"]
        /\ UNCHANGED <<driver, transaction_, has_error_, session, db, user_txn, void, missing,
                       uncommitted, astray, silent>>
    BY DEF BatchCall, Goto, client, server
  <1>2. used \in Nat /\ used <= MaxRows /\ size \in Nat /\ MaxRows \in Nat /\ MaxBatch \in Nat
    BY BatchAssumption DEF Rows, TypeOK
  <1>3. /\ b.kind = kind /\ b.size = size /\ b.first = used + 1 /\ b.next = 0
        /\ b.rows = {} /\ b.begun = FALSE /\ b.error = FALSE
        /\ b \in BatchType
    <2>1. kind \in Kinds
      BY DEF KindsOf, Kinds
    <2>2. /\ NoBatch \in BatchType /\ NoBatch.next = 0 /\ NoBatch.rows = {}
          /\ NoBatch.begun = FALSE /\ NoBatch.error = FALSE
      BY BatchTyped DEF NoBatch
    <2>3. used + 1 \in 0..(MaxRows + 1)
      BY <1>2
    <2>4. QED
      BY <2>1, <2>2, <2>3 DEF BatchType
  <1> HIDE DEF b
  <1>4. /\ batch'[c] = b /\ pc'[c] \in {"prepare", "begin"}
        /\ pc'[c] = "prepare" => driver \in {"sqlite", "mysql"}
        /\ batch[c] = NoBatch
        /\ \A d \in Conns \ {c} : batch'[d] = batch[d] /\ pc'[d] = pc[d]
        /\ batch' \in [Conns -> BatchType]
        /\ pc' \in [Conns -> {"idle", "prepare", "begin", "item", "rollback"}]
    BY <1>1, <1>3, IdleLeft DEF Rows, TypeOK, BatchType
  <1>5. Writes(c, a, {})
    <2>1. Left(c)' = used + 1 .. used'
      BY <1>1, <1>2, <1>3, <1>4 DEF Left
    <2>2. Takes(c, a) /\ Sound(c, a, {})
      BY <1>1, NoStatement DEF server
    <2>3. batch'[c].rows \subseteq batch[c].rows
      BY <1>3, <1>4
    <2> HIDE DEF a
    <2>4. QED
      BY <2>1, <2>2, <2>3 DEF Writes, Named
  <1>6. ErrorOf(c)
    BY <1>1 DEF ErrorOf, ErrorsShared, Rows, TypeOK
  <1>7. Changes(c)
    <2>1. used' \in 0..MaxRows /\ used <= used'
      BY <1>1, <1>2
    <2>2. QED
      BY <1>1, <1>4, <1>6, <2>1 DEF Changes, Rows, TypeOK
  <1>8. ShapeOf(c)'
    BY <1>1, <1>2, <1>3, <1>4 DEF ShapeOf
  <1>9. a.session = session[c] /\ a.durable = {}
    BY DEF Answer
  <1> HIDE DEF a
  <1>10. Rows' /\ OwnStep(c)
    BY <1>5, <1>7, <1>8, StepKeepsRows
  <1>11. ASSUME BatchInv, Told
         PROVE  BatchOf(c)' /\ Told'
    <2>1. Plain(c)
      BY <1>4, <1>11 DEF BatchInv, BatchOf, NoBatch
    <2>2. Plain(c)'
      BY <1>1, <1>3, <1>4, <2>1 DEF Plain
    <2>3. BatchOf(c)'
      BY <1>1, <1>3, <1>4, <2>2 DEF BatchOf
    <2>4. Told'
      BY <1>1, <1>11 DEF Told, ConfirmedIsStored
    <2>5. QED
      BY <2>3, <2>4
  <1>12. QED
    BY <1>1, <1>10, <1>11 DEF Keeps

LEMMA PrepareBatchKeeps ==
  ASSUME Rows, NEW c \in Conns, PrepareBatch(c)
  PROVE  Keeps(c)
  <1>1. PICK a \in Replies(c, Prepare(session[c]), {}) :
          /\ Takes(c, a) /\ Report(c, a.ok)
          /\ IF a.ok
               THEN /\ Goto(c, IF driver = "postgresql" THEN "item" ELSE "begin")
                    /\ UNCHANGED <<batch, astray, silent>>
               ELSE /\ Fails(c, TRUE)
                    /\ astray' = IF batch[c].begun THEN astray \cup {c} ELSE astray
    BY DEF PrepareBatch
  <1>2. /\ pc[c] = "prepare"
        /\ UNCHANGED <<driver, transaction_, user_txn, used, void, missing, uncommitted>>
    BY DEF PrepareBatch
  <1>3. /\ Sound(c, a, {}) /\ a.ok \in BOOLEAN /\ a.durable = {}
        /\ a.ok => a.session = session[c]
        /\ session[c].txn = "none" => a.session.txn = "none"
    BY PrepareAnswers DEF Rows, Apart, ApartOf, Sound
  <1>4. ErrorOf(c) /\ (~a.ok => has_error_'[c])
          /\ (driver = "mysql_async" /\ has_error_[c] => has_error_'[c])
    BY <1>1, <1>2, <1>3, ErrorReported DEF Rows
  <1>5. /\ void' \in SUBSET Row /\ missing' \in SUBSET Row /\ uncommitted' \in SUBSET Row
        /\ silent \in BOOLEAN /\ {} \in SUBSET Row /\ {} \subseteq Left(c)
    BY <1>2 DEF Rows, TypeOK
  <1>6. CASE a.ok
    <2> DEFINE place == IF driver = "postgresql" THEN "item" ELSE "begin"
    <2>1. pc' = [pc EXCEPT ![c] = place] /\ batch' = batch /\ astray' = astray /\ silent' = silent
      BY <1>1, <1>6 DEF Goto
    <2>2. /\ pc'[c] = place /\ batch' = [batch EXCEPT ![c] = batch[c]]
          /\ place \in {"idle", "prepare", "begin", "item", "rollback"}
      BY <2>1 DEF Rows, TypeOK
    <2> HIDE DEF place
    <2>3. ShapeOf(c)' /\ Left(c)' \subseteq Left(c) \ {}
      BY <1>2, <2>1, <2>2, BatchTyped DEF ShapeOf, Left, place
    <2>4. Rows' /\ OwnStep(c) /\ session'[c] = a.session /\ db' = db \cup a.durable
      <3>1. Changes(c)
        BY <1>2, <1>4, <1>5, <2>1, <2>2, BatchTyped, BatchChanges
      <3>2. Writes(c, a, {})
        BY <1>1, <1>3, <2>1, <2>3 DEF Writes
      <3>3. QED
        BY <2>3, <3>1, <3>2, StepKeepsRows
    <2>5. ASSUME BatchInv, Told
          PROVE  BatchOf(c)' /\ Told'
      <3>1. BatchOf(c) /\ session'[c] = session[c] /\ db' = db
        BY <1>3, <1>6, <2>4, <2>5 DEF BatchInv
      <3>2. Began(c) => driver = "postgresql" /\ Began(c)'
        BY <1>2, <2>1, <2>2, <3>1 DEF Began, Transacted, place
      <3>3. Plain(c) => Plain(c)'
        BY <1>2, <2>1, <3>1 DEF Plain
      <3>4. BatchOf(c)'
        BY <1>2, <1>4, <2>1, <2>2, <3>1, <3>2, <3>3 DEF BatchOf, Transacted, place
      <3>5. Told'
        BY <1>2, <2>1, <2>5 DEF Told, ConfirmedIsStored
      <3>6. QED
        BY <3>4, <3>5
    <2>6. QED
      BY <1>2, <2>4, <2>5 DEF Keeps
  <1>7. CASE ~a.ok
    <2>1. /\ pc' = [pc EXCEPT ![c] = "idle"] /\ batch' = [batch EXCEPT ![c] = NoBatch]
          /\ silent' = silent
          /\ astray' = IF batch[c].begun THEN astray \cup {c} ELSE astray
      BY <1>1, <1>4, <1>5, <1>7 DEF Fails, Goto
    <2>2. astray' = astray \/ astray' = astray \cup {c}
      BY <2>1
    <2>3. /\ Rows' /\ OwnStep(c) /\ session'[c] = a.session
          /\ pc'[c] = "idle" /\ batch'[c] = NoBatch
      BY <1>1, <1>2, <1>3, <1>4, <1>5, <2>1, <2>2, EndKeeps
    <2>4. ASSUME BatchInv, Told
          PROVE  BatchOf(c)' /\ Told'
      <3>1. ~user_txn'[c] /\ c \notin astray' => session'[c].txn = "none"
        BY <1>2, <1>3, <2>1, <2>3, <2>4 DEF BatchInv, BatchOf, Plain
      <3>2. Told'
        BY <1>2, <2>1, <2>4 DEF Told, ConfirmedIsStored
      <3>3. QED
        BY <2>3, <3>1, <3>2, IdleBatch
    <2>5. QED
      BY <1>2, <2>3, <2>4 DEF Keeps
  <1>8. QED
    BY <1>3, <1>6, <1>7

LEMMA BeginBatchKeeps ==
  ASSUME Rows, NEW c \in Conns, BeginBatch(c)
  PROVE  Keeps(c)
  <1>1. /\ pc[c] = "begin"
        /\ UNCHANGED <<driver, transaction_, user_txn, used, void, missing, uncommitted>>
    BY DEF BeginBatch
  <1>2. /\ void' \in SUBSET Row /\ missing' \in SUBSET Row /\ uncommitted' \in SUBSET Row
        /\ silent \in BOOLEAN /\ {} \in SUBSET Row /\ {} \subseteq Left(c)
    BY <1>1 DEF Rows, TypeOK
  <1>3. /\ batch[c] \in BatchType /\ ShapeOf(c) /\ batch[c].rows = {}
        /\ BatchInv => ~batch[c].begun /\ Plain(c)
    BY <1>1, BatchTyped DEF BatchInv, BatchOf, Began, ShapeOf
  <1>4. AfterBegin \in {"prepare", "item"} /\ (AfterBegin = "prepare" => driver = "postgresql")
    BY DEF AfterBegin
  <1>5. CASE Transacted(c)
    <2>1. PICK a \in Replies(c, Begin(session[c]), session[c].work) :
            /\ Takes(c, a) /\ Report(c, a.ok)
            /\ IF a.ok
                 THEN /\ Goto(c, AfterBegin)
                      /\ batch' = [batch EXCEPT ![c].begun = TRUE]
                      /\ astray' = astray \ {c}
                      /\ UNCHANGED silent
                 ELSE Fails(c, TRUE) /\ UNCHANGED astray
      BY <1>5 DEF BeginBatch
    <2>2. /\ Sound(c, a, {}) /\ a.ok \in BOOLEAN
          /\ a.ok => a.session.txn = "open"
          /\ driver = "sqlite" => a.durable = {} /\ (a.ok => a.session.work = {})
      BY BeginAnswers DEF Rows, Apart, ApartOf, Sound
    <2>3. ErrorOf(c) /\ (~a.ok => has_error_'[c])
            /\ (driver = "mysql_async" /\ has_error_[c] => has_error_'[c])
      BY <1>1, <2>1, <2>2, ErrorReported DEF Rows
    <2>4. CASE a.ok
      <3> DEFINE b == [batch[c] EXCEPT !.begun = TRUE]
      <3>1. /\ b \in BatchType /\ b.begun = TRUE /\ b.rows = {} /\ b.error = batch[c].error
            /\ b.first = batch[c].first /\ b.size = batch[c].size /\ b.next = batch[c].next
            /\ b.kind = batch[c].kind
        BY <1>3 DEF BatchType
      <3>2. batch' = [batch EXCEPT ![c] = b]
        BY <2>1, <2>4 DEF Rows, TypeOK
      <3> HIDE DEF b
      <3>3. pc' = [pc EXCEPT ![c] = AfterBegin] /\ astray' = astray \ {c} /\ silent' = silent
        BY <2>1, <2>4 DEF Goto
      <3>4. Changes(c) /\ pc'[c] = AfterBegin /\ batch'[c] = b
        BY <1>1, <1>2, <1>4, <2>3, <3>1, <3>2, <3>3, BatchChanges
      <3>5. ShapeOf(c)' /\ Left(c)' = Left(c)
        BY <1>1, <1>3, <1>4, <3>1, <3>4 DEF ShapeOf, Left
      <3>6. Writes(c, a, {})
        BY <1>3, <2>1, <2>2, <3>1, <3>4, <3>5 DEF Writes
      <3>7. Rows' /\ OwnStep(c) /\ session'[c] = a.session
        BY <3>4, <3>5, <3>6, StepKeepsRows
      <3>8. ASSUME BatchInv, Told
            PROVE  BatchOf(c)' /\ Told'
        <4>1. Transacted(c)'
          BY <1>1, <1>5, <3>1, <3>4 DEF Transacted
        <4>2. Began(c)'
          BY <1>1, <1>4, <2>2, <2>4, <3>1, <3>4, <3>7, <4>1 DEF Began
        <4>3. driver = "mysql_async" /\ b.error => has_error_'[c]
          BY <2>3, <3>1, <3>8 DEF BatchInv, BatchOf
        <4>4. BatchOf(c)'
          BY <1>1, <3>1, <3>4, <4>2, <4>3 DEF BatchOf
        <4>5. Told'
          BY <1>1, <3>3, <3>8 DEF Told, ConfirmedIsStored
        <4>6. QED
          BY <4>4, <4>5
      <3>9. QED
        BY <1>1, <3>7, <3>8 DEF Keeps
    <2>5. CASE ~a.ok
      <3>1. /\ pc' = [pc EXCEPT ![c] = "idle"] /\ batch' = [batch EXCEPT ![c] = NoBatch]
            /\ silent' = silent /\ astray' = astray
        BY <1>2, <2>1, <2>3, <2>5 DEF Fails, Goto
      <3>2. silent' \in BOOLEAN /\ (astray' = astray \/ astray' = astray \cup {c})
        BY <1>2, <3>1
      <3>3. /\ Rows' /\ OwnStep(c) /\ session'[c] = a.session
            /\ pc'[c] = "idle" /\ batch'[c] = NoBatch
        BY <1>1, <1>2, <2>1, <2>2, <2>3, <3>1, <3>2, EndKeeps
      <3>4. ASSUME BatchInv, Told
            PROVE  BatchOf(c)' /\ Told'
        <4>1. ~user_txn'[c] /\ c \notin astray' => session'[c].txn = "none"
          BY <1>1, <1>3, <2>2, <2>5, <3>1, <3>3, <3>4 DEF Plain, Sound
        <4>2. Told'
          BY <1>1, <3>1, <3>4 DEF Told, ConfirmedIsStored
        <4>3. QED
          BY <3>3, <4>1, <4>2, IdleBatch
      <3>5. QED
        BY <1>1, <3>3, <3>4 DEF Keeps
    <2>6. QED
      BY <2>2, <2>4, <2>5
  <1>6. CASE ~Transacted(c)
    <2> DEFINE a == Answer(FALSE, session[c], {})
    <2>1. /\ Goto(c, AfterBegin)
          /\ UNCHANGED <<has_error_, server, batch, astray, silent>>
      BY <1>6 DEF BeginBatch
    <2>2. Takes(c, a) /\ Sound(c, a, {}) /\ a.session = session[c] /\ a.durable = {}
      BY <2>1, NoStatement
    <2> HIDE DEF a
    <2>3. ErrorOf(c)
      BY <1>1, <2>1 DEF ErrorOf, ErrorsShared, Rows, TypeOK
    <2>4. pc' = [pc EXCEPT ![c] = AfterBegin] /\ batch' = [batch EXCEPT ![c] = batch[c]]
            /\ silent' \in BOOLEAN
      BY <1>2, <2>1 DEF Goto, Rows, TypeOK
    <2>5. Changes(c) /\ pc'[c] = AfterBegin
      BY <1>1, <1>2, <1>3, <1>4, <2>1, <2>3, <2>4, BatchChanges
    <2>6. ShapeOf(c)' /\ Left(c)' = Left(c)
      BY <1>1, <1>3, <1>4, <2>1, <2>5 DEF ShapeOf, Left
    <2>7. Writes(c, a, {})
      BY <2>1, <2>2, <2>6 DEF Writes
    <2>8. Rows' /\ OwnStep(c) /\ session'[c] = session[c] /\ db' = db
      BY <2>2, <2>5, <2>6, <2>7, StepKeepsRows
    <2>9. ASSUME BatchInv, Told
          PROVE  BatchOf(c)' /\ Told'
      <3>1. Plain(c)' /\ ~Transacted(c)'
        BY <1>1, <1>3, <1>6, <2>1, <2>8, <2>9 DEF Plain, Transacted
      <3>2. BatchOf(c)'
        BY <1>1, <1>3, <2>1, <2>9, <3>1 DEF BatchOf, BatchInv
      <3>3. Told'
        BY <1>1, <2>1, <2>9 DEF Told, ConfirmedIsStored
      <3>4. QED
        BY <3>2, <3>3
    <2>10. QED
      BY <1>1, <2>8, <2>9 DEF Keeps
  <1>7. QED
    BY <1>5, <1>6

LEMMA ItemThrowsKeeps ==
  ASSUME Rows, NEW c \in Conns, ItemThrows(c)
  PROVE  Keeps(c)
  <1> DEFINE a == Answer(FALSE, session[c], {})
  <1>1. /\ pc[c] = "item" /\ Report(c, FALSE) /\ Fails(c, TRUE)
        /\ astray' = IF batch[c].begun THEN astray \cup {c} ELSE astray
        /\ UNCHANGED <<driver, transaction_, server, user_txn, used, void, missing, uncommitted>>
    BY DEF ItemThrows
  <1>2. Takes(c, a) /\ Sound(c, a, {}) /\ a.session = session[c]
    BY <1>1, NoStatement
  <1> HIDE DEF a
  <1>3. ErrorOf(c) /\ has_error_'[c]
    BY <1>1, ErrorReported DEF Rows
  <1>4. /\ void' \in SUBSET Row /\ missing' \in SUBSET Row /\ uncommitted' \in SUBSET Row
        /\ silent \in BOOLEAN /\ {} \in SUBSET Row /\ {} \subseteq Left(c)
    BY <1>1 DEF Rows, TypeOK
  <1>5. /\ pc' = [pc EXCEPT ![c] = "idle"] /\ batch' = [batch EXCEPT ![c] = NoBatch]
        /\ silent' = silent /\ silent' \in BOOLEAN
        /\ astray' = astray \/ astray' = astray \cup {c}
    BY <1>1, <1>3, <1>4 DEF Fails, Goto
  <1>6. /\ Rows' /\ OwnStep(c) /\ session'[c] = session[c]
        /\ pc'[c] = "idle" /\ batch'[c] = NoBatch
    BY <1>1, <1>2, <1>3, <1>4, <1>5, EndKeeps
  <1>7. ASSUME BatchInv, Told
        PROVE  BatchOf(c)' /\ Told'
    <2>1. ~user_txn'[c] /\ c \notin astray' => session'[c].txn = "none"
      BY <1>1, <1>6, <1>7 DEF BatchInv, BatchOf, Plain
    <2>2. Told'
      BY <1>1, <1>5, <1>7 DEF Told, ConfirmedIsStored
    <2>3. QED
      BY <1>6, <2>1, <2>2, IdleBatch
  <1>8. QED
    BY <1>1, <1>6, <1>7 DEF Keeps

LEMMA UndoBatchKeeps ==
  ASSUME Rows, NEW c \in Conns, UndoBatch(c)
  PROVE  Keeps(c)
  <1>1. PICK a \in Replies(c, Rollback(session[c]), {}) :
          Takes(c, a) /\ Report(c, a.ok /\ ~FinalizeReports(c))
    BY DEF UndoBatch
  <1>2. /\ pc[c] = "rollback" /\ Fails(c, batch[c].error) /\ Disown(c)
        /\ UNCHANGED <<driver, transaction_, user_txn, used, missing, uncommitted, astray>>
    BY DEF UndoBatch
  <1>3. /\ Sound(c, a, {}) /\ a.ok \in BOOLEAN /\ a.session.txn = "none"
        /\ a.session.work = {} /\ a.durable = {}
    BY RollbackAnswers DEF Rows, Apart, ApartOf, Sound
  <1>4. batch[c] \in BatchType /\ batch[c].error \in BOOLEAN /\ batch[c].rows \in SUBSET Row
    BY BatchTyped DEF BatchType
  <1>5. /\ ErrorOf(c) /\ (driver = "sqlite" /\ batch[c].error => has_error_'[c])
        /\ (driver = "mysql_async" /\ has_error_[c] => has_error_'[c])
    <2> DEFINE ok == a.ok /\ ~FinalizeReports(c)
    <2>1. ok \in BOOLEAN /\ Report(c, ok)
      BY <1>1, <1>3 DEF FinalizeReports
    <2>2. driver = "sqlite" /\ batch[c].error => ~ok
      BY DEF FinalizeReports
    <2> HIDE DEF ok
    <2>3. QED
      BY <1>2, <2>1, <2>2, ErrorReported DEF Rows
  <1>6. /\ pc' = [pc EXCEPT ![c] = "idle"] /\ batch' = [batch EXCEPT ![c] = NoBatch]
        /\ silent' = (silent \/ (batch[c].error /\ ~has_error_'[c]))
        /\ silent' \in BOOLEAN
    BY <1>2 DEF Fails, Goto
  <1>7. void' = (void \cup IF batch[c].begun THEN batch[c].rows ELSE {}) \cap Known
    BY <1>2 DEF Disown
  <1>8. /\ void' \in SUBSET Row /\ missing' \in SUBSET Row /\ uncommitted' \in SUBSET Row
        /\ {} \in SUBSET Row /\ {} \subseteq Left(c)
    BY <1>2, <1>4, <1>7 DEF Rows, TypeOK
  <1>9. /\ Rows' /\ OwnStep(c) /\ session'[c] = a.session /\ db' = db \cup a.durable
        /\ pc'[c] = "idle" /\ batch'[c] = NoBatch
    BY <1>1, <1>2, <1>3, <1>5, <1>6, <1>8, EndKeeps
  <1>10. ASSUME BatchInv, Told
         PROVE  BatchOf(c)' /\ Told'
    <2>1. void' = {}
      <3>1. batch[c].begun => batch[c].rows \cap db' = {}
        BY <1>3, <1>9, <1>10 DEF BatchInv, BatchOf, Began
      <3>2. ASSUME NEW d \in Conns
            PROVE  batch[c].rows \cap session'[d].work = {}
        <4>1. CASE d = c
          BY <1>3, <1>9, <4>1
        <4>2. CASE d # c
          <5>1. session'[d] = session[d]
            BY <1>9, <4>2 DEF OwnStep, Alone
          <5>2. QED
            BY <4>2, <5>1 DEF Rows, Apart, Touched
        <4>3. QED
          BY <4>1, <4>2
      <3>3. batch[c].begun => batch[c].rows \cap Known = {}
        BY <3>1, <3>2 DEF Known
      <3>4. QED
        BY <1>7, <1>10, <3>3 DEF Told
    <2>2. silent' => driver \in {"mysql", "postgresql"}
      <3>1. driver \in {"sqlite", "mysql", "postgresql", "mysql_async"}
        BY BatchAssumption DEF Rows, TypeOK, Blocking
      <3>2. driver = "mysql_async" /\ batch[c].error => has_error_'[c]
        BY <1>5, <1>10 DEF BatchInv, BatchOf
      <3>3. QED
        BY <1>5, <1>6, <1>10, <3>1, <3>2 DEF Told, ConfirmedIsStored
    <2>3. Told'
      BY <1>2, <1>10, <2>1, <2>2 DEF Told, ConfirmedIsStored
    <2>4. QED
      BY <1>3, <1>9, <2>3, IdleBatch
  <1>11. QED
    BY <1>2, <1>9, <1>10 DEF Keeps

LEMMA CommitBatchKeeps ==
  ASSUME Rows, NEW c \in Conns, CommitBatch(c)
  PROVE  Keeps(c)
  <1>1. /\ pc[c] = "item"
        /\ UNCHANGED <<driver, transaction_, user_txn, used, void, uncommitted>>
    BY DEF CommitBatch
  <1>2. /\ void' \in SUBSET Row /\ uncommitted' \in SUBSET Row /\ missing \in SUBSET Row
        /\ silent \in BOOLEAN /\ {} \in SUBSET Row /\ {} \subseteq Left(c)
        /\ batch[c].rows \in SUBSET Row
    BY <1>1, BatchTyped DEF Rows, TypeOK, BatchType
  <1>3. Succeeds(c) =>
          /\ pc' = [pc EXCEPT ![c] = "idle"] /\ batch' = [batch EXCEPT ![c] = NoBatch]
          /\ astray' = astray /\ silent' = silent /\ silent' \in BOOLEAN
          /\ missing' \in SUBSET Row
          /\ missing' = missing \/ (~user_txn[c] /\ c \notin astray /\
               missing' = missing \cup (batch[c].rows \ db'))
    BY <1>2 DEF Succeeds, Goto, Promise
  <1>4. CASE Commits(c)
    <2>1. PICK a \in Replies(c, Commit(session[c]), session[c].work) :
            /\ Takes(c, a) /\ Report(c, a.ok)
            /\ IF a.ok THEN Succeeds(c)
               ELSE /\ Fails(c, TRUE)
                    /\ astray' = IF a.session.txn # "none" THEN astray \cup {c} ELSE astray
                    /\ UNCHANGED missing
      BY <1>4 DEF CommitBatch
    <2>2. /\ Sound(c, a, {}) /\ a.ok \in BOOLEAN
          /\ a.ok => a.session.txn = "none" /\ session[c].alive
          /\ a.ok /\ session[c].txn # "failed" => session[c].work \subseteq a.durable
      BY CommitAnswers DEF Rows, Apart, ApartOf, Sound
    <2>3. ErrorOf(c) /\ (~a.ok => has_error_'[c])
      BY <1>1, <2>1, <2>2, ErrorReported DEF Rows
    <2>4. CASE a.ok
      <3>1. Succeeds(c)
        BY <2>1, <2>4
      <3>2. /\ Rows' /\ OwnStep(c) /\ session'[c] = a.session /\ db' = db \cup a.durable
            /\ pc'[c] = "idle" /\ batch'[c] = NoBatch
        BY <1>1, <1>2, <1>3, <2>1, <2>2, <2>3, <3>1, EndKeeps
      <3>3. ASSUME BatchInv, Told
            PROVE  BatchOf(c)' /\ Told'
        <4>1. Began(c)
          BY <1>1, <1>4, <3>3 DEF BatchInv, BatchOf, Commits
        <4>2. batch[c].rows \subseteq db'
          BY <1>1, <2>2, <2>4, <3>2, <4>1 DEF Began
        <4>3. Told'
          BY <1>1, <1>3, <3>1, <3>3, <4>2 DEF Told, ConfirmedIsStored
        <4>4. QED
          BY <2>2, <2>4, <3>2, <4>3, IdleBatch
      <3>4. QED
        BY <1>1, <3>2, <3>3 DEF Keeps
    <2>5. CASE ~a.ok
      <3>1. /\ pc' = [pc EXCEPT ![c] = "idle"] /\ batch' = [batch EXCEPT ![c] = NoBatch]
            /\ silent' = silent /\ missing' = missing
            /\ astray' = IF a.session.txn # "none" THEN astray \cup {c} ELSE astray
        BY <1>2, <2>1, <2>3, <2>5 DEF Fails, Goto
      <3>2. silent' \in BOOLEAN /\ (astray' = astray \/ astray' = astray \cup {c})
              /\ missing' \in SUBSET Row
        BY <1>2, <3>1
      <3>3. /\ Rows' /\ OwnStep(c) /\ session'[c] = a.session
            /\ pc'[c] = "idle" /\ batch'[c] = NoBatch
        BY <1>1, <1>2, <2>1, <2>2, <2>3, <3>1, <3>2, EndKeeps
      <3>4. ASSUME BatchInv, Told
            PROVE  BatchOf(c)' /\ Told'
        <4>1. Told'
          BY <1>1, <3>1, <3>4 DEF Told, ConfirmedIsStored
        <4>2. QED
          BY <3>1, <3>3, <4>1, IdleBatch
      <3>5. QED
        BY <1>1, <3>3, <3>4 DEF Keeps
    <2>6. QED
      BY <2>2, <2>4, <2>5
  <1>5. CASE ~Commits(c)
    <2> DEFINE a == Answer(FALSE, session[c], {})
    <2>1. UNCHANGED <<has_error_, server>> /\ Succeeds(c)
      BY <1>5 DEF CommitBatch
    <2>2. Takes(c, a) /\ Sound(c, a, {}) /\ a.session = session[c] /\ a.durable = {}
      BY <2>1, NoStatement
    <2> HIDE DEF a
    <2>3. ErrorOf(c)
      BY <1>1, <2>1 DEF ErrorOf, ErrorsShared, Rows, TypeOK
    <2>4. /\ Rows' /\ OwnStep(c) /\ session'[c] = session[c] /\ db' = db
          /\ pc'[c] = "idle" /\ batch'[c] = NoBatch
      <3>1. db \cup {} = db
        OBVIOUS
      <3>2. QED
        BY <1>1, <1>2, <1>3, <2>1, <2>2, <2>3, <3>1, EndKeeps
    <2>5. ASSUME BatchInv, Told
          PROVE  BatchOf(c)' /\ Told'
      <3>1. Plain(c)
        BY <1>5, <2>5 DEF BatchInv, BatchOf, Began, Commits
      <3>2. Told'
        BY <1>1, <1>3, <2>1, <2>4, <2>5, <3>1 DEF Told, ConfirmedIsStored, Plain
      <3>3. QED
        BY <1>1, <1>3, <2>1, <2>4, <3>1, <3>2, IdleBatch DEF Plain
    <2>6. QED
      BY <1>1, <2>4, <2>5 DEF Keeps
  <1>6. QED
    BY <1>4, <1>5

LEMMA WriteItemKeeps ==
  ASSUME Rows, NEW c \in Conns, WriteItem(c)
  PROVE  Keeps(c)
  <1> DEFINE row == NextRow(c)
  <1>1. PICK a \in Replies(c, Write(session[c], row), Autocommitted(c, row)) :
          /\ Takes(c, a) /\ ReportItem(c, a.ok)
          /\ IF Accepted(batch[c].kind, a, row)
               THEN /\ batch' = [batch EXCEPT ![c].next = @ + 1,
                                              ![c].rows = @ \cup Written(a, row)]
                    /\ UNCHANGED <<pc, void, silent>>
               ELSE IF Undoes(c)
               THEN /\ Goto(c, "rollback")
                    /\ batch' = [batch EXCEPT ![c].error = ~a.ok]
                    /\ UNCHANGED <<void, silent>>
               ELSE /\ Fails(c, ~a.ok)
                    /\ Disown(c)
    BY DEF WriteItem
  <1>2. /\ pc[c] = "item" /\ batch[c].next < batch[c].size
        /\ ~Mismatch(batch[c].kind)
        /\ UNCHANGED <<driver, transaction_, user_txn, used, missing, uncommitted, astray>>
    BY DEF WriteItem
  <1>3. /\ batch[c] \in BatchType /\ ShapeOf(c) /\ ApartOf(c)
        /\ used \in Nat /\ used <= MaxRows /\ MaxRows \in Nat /\ MaxBatch \in Nat
        /\ batch[c].next \in Nat /\ batch[c].size \in Nat /\ batch[c].first \in Nat
        /\ batch[c].size <= MaxBatch /\ batch[c].rows \in SUBSET Row
        /\ batch[c].first > 0 /\ batch[c].first + batch[c].size <= used + 1
    <2>1. batch[c] \in BatchType /\ ShapeOf(c) /\ ApartOf(c)
      BY BatchTyped
    <2>2. used \in Nat /\ used <= MaxRows /\ MaxRows \in Nat /\ MaxBatch \in Nat
      BY BatchAssumption DEF Rows, TypeOK
    <2>3. QED
      BY <1>2, <2>1, <2>2 DEF BatchType, ShapeOf
  <1>4. /\ row = batch[c].first + batch[c].next
        /\ row \in Nat /\ row > 0 /\ row <= used /\ row \in Row
        /\ Left(c) = row .. batch[c].first + batch[c].size - 1
        /\ row \in Left(c)
    BY <1>2, <1>3 DEF NextRow, Left, Row
  <1> HIDE DEF row
  <1>5. row \notin db /\ row \notin session[c].work /\ row \notin batch[c].rows
          /\ session[c].work \cap db = {} /\ SessionInv(session[c])
    BY <1>3, <1>4 DEF ApartOf
  <1>6. /\ Sound(c, a, {row}) /\ a.ok \in BOOLEAN
        /\ a.durable \subseteq {row}
        /\ session[c].txn # "none" => a.durable = {}
        /\ session[c].txn = "none" => a.session.txn = "none"
        /\ a.ok => a.session.txn = session[c].txn /\ session[c].work \subseteq a.session.work
        /\ ~a.ok => a.session.work \subseteq session[c].work
    BY <1>4, <1>5, WriteAnswers DEF Rows, Sound
  <1>7. /\ a.session.work \subseteq session[c].work \cup {row}
        /\ a.ok => session[c].alive /\ a.session.alive
        /\ SessionInv(a.session)
    BY <1>6 DEF Sound
  <1>8. /\ ErrorOf(c)
        /\ driver # "postgresql" /\ ~a.ok => has_error_'[c]
    <2>1. CASE driver = "postgresql"
      BY <1>1, <1>2, <1>6, <2>1, ErrorReported DEF ReportItem, Rows
    <2>2. CASE driver # "postgresql"
      <3> DEFINE error == has_error_[c] \/ ~a.ok
      <3>1. SetError(c, error) /\ error \in BOOLEAN
        BY <1>1, <1>6, <2>2 DEF ReportItem, Rows, TypeOK
      <3>2. ~a.ok => error
        OBVIOUS
      <3> HIDE DEF error
      <3>3. QED
        BY <1>2, <3>1, <3>2, ErrorSet DEF Rows
    <2>3. QED
      BY <2>1, <2>2
  <1>9. /\ missing' \in SUBSET Row /\ uncommitted' \in SUBSET Row /\ void \in SUBSET Row
        /\ silent \in BOOLEAN /\ {row} \in SUBSET Row /\ {row} \subseteq Left(c)
        /\ Written(a, row) \subseteq {row}
    BY <1>2, <1>4 DEF Rows, TypeOK, Written
  <1>10. CASE Accepted(batch[c].kind, a, row)
    <2> DEFINE b == [batch[c] EXCEPT !.next = @ + 1, !.rows = @ \cup Written(a, row)]
    <2>1. /\ b \in BatchType /\ b.next = batch[c].next + 1
          /\ b.rows = batch[c].rows \cup Written(a, row)
          /\ b.begun = batch[c].begun /\ b.error = batch[c].error
          /\ b.first = batch[c].first /\ b.size = batch[c].size /\ b.kind = batch[c].kind
      <3>1. batch[c].next + 1 \in 0..MaxBatch /\ batch[c].rows \cup Written(a, row) \in SUBSET Row
        BY <1>2, <1>3, <1>9
      <3>2. b = [[batch[c] EXCEPT !.next = batch[c].next + 1]
                   EXCEPT !.rows = batch[c].rows \cup Written(a, row)]
        BY <1>3 DEF BatchType
      <3> HIDE DEF b
      <3>3. QED
        BY <1>3, <3>1, <3>2 DEF BatchType
    <2>2. batch' = [batch EXCEPT ![c] = b]
      BY <1>1, <1>10 DEF Rows, TypeOK
    <2> HIDE DEF b
    <2>3. /\ pc' = [pc EXCEPT ![c] = "item"] /\ pc' = pc /\ void' = void /\ silent' = silent
      BY <1>1, <1>2, <1>10 DEF Rows, TypeOK
    <2>4. Changes(c) /\ pc'[c] = "item" /\ batch'[c] = b
      BY <1>2, <1>8, <1>9, <2>1, <2>2, <2>3, BatchChanges
    <2>5. ShapeOf(c)'
      BY <1>2, <1>3, <2>1, <2>4 DEF ShapeOf
    <2>6. Left(c)' \subseteq Left(c) \ {row}
      BY <1>2, <1>3, <1>4, <2>1, <2>4 DEF Left
    <2>7. Writes(c, a, {row})
      BY <1>1, <1>6, <1>9, <2>1, <2>4, <2>6 DEF Writes
    <2>8. Rows' /\ OwnStep(c) /\ session'[c] = a.session /\ db' = db \cup a.durable
      BY <2>4, <2>5, <2>7, StepKeepsRows
    <2>9. ASSUME BatchInv, Told
          PROVE  BatchOf(c)' /\ Told'
      <3>1. a.ok /\ BatchOf(c)
        BY <1>10, <2>9 DEF Accepted, BatchInv
      <3>2. Transacted(c)' = Transacted(c)
        BY <1>2, <2>1, <2>4 DEF Transacted
      <3>3. Began(c) => Began(c)'
        <4>1. SUFFICES ASSUME Began(c) PROVE Began(c)'
          OBVIOUS
        <4>2. /\ session[c].txn = "open" /\ batch[c].rows \subseteq session[c].work
              /\ batch[c].rows \cap db = {}
              /\ driver = "sqlite" => session[c].work \subseteq batch[c].rows
          BY <1>2, <1>7, <3>1, <4>1 DEF Began
        <4>3. a.durable = {} /\ a.session.txn = "open" /\ session[c].work \subseteq a.session.work
          BY <1>6, <3>1, <4>2
        <4>4. Written(a, row) = {row} \cap a.session.work
          BY <4>3 DEF Written
        <4>5. /\ b.rows \subseteq a.session.work
              /\ driver = "sqlite" => a.session.work \subseteq b.rows
          BY <1>7, <2>1, <4>2, <4>3, <4>4
        <4>6. b.rows \cap db' = {}
          BY <1>5, <1>9, <2>1, <2>8, <4>2, <4>3
        <4>7. QED
          BY <1>2, <2>4, <2>8, <3>2, <4>1, <4>3, <4>5, <4>6 DEF Began
      <3>4. Plain(c) => Plain(c)'
        <4>1. SUFFICES ASSUME Plain(c), ~user_txn[c], c \notin astray
                       PROVE  a.session.txn = "none" /\ b.rows \subseteq db'
          BY <1>2, <2>4, <2>8 DEF Plain
        <4>2. session[c].txn = "none" /\ batch[c].rows \subseteq db
          BY <4>1 DEF Plain
        <4>3. a.session.work = {}
          BY <1>6, <1>7, <4>2 DEF SessionInv
        <4>4. QED
          BY <1>6, <2>1, <2>8, <4>2, <4>3 DEF Written
      <3>5. driver = "mysql_async" /\ b.error => has_error_'[c]
        <4>1. driver = "mysql_async" => (has_error_[c] => has_error_'[c])
          BY <1>1, <1>2, <1>6, ErrorSet DEF ReportItem, Rows, TypeOK
        <4>2. QED
          BY <2>1, <3>1, <4>1 DEF BatchOf
      <3>6. BatchOf(c)'
        BY <1>2, <2>1, <2>4, <3>1, <3>2, <3>3, <3>4, <3>5 DEF BatchOf
      <3>7. Told'
        BY <1>2, <2>3, <2>9 DEF Told, ConfirmedIsStored
      <3>8. QED
        BY <3>6, <3>7
    <2>10. QED
      BY <1>2, <2>8, <2>9 DEF Keeps
  <1>11. CASE ~Accepted(batch[c].kind, a, row) /\ Undoes(c)
    <2> DEFINE b == [batch[c] EXCEPT !.error = ~a.ok]
    <2>1. /\ b \in BatchType /\ b.next = batch[c].next /\ b.rows = batch[c].rows
          /\ b.begun = batch[c].begun /\ b.error = ~a.ok
          /\ b.first = batch[c].first /\ b.size = batch[c].size /\ b.kind = batch[c].kind
      BY <1>3, <1>6 DEF BatchType
    <2>2. batch' = [batch EXCEPT ![c] = b]
      BY <1>1, <1>11 DEF Rows, TypeOK
    <2> HIDE DEF b
    <2>3. /\ pc' = [pc EXCEPT ![c] = "rollback"] /\ void' = void /\ silent' = silent
      BY <1>1, <1>11 DEF Goto
    <2>4. Changes(c) /\ pc'[c] = "rollback" /\ batch'[c] = b
      BY <1>2, <1>8, <1>9, <2>1, <2>2, <2>3, BatchChanges
    <2>5. ShapeOf(c)' /\ Left(c)' = {}
      BY <1>2, <1>3, <2>1, <2>4 DEF ShapeOf, Left
    <2>6. Writes(c, a, {row})
      BY <1>1, <1>6, <1>9, <2>1, <2>4, <2>5 DEF Writes
    <2>7. Rows' /\ OwnStep(c) /\ session'[c] = a.session /\ db' = db \cup a.durable
      BY <2>4, <2>5, <2>6, StepKeepsRows
    <2>8. ASSUME BatchInv, Told
          PROVE  BatchOf(c)' /\ Told'
      <3>1. BatchOf(c)
        BY <2>8 DEF BatchInv
      <3>2. Transacted(c)' = Transacted(c)
        BY <1>2, <2>1, <2>4 DEF Transacted
      <3>3. Began(c) => Began(c)'
        <4>1. SUFFICES ASSUME Began(c) PROVE Began(c)'
          OBVIOUS
        <4>2. b.rows \cap db' = {}
          BY <1>5, <1>6, <2>1, <2>7, <4>1 DEF Began
        <4>3. driver = "sqlite" => a.session.work \subseteq b.rows
          <5>1. SUFFICES ASSUME driver = "sqlite" PROVE a.session.work \subseteq b.rows
            OBVIOUS
          <5>2. session[c].work \subseteq batch[c].rows
            BY <4>1, <5>1 DEF Began
          <5>3. a.ok => row \notin a.session.work
            BY <1>11, <5>1 DEF Accepted, Written
          <5>4. QED
            BY <1>6, <1>7, <2>1, <5>2, <5>3
        <4>4. QED
          BY <1>2, <2>4, <2>7, <3>2, <4>1, <4>2, <4>3 DEF Began
      <3>4. Plain(c) => Plain(c)'
        BY <1>2, <1>6, <2>1, <2>4, <2>7 DEF Plain
      <3>5. driver = "mysql_async" /\ b.error => has_error_'[c]
        BY <1>8, <2>1
      <3>6. BatchOf(c)'
        BY <1>2, <2>1, <2>4, <3>1, <3>3, <3>4, <3>5 DEF BatchOf
      <3>7. Told'
        BY <1>2, <2>3, <2>8 DEF Told, ConfirmedIsStored
      <3>8. QED
        BY <3>6, <3>7
    <2>9. QED
      BY <1>2, <2>7, <2>8 DEF Keeps
  <1>12. CASE ~Accepted(batch[c].kind, a, row) /\ ~Undoes(c)
    <2>1. /\ pc' = [pc EXCEPT ![c] = "idle"] /\ batch' = [batch EXCEPT ![c] = NoBatch]
          /\ silent' = (silent \/ (~a.ok /\ ~has_error_'[c])) /\ silent' \in BOOLEAN
          /\ void' = (void \cup IF batch[c].begun THEN batch[c].rows ELSE {}) \cap Known
      BY <1>1, <1>12 DEF Fails, Goto, Disown
    <2>2. void' \in SUBSET Row
      BY <1>3, <1>9, <2>1
    <2>3. /\ Rows' /\ OwnStep(c) /\ session'[c] = a.session
          /\ pc'[c] = "idle" /\ batch'[c] = NoBatch
      BY <1>1, <1>2, <1>6, <1>8, <1>9, <2>1, <2>2, EndKeeps
    <2>4. ASSUME BatchInv, Told
          PROVE  BatchOf(c)' /\ Told'
      <3>1. ~batch[c].begun /\ Plain(c)
        BY <1>12, <2>4 DEF BatchInv, BatchOf, Began, Transacted, Undoes
      <3>2. silent' => driver \in {"mysql", "postgresql"}
        BY <1>8, <2>1, <2>4 DEF Told, ConfirmedIsStored
      <3>3. Told'
        BY <1>2, <2>1, <2>4, <3>1, <3>2 DEF Told, ConfirmedIsStored
      <3>4. QED
        BY <1>2, <1>6, <2>3, <3>1, <3>3, IdleBatch DEF Plain
    <2>5. QED
      BY <1>2, <2>3, <2>4 DEF Keeps
  <1>13. QED
    BY <1>10, <1>11, <1>12

-----------------------------------------------------------------------------
(* The theorems                                                            *)

LEMMA Initially ==
  ASSUME Init
  PROVE  IInv
  <1>1. \A c \in Conns : /\ session[c].txn = "none" /\ session[c].work = {} /\ session[c].alive
                         /\ batch[c] = NoBatch /\ pc[c] = "idle" /\ Left(c) = {}
    BY DEF Init, NoSession, Left, NoBatch
  <1>2. NoBatch.rows = {} /\ ~NoBatch.begun /\ ~NoBatch.error
          /\ NoBatch \in BatchType
    BY BatchAssumption DEF NoBatch, BatchType, Kinds
  <1>3. TypeOK
    <2>1. {db, void, missing, uncommitted} \subseteq SUBSET Row /\ used \in 0..MaxRows
      BY BatchAssumption DEF Init
    <2>2. [NoSession EXCEPT !.alive = TRUE] \in SessionType
      BY DEF NoSession, SessionType
    <2>3. QED
      BY <1>2, <2>1, <2>2 DEF Init, TypeOK, BatchType, SessionType
  <1>4. Shape
    BY <1>1, <1>2 DEF Shape, ShapeOf
  <1>5. Apart
    BY <1>1, <1>2 DEF Init, Apart, ApartOf, Touched, SessionInv
  <1>6. BatchInv
    BY <1>1, <1>2 DEF BatchInv, BatchOf, Plain
  <1>7. Told
    BY DEF Init, Told, ConfirmedIsStored
  <1>8. QED
    BY <1>3, <1>4, <1>5, <1>6, <1>7 DEF IInv, Rows

LEMMA SetEnableTransactionKeeps ==
  ASSUME Rows, NEW c \in Conns, NEW enable \in BOOLEAN, SetEnableTransaction(c, enable)
  PROVE  /\ Rows' /\ (TogglesQuiet /\ BatchInv /\ Told => BatchInv' /\ Told')
         /\ UNCHANGED db
  <1>1. /\ TogglesQuiet => \A d \in Conns : pc[d] = "idle"
        /\ transaction_' =
             [d \in Conns |-> IF d \in Sharing(c) THEN enable ELSE transaction_[d]]
        /\ UNCHANGED <<driver, has_error_, session, db, pc, batch, user_txn, used, void, missing,
                       uncommitted, astray, silent>>
    BY DEF SetEnableTransaction, server, call, ghosts
  <1>2. TypeOK'
    BY <1>1 DEF Rows, TypeOK, Sharing
  <1>3. \A d \in Conns : Left(d)' = Left(d) /\ Touched(d)' = Touched(d)
    BY <1>1 DEF Left, Touched
  <1>4. Shape' /\ Apart'
    BY <1>1, <1>3 DEF Rows, Shape, ShapeOf, Apart, ApartOf, SessionInv
  <1>5. ASSUME TogglesQuiet, BatchInv, Told
        PROVE  BatchInv' /\ Told'
    <2>1. ASSUME NEW d \in Conns
          PROVE  BatchOf(d)'
      <3>1. batch[d] = NoBatch /\ pc[d] = "idle"
        BY <1>1, <1>5, IdleLeft
      <3>2. Plain(d)
        BY <1>5, <3>1 DEF BatchInv, BatchOf, NoBatch
      <3>3. QED
        BY <1>1, <3>1, <3>2, IdleBatch DEF Plain
    <2>2. Told'
      BY <1>1, <1>5 DEF Told, ConfirmedIsStored
    <2>3. QED
      BY <2>1, <2>2 DEF BatchInv
  <1>6. QED
    BY <1>1, <1>2, <1>4, <1>5 DEF Rows

LEMMA StepKeeps ==
  ASSUME Rows, [Next]_vars
  PROVE  Rows' /\ (TogglesQuiet /\ BatchInv /\ Told => BatchInv' /\ Told')
  <1>1. CASE UNCHANGED vars
    <2>1. UNCHANGED <<driver, transaction_, has_error_, session, db, pc, batch, user_txn, used,
                      void, missing, uncommitted, astray, silent>>
      BY <1>1 DEF vars, client, server, call, ghosts
    <2>2. \A c \in Conns : /\ Left(c)' = Left(c) /\ Touched(c)' = Touched(c)
                           /\ Transacted(c)' = Transacted(c)
      BY <2>1 DEF Left, Touched, Transacted
    <2>3. TypeOK' /\ Shape' /\ Apart'
      BY <2>1, <2>2 DEF Rows, TypeOK, Shape, ShapeOf, Apart, ApartOf, SessionInv
    <2>4. BatchInv => BatchInv'
      BY <2>1, <2>2 DEF BatchInv, BatchOf, Began, Plain
    <2>5. Told => Told'
      BY <2>1 DEF Told, ConfirmedIsStored
    <2>6. QED
      BY <2>3, <2>4, <2>5 DEF Rows
  <1>2. ASSUME NEW c \in Conns, Keeps(c)
        PROVE  Rows' /\ (TogglesQuiet /\ BatchInv /\ Told => BatchInv' /\ Told')
    BY <1>2, BatchesKept DEF Keeps
  <1>3. ASSUME NEW c \in Conns, UserStep(c)
        PROVE  Rows' /\ (TogglesQuiet /\ BatchInv /\ Told => BatchInv' /\ Told')
    <2>1. CASE UserBegin(c)
      BY <1>2, <2>1, UserBeginKeeps
    <2>2. CASE UserCommit(c)
      BY <1>2, <2>2, UserCommitKeeps
    <2>3. CASE UserRollback(c)
      BY <1>2, <2>3, UserRollbackKeeps
    <2>4. CASE Connect(c)
      BY <1>2, <2>4, ConnectKeeps
    <2>5. CASE \E enable \in BOOLEAN : SetEnableTransaction(c, enable)
      BY <2>5, SetEnableTransactionKeeps
    <2>6. CASE PrepareOne(c)
      BY <1>2, <2>6, PrepareOneKeeps
    <2>7. CASE \E kind \in KindsOf : WriteOne(c, kind)
      BY <1>2, <2>7, WriteOneKeeps
    <2>8. CASE \E kind \in KindsOf : \E size \in 0..MaxBatch : BatchCall(c, kind, size)
      BY <1>2, <2>8, BatchCallKeeps
    <2>9. QED
      BY <1>3, <2>1, <2>2, <2>3, <2>4, <2>5, <2>6, <2>7, <2>8 DEF UserStep
  <1>4. ASSUME NEW c \in Conns, BatchStep(c)
        PROVE  Rows' /\ (TogglesQuiet /\ BatchInv /\ Told => BatchInv' /\ Told')
    <2>1. Keeps(c)
      BY <1>4, PrepareBatchKeeps, BeginBatchKeeps, ItemThrowsKeeps, WriteItemKeeps,
         UndoBatchKeeps, CommitBatchKeeps DEF BatchStep
    <2>2. QED
      BY <1>2, <2>1
  <1>5. QED
    BY <1>1, <1>3, <1>4 DEF Next

\* Types, and the members that the blocking drivers' connections share agree,
\* whenever set_enable_transaction() is called.
THEOREM TypeCorrect == Spec => []TypeOK
  <1>1. Init => Rows
    BY Initially DEF IInv
  <1>2. Rows /\ [Next]_vars => Rows'
    BY StepKeeps
  <1>3. Rows => TypeOK
    BY DEF Rows
  <1>4. QED
    BY <1>1, <1>2, <1>3, PTL DEF Spec

\* A row that is in a session's open transaction is in no other session, not
\* durable, and not still to be written.
THEOREM RowsAreApart == Spec => []Apart
  <1>1. Init => Rows
    BY Initially DEF IInv
  <1>2. Rows /\ [Next]_vars => Rows'
    BY StepKeeps
  <1>3. Rows => Apart
    BY DEF Rows
  <1>4. QED
    BY <1>1, <1>2, <1>3, PTL DEF Spec

\* The inductive invariant.
THEOREM BatchesAreKnown ==
  ASSUME TogglesQuiet
  PROVE  Spec => []IInv
  <1>1. Init => IInv
    BY Initially
  <1>2. IInv /\ [Next]_vars => IInv'
    BY StepKeeps DEF IInv
  <1>3. QED
    BY <1>1, <1>2, PTL DEF Spec

\* A vector that began a transaction of its own and returns INT_MIN leaves
\* none of its rows durable: rollback() and a broken connection undo them all.
THEOREM FailureLeavesNothing ==
  ASSUME TogglesQuiet
  PROVE  Spec => []FailedBatchLeavesNothing
  <1>1. IInv => FailedBatchLeavesNothing
    BY DEF IInv, Told, FailedBatchLeavesNothing
  <1>2. QED
    BY <1>1, BatchesAreKnown, PTL

\* What insert(), update() or commit() report as done is durable, and a
\* failure by an error of the database is seen in has_error(), where the
\* driver's rollback() does not clear it.
THEOREM SuccessIsStored ==
  ASSUME TogglesQuiet
  PROVE  Spec => []ConfirmedIsStored
  <1>1. IInv => ConfirmedIsStored
    BY DEF IInv, Told
  <1>2. QED
    BY <1>1, BatchesAreKnown, PTL

\* The call of a vector ends the transaction it began, but at the three exits
\* that `astray' names.
THEOREM TransactionsEnd ==
  ASSUME TogglesQuiet
  PROVE  Spec => []NoTransactionLeft
  <1>1. IInv => NoTransactionLeft
    <2>1. SUFFICES ASSUME IInv, NEW c \in Conns, pc[c] = "idle", ~user_txn[c], c \notin astray
                   PROVE  session[c].txn = "none"
      BY DEF NoTransactionLeft
    <2>2. batch[c] = NoBatch
      BY <2>1, IdleLeft DEF IInv
    <2>3. Plain(c)
      BY <2>1, <2>2 DEF IInv, BatchInv, BatchOf, NoBatch
    <2>4. QED
      BY <2>1, <2>3 DEF Plain
  <1>2. QED
    BY <1>1, BatchesAreKnown, PTL

-----------------------------------------------------------------------------
(* The application's transaction                                           *)

\* What becomes durable in a step of c does not come from an open transaction
\* of the application.
OwnUserKept(c) ==
  user_txn[c] /\ user_txn'[c] /\ session'[c].alive /\ (transaction_[c] => driver = "sqlite")
    => (session[c].work \ OwnRows(c)) \cap (db' \ db) = {}

LEMMA UserStepKeepsTransaction ==
  ASSUME IInv, NEW c \in Conns, UserStep(c)
  PROVE  OwnUserKept(c)
  <1>1. Rows /\ SessionInv(session[c]) /\ TypeOK /\ session \in [Conns -> SessionType]
    BY BatchTyped DEF IInv, Rows, TypeOK, SessionType
  <1>2. CASE UserBegin(c)
    BY <1>2 DEF UserBegin, OwnUserKept
  <1>3. CASE UserCommit(c)
    <2>1. PICK a \in Replies(c, Commit(session[c]), session[c].work) :
            Takes(c, a) /\ user_txn' = [user_txn EXCEPT ![c] = @ /\ ~a.ok]
      BY <1>3 DEF UserCommit
    <2>2. session'[c] = a.session /\ db' = db \cup a.durable
      BY <1>1, <2>1 DEF Takes
    <2>3. a.ok \/ ~a.session.alive \/ a.durable = {}
      BY <1>1, <2>1, CommitAnswers
    <2>4. user_txn'[c] => ~a.ok
      BY <1>1, <2>1 DEF TypeOK
    <2>5. QED
      BY <2>2, <2>3, <2>4 DEF OwnUserKept
  <1>4. CASE UserRollback(c) \/ Connect(c)
    <2>1. user_txn' = [user_txn EXCEPT ![c] = FALSE]
      BY <1>4 DEF UserRollback, Connect
    <2>2. QED
      BY <1>1, <2>1 DEF TypeOK, OwnUserKept
  <1>5. CASE \E enable \in BOOLEAN : SetEnableTransaction(c, enable)
    BY <1>5 DEF SetEnableTransaction, server, OwnUserKept
  <1>6. CASE PrepareOne(c)
    <2>1. PICK a \in Replies(c, Prepare(session[c]), {}) : Takes(c, a)
      BY <1>6 DEF PrepareOne
    <2>2. QED
      BY <1>1, <2>1, PrepareAnswers DEF Takes, OwnUserKept
  <1>7. ASSUME NEW kind \in KindsOf, WriteOne(c, kind)
        PROVE  OwnUserKept(c)
    <2>1. CASE Mismatch(kind)
      BY <1>7, <2>1 DEF WriteOne, server, OwnUserKept
    <2>2. CASE ~Mismatch(kind)
      <3>1. used < MaxRows /\ used' = used + 1 /\ used \in Nat /\ used' \in Row
        BY <1>1, <1>7, BatchAssumption DEF WriteOne, TypeOK, Row
      <3>2. PICK a \in Replies(c, Write(session[c], used'), Autocommitted(c, used')) : Takes(c, a)
        BY <1>7, <2>2 DEF WriteOne
      <3>3. a.durable \subseteq {used'}
        BY <1>1, <3>1, <3>2, WriteAnswers
      <3>4. used' \notin session[c].work
        BY <1>1, <3>1 DEF Rows, Apart, ApartOf, Touched
      <3>5. QED
        BY <3>2, <3>3, <3>4 DEF Takes, OwnUserKept
    <2>3. QED
      BY <2>1, <2>2
  <1>8. ASSUME NEW kind \in KindsOf, NEW size \in 0..MaxBatch, BatchCall(c, kind, size)
        PROVE  OwnUserKept(c)
    BY <1>8 DEF BatchCall, server, OwnUserKept
  <1>9. QED
    BY <1>2, <1>3, <1>4, <1>5, <1>6, <1>7, <1>8 DEF UserStep

LEMMA BatchStepKeepsTransaction ==
  ASSUME IInv, NEW c \in Conns, BatchStep(c)
  PROVE  OwnUserKept(c)
  <1>1. Rows /\ SessionInv(session[c]) /\ TypeOK /\ session \in [Conns -> SessionType]
    BY BatchTyped DEF IInv, Rows, TypeOK, SessionType
  <1>2. CASE PrepareBatch(c)
    <2>1. PICK a \in Replies(c, Prepare(session[c]), {}) : Takes(c, a)
      BY <1>2 DEF PrepareBatch
    <2>2. QED
      BY <1>1, <2>1, PrepareAnswers DEF Takes, OwnUserKept
  <1>3. CASE BeginBatch(c)
    <2>1. CASE Transacted(c)
      <3>1. PICK a \in Replies(c, Begin(session[c]), session[c].work) : Takes(c, a)
        BY <1>3, <2>1 DEF BeginBatch
      <3>2. driver = "sqlite" => a.durable = {}
        BY <1>1, <3>1, BeginAnswers
      <3>3. QED
        BY <2>1, <3>1, <3>2 DEF Takes, Transacted, OwnUserKept
    <2>2. CASE ~Transacted(c)
      BY <1>3, <2>2 DEF BeginBatch, server, OwnUserKept
    <2>3. QED
      BY <2>1, <2>2
  <1>4. CASE ItemThrows(c)
    BY <1>4 DEF ItemThrows, server, OwnUserKept
  <1>5. CASE WriteItem(c)
    <2>1. PICK a \in Replies(c, Write(session[c], NextRow(c)), Autocommitted(c, NextRow(c))) :
            Takes(c, a)
      BY <1>5 DEF WriteItem
    <2>2. pc[c] = "item" /\ batch[c].next < batch[c].size
      BY <1>5 DEF WriteItem
    <2>3. NextRow(c) \in Left(c) /\ NextRow(c) \in Row
      <3>1. batch[c] \in BatchType /\ ShapeOf(c) /\ used \in 0..MaxRows
        BY <1>1, BatchTyped DEF TypeOK
      <3>2. QED
        BY <2>2, <3>1, BatchAssumption DEF NextRow, Left, Row, BatchType, ShapeOf
    <2>4. a.durable \subseteq {NextRow(c)}
      BY <1>1, <2>1, <2>3, WriteAnswers
    <2>5. NextRow(c) \notin session[c].work
      BY <1>1, <2>3, BatchTyped DEF ApartOf
    <2>6. QED
      BY <2>1, <2>4, <2>5 DEF Takes, OwnUserKept
  <1>6. CASE UndoBatch(c)
    <2>1. PICK a \in Replies(c, Rollback(session[c]), {}) : Takes(c, a)
      BY <1>6 DEF UndoBatch
    <2>2. QED
      BY <1>1, <2>1, RollbackAnswers DEF Takes, OwnUserKept
  <1>7. CASE CommitBatch(c)
    <2>1. CASE Commits(c)
      <3>1. batch[c].begun /\ Began(c)
        BY <1>7, <2>1 DEF CommitBatch, Commits, IInv, BatchInv, BatchOf
      <3>2. transaction_[c] /\ (driver = "sqlite" => session[c].work \subseteq batch[c].rows)
        BY <3>1 DEF Began, Transacted
      <3>3. QED
        BY <3>1, <3>2 DEF OwnUserKept, OwnRows
    <2>2. CASE ~Commits(c)
      BY <1>7, <2>2 DEF CommitBatch, server, OwnUserKept
    <2>3. QED
      BY <2>1, <2>2
  <1>8. QED
    BY <1>2, <1>3, <1>4, <1>5, <1>6, <1>7 DEF BatchStep

\* A step of one connection makes nothing durable of a transaction of another.
LEMMA OthersKeepTransaction ==
  ASSUME Rows, NEW c \in Conns, OwnStep(c), NEW d \in Conns \ {c}
  PROVE  session[d].work \cap (db' \ db) = {}
  BY OthersApart DEF Touched

\* What the application wrote in its transaction becomes durable only by its
\* own commit(): when set_enable_transaction(false) was called, and in sqlite
\* always, no vector written inside the transaction commits it.
THEOREM ApplicationDecides ==
  ASSUME TogglesQuiet
  PROVE  Spec => UserTransactionKept
  <1> DEFINE Kept == \A c \in Conns : OwnUserKept(c)
  <1>1. ASSUME IInv, NEW c \in Conns, Keeps(c), OwnUserKept(c)
        PROVE  Kept
    <2>1. OwnStep(c) /\ Rows
      BY <1>1 DEF Keeps, IInv
    <2>2. \A d \in Conns \ {c} : session[d].work \cap (db' \ db) = {}
      BY <2>1, OthersKeepTransaction
    <2>3. QED
      BY <1>1, <2>2 DEF OwnUserKept
  <1>2. ASSUME IInv, db' = db
        PROVE  Kept
    BY <1>2 DEF OwnUserKept
  <1>3. ASSUME IInv, [Next]_vars
        PROVE  Kept
    <2>1. CASE UNCHANGED vars
      BY <1>2, <1>3, <2>1 DEF vars, server
    <2>2. ASSUME NEW c \in Conns, UserStep(c)
          PROVE  Kept
      <3>1. Rows
        BY <1>3 DEF IInv
      <3>2. CASE \E enable \in BOOLEAN : SetEnableTransaction(c, enable)
        BY <1>2, <1>3, <3>1, <3>2, SetEnableTransactionKeeps
      <3>3. CASE ~\E enable \in BOOLEAN : SetEnableTransaction(c, enable)
        <4>1. Keeps(c)
          BY <2>2, <3>1, <3>3, UserBeginKeeps, UserCommitKeeps, UserRollbackKeeps, ConnectKeeps,
             PrepareOneKeeps, WriteOneKeeps, BatchCallKeeps DEF UserStep
        <4>2. QED
          BY <1>1, <1>3, <2>2, <4>1, UserStepKeepsTransaction
      <3>4. QED
        BY <3>2, <3>3
    <2>3. ASSUME NEW c \in Conns, BatchStep(c)
          PROVE  Kept
      <3>1. Keeps(c)
        BY <1>3, <2>3, PrepareBatchKeeps, BeginBatchKeeps, ItemThrowsKeeps, WriteItemKeeps,
           UndoBatchKeeps, CommitBatchKeeps DEF BatchStep, IInv
      <3>2. QED
        BY <1>1, <1>3, <2>3, <3>1, BatchStepKeepsTransaction
    <2>4. QED
      BY <1>3, <2>1, <2>2, <2>3 DEF Next
  <1>4. IInv /\ [Next]_vars =>
          [\A c \in Conns :
             user_txn[c] /\ user_txn'[c] /\ session'[c].alive
               /\ (transaction_[c] => driver = "sqlite")
             => (session[c].work \ OwnRows(c)) \cap (db' \ db) = {}]_vars
    BY <1>3 DEF OwnUserKept
  <1>5. QED
    BY <1>4, BatchesAreKnown, PTL DEF Spec, UserTransactionKept
=============================================================================
