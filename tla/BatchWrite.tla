------------------------------ MODULE BatchWrite ------------------------------
(***************************************************************************)
(* Writing rows and transactions in the four drivers: insert(), update()   *)
(* and get_insert_id_after_insert() of one object and of a vector, and     *)
(* begin(), commit(), rollback(), set_enable_transaction(), in             *)
(* src/ormpp/sqlite.hpp, mysql.hpp, postgresql.hpp and mysql_async.hpp.    *)
(*                                                                         *)
(* Several connections of one driver are used at once, each by one thread  *)
(* or coroutine.  Each statement sent to the database is one step.  What   *)
(* the three blocking drivers declare `inline static' -- has_error_ and    *)
(* transaction_ -- all connections share.                                  *)
(***************************************************************************)
EXTENDS Integers, FiniteSets

CONSTANTS
  Conns,        \* connections in use at the same time
  Drivers,      \* the drivers to look at
  MaxRows,      \* bound on the rows that are written
  MaxBatch,     \* bound on the size of a vector
  TogglesQuiet  \* set_enable_transaction() is called only while no batch runs

Blocking == {"sqlite", "mysql", "postgresql"}

ASSUME BatchAssumption ==
  /\ Drivers \subseteq Blocking \cup {"mysql_async"}
  /\ MaxRows \in Nat /\ MaxBatch \in Nat
  /\ TogglesQuiet \in BOOLEAN

VARIABLES
  driver,        \* the driver of all connections
  \* The members of the connection objects.
  transaction_,  \* [Conns -> BOOLEAN]; all the same in the blocking drivers
  has_error_,    \* likewise
  \* The call a connection is in.
  pc,
  batch,         \* the call's vector, how far it got, and what it has to undo
  \* The database: the transaction of each session, and what is durable.
  session,
  db,
  \* What the application has been told.
  user_txn,      \* begin() returned true, and neither commit() nor rollback()
  used,          \* rows named so far; a row is a number
  void,          \* rows of batches that had a transaction and reported failure,
                 \* for as long as the database knows of them
  missing,       \* rows a call reported as written, outside any transaction,
                 \* that are not durable
  uncommitted,   \* likewise for a transaction whose commit() returned true
  astray,        \* connections where a batch returned without ending its transaction
  silent         \* a batch failed by an error of the database and left no error

client == <<transaction_, has_error_>>
server == <<session, db>>
call == <<pc, batch>>
ghosts == <<user_txn, used, void, missing, uncommitted, astray, silent>>
vars == <<driver, client, server, call, ghosts>>

Row == 1..MaxRows

\* What can be asked for: "ids" is get_insert_id_after_insert(), and "members"
\* is update<members...>() or update() with a condition.  They are listed
\* where the driver treats them in a way of its own.
Kinds == {"insert", "update", "ids", "members"}

KindsOf == {"insert", "update"} \cup (IF driver = "mysql" THEN {"ids"} ELSE {})
             \cup (IF driver = "mysql_async" THEN {"members"} ELSE {})

NoBatch == [kind |-> "insert", size |-> 0, first |-> 0, next |-> 0, rows |-> {},
            begun |-> FALSE, error |-> FALSE]

NoSession == [alive |-> FALSE, txn |-> "none", work |-> {}]

Init ==
  /\ driver \in Drivers
  /\ transaction_ = [c \in Conns |-> TRUE]
  /\ has_error_ = [c \in Conns |-> FALSE]
  /\ pc = [c \in Conns |-> "idle"]
  /\ batch = [c \in Conns |-> NoBatch]
  /\ session = [c \in Conns |-> [NoSession EXCEPT !.alive = TRUE]]
  /\ db = {}
  /\ user_txn = [c \in Conns |-> FALSE]
  /\ used = 0
  /\ void = {} /\ missing = {} /\ uncommitted = {}
  /\ astray = {} /\ silent = FALSE

-----------------------------------------------------------------------------
(***************************************************************************)
(* The database, as the drivers see it.  A statement has a set of possible *)
(* answers: whether it succeeded, the session it leaves, and the rows that *)
(* it made durable.                                                        *)
(***************************************************************************)
Answer(ok, s, durable) == [ok |-> ok, session |-> s, durable |-> durable]

Txn(s, txn, work) == [s EXCEPT !.txn = txn, !.work = work]

\* A connection to a server can break at any statement, with the statement
\* executed (durable) or not; sqlite has no server.
Broken(durable) ==
  IF driver = "sqlite" THEN {}
  ELSE {Answer(FALSE, NoSession, rows) : rows \in {{}, durable}}

Begin(s) ==
  CASE s.txn = "none" -> {Answer(TRUE, Txn(s, "open", {}), {})}
    [] s.txn = "open" /\ driver \in {"mysql", "mysql_async"} ->
         {Answer(TRUE, Txn(s, "open", {}), s.work)}       \* an implicit commit
    [] s.txn = "open" /\ driver = "postgresql" -> {Answer(TRUE, s, {})}
    [] OTHER -> {Answer(FALSE, s, {})}

Commit(s) ==
  CASE s.txn = "open" ->
         {Answer(TRUE, Txn(s, "none", {}), s.work),
          IF driver = "sqlite" THEN Answer(FALSE, s, {})     \* SQLITE_BUSY
                               ELSE Answer(FALSE, Txn(s, "none", {}), {})}
    [] s.txn = "failed" ->                  \* PostgreSQL answers "ROLLBACK"
         {Answer(TRUE, Txn(s, "none", {}), {})}
    [] OTHER -> {Answer(driver # "sqlite", s, {})}

Rollback(s) == {Answer(s.txn # "none" \/ driver # "sqlite", Txn(s, "none", {}), {})}

\* A statement that writes a row: it does, or affects no row, or fails.  A
\* failure can end the whole transaction (a deadlock in MySQL, a full disk in SQLite); in
\* PostgreSQL it makes the transaction refuse all that follows.
Write(s, row) ==
  CASE s.txn = "none" ->
         {Answer(TRUE, s, {row}), Answer(TRUE, s, {}), Answer(FALSE, s, {})}
    [] s.txn = "open" ->
         {Answer(TRUE, [s EXCEPT !.work = @ \cup rows], {}) : rows \in {{row}, {}}} \cup
         {Answer(FALSE, t, {}) :
            t \in IF driver = "postgresql" THEN {Txn(s, "failed", s.work)}
                                           ELSE {s, Txn(s, "none", {})}}
    [] OTHER -> {Answer(FALSE, s, {})}

\* A statement that is prepared; only PostgreSQL's transaction minds a failure.
Prepare(s) ==
  {Answer(s.txn # "failed", s, {})} \cup
  {Answer(FALSE, IF driver = "postgresql" /\ s.txn # "none"
                   THEN Txn(s, "failed", s.work) ELSE s, {})}

Dead == {Answer(FALSE, NoSession, {})}

\* The answers to a statement of connection c; durable is what it makes
\* durable when it is carried out.
Replies(c, answers, durable) ==
  IF session[c].alive THEN answers \cup Broken(durable) ELSE Dead

Takes(c, a) ==
  /\ session' = [session EXCEPT ![c] = a.session]
  /\ db' = db \cup a.durable

-----------------------------------------------------------------------------
(* The members.                                                            *)

OwnMember(c) == {c}

\* The connections whose member is the same object as c's.
Sharing(c) == IF driver \in Blocking THEN Conns ELSE {c}

SetError(c, error) ==
  has_error_' = [d \in Conns |-> IF d \in Sharing(c) THEN error ELSE has_error_[d]]

\* reset_error() in front of a statement, set_last_error() when it failed;
\* mysql_async never resets.
Report(c, ok) ==
  SetError(c, IF driver = "mysql_async" THEN has_error_[c] \/ ~ok ELSE ~ok)

SetEnableTransaction(c, enable) ==
  /\ pc[c] = "idle"
  /\ TogglesQuiet => \A d \in Conns : pc[d] = "idle"
  /\ transaction_' =
       [d \in Conns |-> IF d \in Sharing(c) THEN enable ELSE transaction_[d]]
  /\ UNCHANGED <<driver, has_error_, server, call, ghosts>>

-----------------------------------------------------------------------------
(***************************************************************************)
(* begin(), commit(), rollback() of the application.                       *)
(***************************************************************************)
UserBegin(c) ==
  /\ pc[c] = "idle"
  /\ ~user_txn[c]
  /\ \E a \in Replies(c, Begin(session[c]), session[c].work) :
       /\ Takes(c, a)
       /\ Report(c, a.ok)
       /\ user_txn' = [user_txn EXCEPT ![c] = a.ok]
       /\ astray' = IF a.ok THEN astray \ {c} ELSE astray
  /\ UNCHANGED <<driver, transaction_, call, used, void, missing, uncommitted, silent>>

UserCommit(c) ==
  /\ pc[c] = "idle"
  /\ \E a \in Replies(c, Commit(session[c]), session[c].work) :
       /\ Takes(c, a)
       /\ Report(c, a.ok)
       /\ user_txn' = [user_txn EXCEPT ![c] = @ /\ ~a.ok]
       /\ uncommitted' =
            uncommitted \cup (IF a.ok THEN session[c].work \ db' ELSE {})
       /\ astray' = IF a.ok THEN astray \ {c} ELSE astray
  /\ UNCHANGED <<driver, transaction_, call, used, void, missing, silent>>

UserRollback(c) ==
  /\ pc[c] = "idle"
  /\ \E a \in Replies(c, Rollback(session[c]), {}) : Takes(c, a) /\ Report(c, a.ok)
  /\ user_txn' = [user_txn EXCEPT ![c] = FALSE]
  /\ astray' = astray \ {c}
  /\ UNCHANGED <<driver, transaction_, call, used, void, missing, uncommitted, silent>>

\* connect(): a new session for the object.
Connect(c) ==
  /\ pc[c] = "idle"
  /\ ~session[c].alive
  /\ session' = [session EXCEPT ![c].alive = TRUE]
  /\ SetError(c, FALSE)
  /\ user_txn' = [user_txn EXCEPT ![c] = FALSE]
  /\ astray' = astray \ {c}
  /\ UNCHANGED <<driver, transaction_, db, call, used, void, missing, uncommitted, silent>>

-----------------------------------------------------------------------------
(***************************************************************************)
(* Writing one row.                                                        *)
(***************************************************************************)
Written(a, row) == {row} \cap (a.durable \cup a.session.work)

\* What a statement can make durable at once.
Autocommitted(c, row) == IF session[c].txn = "none" THEN {row} ELSE {}

\* stmt_execute() of sqlite and mysql answers INT_MIN, without an error, when
\* no row is affected, except to an update.
Accepted(kind, a, row) ==
  a.ok /\ (\/ driver \notin {"sqlite", "mysql"} \/ kind \in {"update", "members"}
           \/ Written(a, row) # {})

\* A call reports rows as written when no transaction of the application is
\* to decide about them.
Promise(c, rows) ==
  missing' = IF user_txn[c] \/ c \in astray THEN missing
                                              ELSE missing \cup (rows \ db')

\* format_struct_sql() has more values than the text has placeholders, and
\* throws.
Mismatch(kind) == driver = "mysql_async" /\ kind = "members"

WriteOne(c, kind) ==
  /\ pc[c] = "idle"
  /\ used < MaxRows
  /\ used' = used + 1
  /\ IF Mismatch(kind)
       THEN Report(c, FALSE) /\ UNCHANGED <<server, missing>>
       ELSE \E a \in Replies(c, Write(session[c], used'),
                            Autocommitted(c, used')) :
              /\ Takes(c, a)
              /\ Report(c, a.ok)
              /\ IF Accepted(kind, a, used') THEN Promise(c, Written(a, used'))
                                                  ELSE UNCHANGED missing
  /\ UNCHANGED <<driver, transaction_, call, user_txn, void, uncommitted, astray, silent>>

\* The statement of a single row cannot be prepared.
PrepareOne(c) ==
  /\ pc[c] = "idle"
  /\ driver \in Blocking
  /\ \E a \in Replies(c, Prepare(session[c]), {}) :
       ~a.ok /\ Takes(c, a) /\ Report(c, FALSE)
  /\ UNCHANGED <<driver, transaction_, call, ghosts>>

-----------------------------------------------------------------------------
(***************************************************************************)
(* Writing a vector of rows.                                               *)
(***************************************************************************)
Goto(c, place) == pc' = [pc EXCEPT ![c] = place]

\* postgresql begins the transaction before it prepares the statement; the
\* statements of mysql_async are texts.
AfterBegin == IF driver = "postgresql" THEN "prepare" ELSE "item"

BatchCall(c, kind, size) ==
  /\ pc[c] = "idle"
  /\ used' = used + size
  /\ used' <= MaxRows
  /\ batch' = [batch EXCEPT ![c] =
       [NoBatch EXCEPT !.kind = kind, !.size = size, !.first = used + 1]]
  /\ Goto(c, IF driver \in {"sqlite", "mysql"} THEN "prepare" ELSE "begin")
  /\ UNCHANGED <<driver, client, server, user_txn, void, missing, uncommitted, astray,
                 silent>>

\* The rows the database still knows of.
Known == db' \cup UNION {session'[d].work : d \in Conns}

\* The rows of a batch that had a transaction of its own and fails.
Disown(c) ==
  void' = (void \cup IF batch[c].begun THEN batch[c].rows ELSE {}) \cap Known

\* The call returns INT_MIN, or 0 for the insert id.
Fails(c, error) ==
  /\ Goto(c, "idle")
  /\ batch' = [batch EXCEPT ![c] = NoBatch]
  /\ silent' = (silent \/ (error /\ ~has_error_'[c]))

PrepareBatch(c) ==
  /\ pc[c] = "prepare"
  /\ \E a \in Replies(c, Prepare(session[c]), {}) :
       /\ Takes(c, a)
       /\ Report(c, a.ok)
       /\ IF a.ok
            THEN /\ Goto(c, IF driver = "postgresql" THEN "item" ELSE "begin")
                 /\ UNCHANGED <<batch, astray, silent>>
            ELSE /\ Fails(c, TRUE)
                 /\ astray' = IF batch[c].begun THEN astray \cup {c} ELSE astray
  /\ UNCHANGED <<driver, transaction_, user_txn, used, void, missing, uncommitted>>

AlwaysTransacted(c) == batch[c].size > 0

\* The condition in front of begin() and of commit().
Transacted(c) ==
  /\ transaction_[c]
  /\ ~(driver = "mysql" /\ batch[c].kind = "ids")
  /\ ~(driver = "mysql_async" /\ batch[c].size = 0)

CommitsIfDisabled(c) == ~transaction_[c]

Commits(c) == Transacted(c)

BeginBatch(c) ==
  /\ pc[c] = "begin"
  /\ IF Transacted(c)
       THEN \E a \in Replies(c, Begin(session[c]), session[c].work) :
              /\ Takes(c, a)
              /\ Report(c, a.ok)
              /\ IF a.ok
                   THEN /\ Goto(c, AfterBegin)
                        /\ batch' = [batch EXCEPT ![c].begun = TRUE]
                        /\ astray' = astray \ {c}
                        /\ UNCHANGED silent
                   ELSE Fails(c, TRUE) /\ UNCHANGED astray
       ELSE /\ Goto(c, AfterBegin)
            /\ UNCHANGED <<has_error_, server, batch, astray, silent>>
  /\ UNCHANGED <<driver, transaction_, user_txn, used, void, missing, uncommitted>>

\* An item of update<members...>() in mysql_async: the exception passes the
\* loop, and the handler at the end of the call does not roll back.
ItemThrows(c) ==
  /\ pc[c] = "item"
  /\ batch[c].next < batch[c].size
  /\ Mismatch(batch[c].kind)
  /\ Report(c, FALSE)
  /\ Fails(c, TRUE)
  /\ astray' = IF batch[c].begun THEN astray \cup {c} ELSE astray
  /\ UNCHANGED <<driver, transaction_, server, user_txn, used, void, missing, uncommitted>>

\* postgresql resets the error before it looks at a result; the others only
\* add to it while the statement is in use.
ReportItem(c, ok) ==
  IF driver = "postgresql" THEN Report(c, ok) ELSE SetError(c, has_error_[c] \/ ~ok)

NextRow(c) == batch[c].first + batch[c].next

NeverUndo(c) == FALSE

\* Whether a failed item is followed by rollback().
Undoes(c) == transaction_[c]

WriteItem(c) ==
  /\ pc[c] = "item"
  /\ batch[c].next < batch[c].size
  /\ ~Mismatch(batch[c].kind)
  /\ \E a \in Replies(c, Write(session[c], NextRow(c)), Autocommitted(c, NextRow(c))) :
       /\ Takes(c, a)
       /\ ReportItem(c, a.ok)
       /\ IF Accepted(batch[c].kind, a, NextRow(c))
            THEN /\ batch' = [batch EXCEPT ![c].next = @ + 1,
                                           ![c].rows = @ \cup Written(a, NextRow(c))]
                 /\ UNCHANGED <<pc, void, silent>>
            ELSE IF Undoes(c)
            THEN /\ Goto(c, "rollback")
                 /\ batch' = [batch EXCEPT ![c].error = ~a.ok]
                 /\ UNCHANGED <<void, silent>>
            ELSE /\ Fails(c, ~a.ok)
                 /\ Disown(c)
  /\ UNCHANGED <<driver, transaction_, user_txn, used, missing, uncommitted, astray>>

\* The destructor of sqlite's guard: sqlite3_finalize() repeats the error of
\* the statement, after rollback() has cleared it.
FinalizeReports(c) == driver = "sqlite" /\ batch[c].error

UndoBatch(c) ==
  /\ pc[c] = "rollback"
  /\ \E a \in Replies(c, Rollback(session[c]), {}) :
       /\ Takes(c, a)
       /\ Report(c, a.ok /\ ~FinalizeReports(c))
  /\ Fails(c, batch[c].error)
  /\ Disown(c)
  /\ UNCHANGED <<driver, transaction_, user_txn, used, missing, uncommitted, astray>>

\* The call returns the number of rows.
Succeeds(c) ==
  /\ Goto(c, "idle")
  /\ batch' = [batch EXCEPT ![c] = NoBatch]
  /\ Promise(c, batch[c].rows)
  /\ UNCHANGED <<astray, silent>>

CommitBatch(c) ==
  /\ pc[c] = "item"
  /\ batch[c].next = batch[c].size
  /\ IF Commits(c)
       THEN \E a \in Replies(c, Commit(session[c]), session[c].work) :
              /\ Takes(c, a)
              /\ Report(c, a.ok)
              /\ IF a.ok THEN Succeeds(c)
                 ELSE /\ Fails(c, TRUE)
                      /\ astray' = IF a.session.txn # "none" THEN astray \cup {c}
                                                             ELSE astray
                      /\ UNCHANGED missing
       ELSE UNCHANGED <<has_error_, server>> /\ Succeeds(c)
  /\ UNCHANGED <<driver, transaction_, user_txn, used, void, uncommitted>>

-----------------------------------------------------------------------------
UserStep(c) ==
  \/ UserBegin(c) \/ UserCommit(c) \/ UserRollback(c) \/ Connect(c)
  \/ \E enable \in BOOLEAN : SetEnableTransaction(c, enable)
  \/ PrepareOne(c)
  \/ \E kind \in KindsOf : \/ WriteOne(c, kind)
                          \/ \E size \in 0..MaxBatch : BatchCall(c, kind, size)

BatchStep(c) == \/ PrepareBatch(c) \/ BeginBatch(c) \/ ItemThrows(c)
                \/ WriteItem(c) \/ UndoBatch(c) \/ CommitBatch(c)

Next == \E c \in Conns : UserStep(c) \/ BatchStep(c)

Spec == Init /\ [][Next]_vars

-----------------------------------------------------------------------------
(* Properties                                                              *)

\* Types; and the connections of a blocking driver agree on the members that
\* they share.
TypeOK ==
  /\ driver \in Drivers
  /\ transaction_ \in [Conns -> BOOLEAN]
  /\ has_error_ \in [Conns -> BOOLEAN]
  /\ pc \in [Conns -> {"idle", "prepare", "begin", "item", "rollback"}]
  /\ batch \in [Conns -> [kind : Kinds, size : 0..MaxBatch, first : 0..(MaxRows + 1),
                          next : 0..MaxBatch, rows : SUBSET Row,
                          begun : BOOLEAN, error : BOOLEAN]]
  /\ session \in [Conns -> [alive : BOOLEAN, txn : {"none", "open", "failed"},
                            work : SUBSET Row]]
  /\ user_txn \in [Conns -> BOOLEAN]
  /\ used \in 0..MaxRows
  /\ {db, void, missing, uncommitted} \subseteq SUBSET Row
  /\ astray \subseteq Conns
  /\ silent \in BOOLEAN
  /\ driver \in Blocking => \A c, d \in Conns : /\ transaction_[c] = transaction_[d]
                                                /\ has_error_[c] = has_error_[d]

\* A batch that began a transaction and reports failure leaves none of its
\* rows behind, then or later; only the outcome of a commit() that failed is
\* open.
FailedBatchLeavesNothing == void \cap db = {}

\* What a call reported as written is durable: the rows of a batch or of a
\* single insert outside any transaction, and the rows of a transaction when
\* commit() returned true (postgresql apart, whose commit() takes the answer
\* that the server rolled back for success).  And a
\* batch that fails by an error of the database leaves has_error() true, but in
\* mysql and postgresql, where its rollback() clears it.
ConfirmedIsStored ==
  /\ missing = {} /\ (driver # "postgresql" => uncommitted = {})
  /\ silent => driver \in {"mysql", "postgresql"}

\* After a call no transaction is open that the application did not begin;
\* only three exits of the code leave one: a failed prepare() in postgresql,
\* an exception in mysql_async, a failed commit() in sqlite.
NoTransactionLeft ==
  \A c \in Conns : pc[c] = "idle" /\ ~user_txn[c] =>
                     session[c].txn = "none" \/ c \in astray

\* The rows a running batch wrote in a transaction that it began itself.
OwnRows(c) == IF batch[c].begun THEN batch[c].rows ELSE {}

\* A batch inside the application's transaction leaves its rows to the
\* application's commit() when set_enable_transaction(false) was called, and
\* in sqlite always.
UserTransactionKept ==
  [][\A c \in Conns :
       user_txn[c] /\ user_txn'[c] /\ session'[c].alive
         /\ (transaction_[c] => driver = "sqlite")
       => (session[c].work \ OwnRows(c)) \cap (db' \ db) = {}]_vars
=============================================================================
