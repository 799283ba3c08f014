------------------------------- MODULE QueryRead -------------------------------
(***************************************************************************)
(* Reading rows with the four drivers: query(), query_s(), and the         *)
(* statements without rows, execute() and delete_records_s(), in           *)
(* src/ormpp/sqlite.hpp, mysql.hpp, postgresql.hpp and mysql_async.hpp.    *)
(*                                                                         *)
(* A call goes from place to place: the arguments are counted, the         *)
(* statement prepared and executed, the rows fetched one by one, and the   *)
(* guard of the statement closed.  The drivers differ in the order and in  *)
(* where they report.  Several connections are used at once, each by one   *)
(* thread; has_error_ and sv_ of the blocking drivers are `inline static', *)
(* so that all connections share them.                                     *)
(*                                                                         *)
(* A result has one column.  Of a row only what the answer may get wrong   *)
(* is kept: that the field holds what the server sent ("own", a default    *)
(* for NULL included), what it sent for an earlier row ("earlier"), or a   *)
(* value no one wrote ("undefined"); and for a string_view, that the text  *)
(* behind it became that of a later row of the same answer ("shifted") or  *)
(* of another connection's ("taken").                                      *)
(***************************************************************************)
EXTENDS Naturals, Sequences, FiniteSets

CONSTANTS
  Threads,   \* one connection each
  Drivers,   \* the drivers to look at
  Fields,    \* types of the field: a subset of AllFields
  MaxRows    \* bound on the rows of a result

AllFields == {"plain",     \* numbers, optional numbers, texts that are copied
              "enum", "optional_enum",
              "view"}      \* string_view

ASSUME QueryAssumption ==
  /\ Drivers \subseteq {"sqlite", "mysql", "postgresql", "mysql_async"}
  /\ Fields \subseteq AllFields
  /\ MaxRows \in Nat

VARIABLES
  driver,
  has_error_,  \* [Threads -> BOOLEAN]; all the same in the blocking drivers
  link,        \* of each connection: "up", "cut", or "down" once the client knows
  pc,          \* where each call is
  call,        \* whether it reads rows, its arguments, and the type of its field
  kept,        \* the object rows are read into holds the value of an earlier row
  answer,      \* the rows read so far
  cause,       \* why the call ended
  stirred      \* another connection wrote has_error_ after this one last did

vars == <<driver, has_error_, link, pc, call, kept, answer, cause, stirred>>
reading == <<kept, answer>>
flag == <<has_error_, stirred>>

\* The calls: query() of a structure, and execute(), take no arguments;
\* query_s() and delete_records_s() bind theirs; query() of a tuple writes them
\* into the text.  A call that has passed its arguments on is one without.
Call(reads, args, field) == [reads |-> reads, args |-> args, field |-> field]

Calls == [reads : {TRUE}, args : {"none", "bound", "spliced"}, field : Fields]
           \cup [reads : {FALSE}, args : {"none", "bound"}, field : {"plain"}]

Reads(t) == call[t].reads

Init ==
  /\ driver \in Drivers
  /\ has_error_ = [t \in Threads |-> FALSE]
  /\ link = [t \in Threads |-> "up"]
  /\ pc = [t \in Threads |-> "idle"]
  /\ call = [t \in Threads |-> Call(FALSE, "none", "plain")]
  /\ kept = [t \in Threads |-> FALSE]
  /\ answer = [t \in Threads |-> <<>>]
  /\ cause = [t \in Threads |-> "none"]
  /\ stirred = [t \in Threads |-> FALSE]

-----------------------------------------------------------------------------
Goto(t, place) == pc' = [pc EXCEPT ![t] = place]

\* The connections whose error members t's connection writes.
Sharing(t) == IF driver = "mysql_async" THEN {t} ELSE Threads

\* set_last_error() and reset_error().
Report(t, error) ==
  /\ has_error_' = [u \in Threads |-> IF u \in Sharing(t) THEN error ELSE has_error_[u]]
  /\ stirred' = [u \in Threads |-> u # t /\ (stirred[u] \/ u \in Sharing(t))]

\* The call goes on, or ends, or goes to the end of its guard's scope.
Continue(t, place) ==
  /\ Goto(t, place)
  /\ call' = [call EXCEPT ![t].args = "none"]
  /\ UNCHANGED <<driver, link, cause, reading>>

Leave(t, place, why) ==
  /\ Goto(t, place)
  /\ cause' = [cause EXCEPT ![t] = why]
  /\ answer' = [answer EXCEPT ![t] = IF why \in {"none", "fetch"} THEN @ ELSE <<>>]
  /\ kept' = [kept EXCEPT ![t] = FALSE]
  /\ call' = [call EXCEPT ![t].args = "none"]
  /\ UNCHANGED driver

\* A statement is sent on a connection that has no server any more.
Unsent(t) == driver # "sqlite" /\ link[t] # "up"

Notice(t) == link' = [link EXCEPT ![t] = IF @ = "cut" THEN "down" ELSE @]

-----------------------------------------------------------------------------
\* Mutant of Begin: the rows of the last call are not cleared.
BeginWithRows(t, c) ==
  /\ pc[t] \in {"idle", "returned"}
  /\ call' = [call EXCEPT ![t] = c]
  /\ cause' = [cause EXCEPT ![t] = "none"]
  /\ Goto(t, "start")
  /\ UNCHANGED <<driver, flag, link, kept, answer>>

\* A call begins; mysql_stmt_bind_param() reads as many arguments as the
\* statement has placeholders, so that the calls considered pass that many.
Begin(t, c) ==
  /\ pc[t] \in {"idle", "returned"}
  /\ call' = [call EXCEPT ![t] = c]
  /\ answer' = [answer EXCEPT ![t] = <<>>]
  /\ cause' = [cause EXCEPT ![t] = "none"]
  /\ Goto(t, "start")
  /\ UNCHANGED <<driver, flag, link, kept>>

\* query() of a tuple compares the number of arguments with the number of
\* marks before it does anything else; only mysql says so when they differ.
\* mysql_async writes all arguments into the text and throws.  postgresql counts
\* `$' and puts the arguments in the place of `?': std::out_of_range leaves the
\* call where a mark is missing.
Miscounts(t) ==
  /\ pc[t] = "start"
  /\ call[t].args = "spliced" \/ (call[t].args = "bound" /\ driver = "mysql_async")
  /\ IF driver \in {"mysql", "mysql_async"} THEN Report(t, TRUE) ELSE UNCHANGED flag
  /\ Leave(t, "returned", "mismatch")
  /\ UNCHANGED link

\* guard_statment resets the error: after the statement was prepared in
\* sqlite, before in mysql, and after it was executed in postgresql.
Guard(t, place) == Report(t, FALSE) /\ Continue(t, place)

-----------------------------------------------------------------------------
(* sqlite                                                                  *)

SqlitePrepares(t) ==
  /\ pc[t] = "start" /\ driver = "sqlite"
  /\ \/ Report(t, TRUE) /\ Leave(t, "returned", "prepare") /\ UNCHANGED link
     \/ UNCHANGED flag /\ Continue(t, "prepared")

\* Arguments that cannot be bound are not noticed.
SqliteGuards(t) == pc[t] = "prepared" /\ driver = "sqlite" /\ Guard(t, "fetch")

\* sqlite3_step() fails: a query stops there, and the guard reports what
\* sqlite3_finalize() says; the other calls report at once as well.
SqliteStepFails(t) ==
  /\ pc[t] = "fetch" /\ driver = "sqlite"
  /\ IF Reads(t) THEN UNCHANGED flag ELSE Report(t, TRUE)
  /\ Leave(t, "close", "fetch")
  /\ UNCHANGED link

\* Mutant of Finalizes: nothing is reported.
FinalizeUnchecked(t) == UNCHANGED flag /\ Continue(t, "returned")

\* The end of the guard's scope.
Finalizes(t) ==
  /\ IF cause[t] = "fetch" THEN Report(t, TRUE) ELSE UNCHANGED flag
  /\ Continue(t, "returned")

SqliteCloses(t) == pc[t] = "close" /\ driver = "sqlite" /\ Finalizes(t)

-----------------------------------------------------------------------------
(* mysql                                                                   *)

MysqlGuards(t) == pc[t] = "start" /\ driver = "mysql" /\ Guard(t, "prepare")

\* Preparing, asking for the columns, binding and executing: each reports its
\* failure and returns.
MysqlRuns(t) ==
  /\ pc[t] = "prepare" /\ driver = "mysql"
  /\ \/ /\ \/ Unsent(t) /\ Leave(t, "close", "lost")
           \/ ~Unsent(t) /\ \E why \in {"prepare", "execute"} : Leave(t, "close", why)
        /\ Report(t, TRUE)
        /\ Notice(t)
     \/ ~Unsent(t) /\ UNCHANGED flag /\ Continue(t, "fetch")

\* mysql_stmt_fetch() fails, by an error the server sends after some of the
\* rows or by a link that breaks: the loop ends as it does after the last row.
MysqlFetchFails(t) ==
  /\ pc[t] = "fetch" /\ driver = "mysql" /\ Reads(t)
  /\ Leave(t, "close", "fetch")
  /\ Notice(t)
  /\ UNCHANGED flag

\* mysql_stmt_close() cannot tell a server that is gone; when the link was cut
\* and no one has noticed, either may come first.
MysqlCloses(t) ==
  /\ pc[t] = "close" /\ driver = "mysql"
  /\ \/ link[t] # "up" /\ Report(t, TRUE)
     \/ link[t] # "down" /\ UNCHANGED flag
  /\ Continue(t, "returned")

-----------------------------------------------------------------------------
(* postgresql                                                              *)

\* On a connection libpq knows to be bad there is no result at all, and the
\* guard of a null pointer does nothing but reset the error.
PgNothing(t) ==
  /\ pc[t] \in {"start", "exec"} /\ driver = "postgresql" /\ link[t] = "down"
  /\ Report(t, FALSE)
  /\ Leave(t, "returned", "gone")
  /\ UNCHANGED link

\* prepare() has a guard of its own, which reports its failure.
PgPrepares(t) ==
  /\ pc[t] = "start" /\ driver = "postgresql" /\ link[t] # "down"
  /\ IF call[t].args # "bound" THEN UNCHANGED flag /\ Continue(t, "exec")
     ELSE \/ ~Unsent(t) /\ Guard(t, "exec")
          \/ Report(t, TRUE) /\ Leave(t, "returned", "prepare") /\ Notice(t)

\* PQexec() and PQexecPrepared() bring the whole result or an error.
PgExecutes(t) ==
  /\ pc[t] = "exec" /\ driver = "postgresql" /\ link[t] # "down"
  /\ \/ ~Unsent(t) /\ Guard(t, "fetch")
     \/ Report(t, FALSE) /\ Leave(t, "close", "execute") /\ Notice(t)

PgCloses(t) ==
  /\ pc[t] = "close" /\ driver = "postgresql"
  /\ IF cause[t] = "execute" THEN Report(t, TRUE) ELSE UNCHANGED flag
  /\ Continue(t, "returned")

-----------------------------------------------------------------------------
(* mysql_async                                                             *)

\* query_text() and execute() bring the whole result or throw; a row with
\* other columns than the type, or a number that is none, throws as well, and
\* nothing of the result is returned.
AsyncFails(t) ==
  /\ pc[t] \in {"start", "fetch"} /\ driver = "mysql_async"
  /\ Report(t, TRUE)
  /\ Leave(t, "returned", IF Unsent(t) THEN "lost" ELSE "execute")
  /\ Notice(t)

\* The views in the answers of the connections us lose their text.
Lose(us, outcome) ==
  [u \in Threads |-> [i \in DOMAIN answer[u] |->
     IF u \in us /\ call[u].field = "view" /\ answer[u][i] = "own"
       THEN outcome ELSE answer[u][i]]]

\* clear_string_view_storage() takes all earlier results of the thread that runs
\* the coroutines; they all run on one.
AsyncReceives(t) ==
  /\ pc[t] = "start" /\ driver = "mysql_async" /\ ~Unsent(t)
  /\ Goto(t, "fetch")
  /\ call' = [call EXCEPT ![t].args = "none"]
  /\ answer' = IF Reads(t) THEN Lose(Threads \ {t}, "taken") ELSE answer
  /\ UNCHANGED <<driver, flag, link, kept, cause>>

-----------------------------------------------------------------------------
(* One row of the result is read into an object of the row's type.         *)

\* A new object for each row, and NULL gives the field its default.
FreshObject(t, null) == "own"

\* mysql binds the fields of one object before the loop.  NULL leaves the field
\* as it was; only optionals and numbers are reset afterwards.  set_value()
\* overwrites an optional enum that was fetched with a value it never wrote.
BoundObject(t, null) ==
  CASE call[t].field = "enum" /\ null -> IF kept[t] THEN "earlier" ELSE "own"
    [] call[t].field = "optional_enum" /\ ~null -> "undefined"
    [] OTHER -> "own"

ReadField(t, null) ==
  IF driver = "mysql" THEN BoundObject(t, null) ELSE FreshObject(t, null)

\* sv_ of the blocking drivers is one string: its new text is the text of every
\* view that was read before.  mysql assigns it for NULL as well.
Assigns(t, null) ==
  driver # "mysql_async" /\ call[t].field = "view" /\ (~null \/ driver = "mysql")

Overwritten(t, null) ==
  IF Assigns(t, null)
    THEN [Lose(Threads \ {t}, "taken") EXCEPT ![t] = Lose({t}, "shifted")[t]]
    ELSE answer

FetchRow(t, null) ==
  /\ pc[t] = "fetch"
  /\ Reads(t)
  /\ Len(answer[t]) < MaxRows
  /\ answer' = [Overwritten(t, null) EXCEPT ![t] = Append(@, ReadField(t, null))]
  /\ kept' = [kept EXCEPT ![t] = call[t].field = "enum" /\ (@ \/ ~null)]
  /\ UNCHANGED <<driver, flag, link, pc, call, cause>>

\* After the last row, or after a statement that has none.
FetchEnds(t) ==
  /\ pc[t] = "fetch"
  /\ Leave(t, IF driver = "mysql_async" THEN "returned" ELSE "close", "none")
  /\ UNCHANGED <<flag, link>>

-----------------------------------------------------------------------------
\* connect(), between two calls.
Connect(t) ==
  /\ pc[t] \in {"idle", "returned"} /\ link[t] # "up"
  /\ Report(t, FALSE)
  /\ link' = [link EXCEPT ![t] = "up"]
  /\ Goto(t, "idle")
  /\ UNCHANGED <<driver, call, cause, reading>>

\* The server or the network ends a connection.
LinkCut(t) ==
  /\ driver # "sqlite" /\ link[t] = "up"
  /\ link' = [link EXCEPT ![t] = "cut"]
  /\ UNCHANGED <<driver, flag, pc, call, cause, reading>>

SqliteStep(t) == SqlitePrepares(t) \/ SqliteGuards(t) \/ SqliteStepFails(t) \/ SqliteCloses(t)
MysqlStep(t) == MysqlGuards(t) \/ MysqlRuns(t) \/ MysqlFetchFails(t) \/ MysqlCloses(t)
PgStep(t) == PgNothing(t) \/ PgPrepares(t) \/ PgExecutes(t) \/ PgCloses(t)
AsyncStep(t) == AsyncFails(t) \/ AsyncReceives(t)

Next ==
  \E t \in Threads :
    \/ \E c \in Calls : Begin(t, c)
    \/ Miscounts(t)
    \/ SqliteStep(t) \/ MysqlStep(t) \/ PgStep(t) \/ AsyncStep(t)
    \/ \E null \in BOOLEAN : FetchRow(t, null)
    \/ FetchEnds(t)
    \/ Connect(t) \/ LinkCut(t)

Spec == Init /\ [][Next]_vars

-----------------------------------------------------------------------------
(* Properties                                                              *)

Places == {"idle", "start", "prepared", "prepare", "exec", "fetch",
           "close", "returned"}

Causes == {"none", "mismatch", "prepare", "execute", "fetch", "lost", "gone"}

Returned == {t \in Threads : pc[t] = "returned"}

\* Where the code returns without a word, or without touching what the last
\* call left: query() of a tuple with the wrong number of arguments, rows the
\* server of mysql failed to send, and a connection libpq has given up.
Unreported ==
  {<<"sqlite", "mismatch">>, <<"postgresql", "mismatch">>, <<"mysql", "fetch">>,
   <<"postgresql", "gone">>}

\* Types; and a thread that is in a call has rows only if the call asks for them.
TypeOK ==
  /\ driver \in Drivers
  /\ has_error_ \in [Threads -> BOOLEAN] /\ stirred \in [Threads -> BOOLEAN]
  /\ link \in [Threads -> {"up", "cut", "down"}]
  /\ pc \in [Threads -> Places]
  /\ cause \in [Threads -> Causes]
  /\ kept \in [Threads -> BOOLEAN]
  /\ \A t \in Threads : /\ call[t] \in Calls
                        /\ Len(answer[t]) <= MaxRows
                        /\ ~Reads(t) => answer[t] = <<>>

\* When a call has returned and no other connection has called since,
\* has_error() is true exactly if the call did not do all it was asked: every
\* failure between the first argument and the end of the guard's scope is still
\* there, and no guard leaves the error of an earlier call behind.  The returns
\* in Unreported are the exceptions; mysql_async never takes an error back, and
\* closing a statement on a link that was cut may fail after a complete answer.
ErrorTellsFailure ==
  \A t \in Returned : ~stirred[t] =>
    /\ cause[t] # "none" /\ <<driver, cause[t]>> \notin Unreported => has_error_[t]
    /\ has_error_[t] /\ driver # "mysql_async" =>
         cause[t] # "none" \/ link[t] # "up"

\* What the field of row i may hold instead of its own value.
Admitted(t, i) ==
  CASE call[t].field = "enum" /\ driver = "mysql" /\ i > 1 -> {"earlier"}
    [] call[t].field = "optional_enum" /\ driver = "mysql" -> {"undefined"}
    [] call[t].field = "view" /\ driver = "mysql_async" -> {"taken"}
    [] call[t].field = "view" /\ driver # "mysql_async" ->
         IF i < Len(answer[t]) THEN {"shifted", "taken"} ELSE {"taken"}
    [] OTHER -> {}

\* Each row of an answer holds what the server sent for that row, whatever the
\* rows before it held and whatever other connections read meanwhile.  What
\* does not is named: in mysql an enum that is NULL keeps the value of an
\* earlier row and an optional enum has a value that was never written; and a
\* string_view lasts until the next row in the blocking drivers, until the next
\* query on the thread in mysql_async.
RowsAreOwn ==
  \A t \in Threads : \A i \in DOMAIN answer[t] :
    answer[t][i] \in {"own"} \cup Admitted(t, i)
===============================================================================
