# A TLA+ model of ormpp

ormpp is a header-only C++20 object-relational mapper: it turns structs into SQL
for SQLite, MySQL and PostgreSQL, and has a second, coroutine based MySQL driver
with its own wire protocol, a coroutine connection pool and two adapters that
let `async_simple` coroutines await Asio ones. This directory holds TLA+
modules for the parts of it that are hard to test (pools, adapters, batch writes
and transactions, queries, the wire protocol, and the SQL that is built from
entities, conditions and table definitions), the TLC configurations that check
them, and TLAPS proofs about both pools, the adapters, batch writes, the wire
protocol, reading rows, the texts of SQL, the query builder, the schema builder
and the statements of an entity.
`PROJECT.json` maps every definition to the lines of `src/` it models; all paths
below are relative to `src/`.

## 1. Inventory

| component | source | state | operations | what is hard |
|---|---|---|---|---|
| asynchronous pool | `ormpp/async_connection_pool.hpp` | `available_connections_`, `in_use_count_`, `dynamic_connection_count_`, `initialized_`, `closing_`, `pool_size_` | `init`, `get`, `create_dynamic_connection`, deleter and `return_connection`, `close_all`, destructor, `get_stats` | coroutines interleave at every `co_await`; state read before `ping()`/`connect()` is used after; four exits undo the counters; cancellation; handles outlive the pool |
| blocking pool | `ormpp/connection_pool.hpp` | `pool_`, `mutex_`, `condition_`, `flag_` | `init`, `get`, `create_connection`, deleter | condition variable with timeout; `notify_one` outside the lock; `call_once` that throws |
| safe adapter | `ormpp/asio_async_simple_adapter.hpp` 160-510 | `SharedState`: flags `await_started`, `abandoned`, `resume_observed`, `finished`, result, exception, cancellation signal, strand | `await_suspend`, `await_resume`, `abandon`, `cancel`, `start_asio`, `run_asio`, `complete_asio`, `resume_parent` | strand, parent and executor on different threads; destruction while suspended; posts that throw |
| light adapter | same file, 56-158 | result, exception, resume handle | `await_suspend`, `await_resume` | relies on one thread and on a parent that is not destroyed; posts that throw |
| blocking drivers | `ormpp/sqlite.hpp`, `mysql.hpp`, `postgresql.hpp` | one session each; `has_error_`, `last_error_`, `transaction_`, `sv_` shared by all objects of a driver | connect, create, insert, replace, update, delete, query, execute, transactions | a batch fails half way; errors cleared by the clean-up; shared statics; values of an earlier row |
| asynchronous MySQL driver | `ormpp/mysql_async.hpp` | socket, `sequence_id_`, negotiated capabilities, status flags, last error | the same as coroutines | packet framing and sequence numbers, handshake and authentication plugins, result sets, arguments written into the text |
| coroutine wrapper | `ormpp/mysql_async_wrapper.hpp`, `async_traits.hpp` | none | forwards every call through the light adapter | - |
| facade | `ormpp/dbng.hpp` | the driver, the time of the last use | forwards; `wraper` runs before/after aspects | - |
| SQL generation, entity registries | `ormpp/utility.hpp`, `entity.hpp` | registries of auto and conflict keys, a cached key list | `generate_*_sql`, `get_conflict_keys`, `REGISTER_*` | column list and bound values come from different code; two names of a struct |
| query builder | `ormpp/query.hpp` 1-1498 | a context shared by the stages of a chain | chained clauses, `collect`, `execute` | stages kept and called again; awaitables that start late; marks inside values |
| schema builder | `ormpp/query.hpp` 300-560, 1500-2229 | the definition collected, the operations collected | `create_table`, `alter_table`, `remove().partition` | lists of statements without a transaction; three kinds of range partition |
| configuration | `ormpp/ormpp_cfg.hpp` | one parsed file | `from_file`, `to_file` | - |
| type mapping | `ormpp/type_mapping.hpp`, `pg_types.h` | none | compile-time tables | - |
| vendored code | `iguana/`, `frozen/`, `thirdparty/` | - | - | third party, not modelled |

How they interact: the pools own driver objects and hand out shared pointers
whose deleter gives the object back. `async_connection_pool<DB>` calls
`DB::connect`, `ping` and `disconnect`; `connection_pool<DB>` works on
`dbng<DB>` and reads the facade's idle clock. The adapters start a coroutine of
the driver on an Asio strand and resume the `async_simple` parent with its
result. The drivers take SQL texts from `utility.hpp` and the builders, and bind
values to them.

What makes each component correct, and what is hard to test in it, is listed as
*hazards* in `PROJECT.json`, each at its line with the properties that cover it
or the reason why none does.

## 2. Plan

Done, in this order:

1. `AsyncPool`: every operation, safety, liveness, and proofs.
2. `SyncPool`, `SafeAdapter`: the other components with threads; the light
   adapter beside the safe one.
3. `BatchWrite`: batch writes and transactions in the four drivers.
4. `MysqlWire`: the wire protocol of `mysql_async`.
5. `ConnectionPool`: what a pool promises its callers, implemented by
   `AsyncPool` and `SyncPool` (both checked and proved).
6. `QueryRead`: reading rows, and what is reported.
7. `SqlText` and `QueryBuilder`, `SchemaBuilder`, `EntitySql`: the texts, the
   builders, the registries.

Then proofs: every safety property that a passing run checks.

Left: the composition of `MysqlWire` with the asynchronous pool through
`ping()`. None of the modules declares a RECURSIVE operator, so that all of them
can be proved about.

## 3. Modules

### ConnectionPool

The abstract specification of both pools: the connections the pool keeps, the
one each caller has, and whether it is open. `Fill` and `Shrink` leave open how
many connections the pool keeps and when it closes them; `Lend` and `TakeBack`
say that a connection is lent to one caller at a time, only while the pool is
open, and that one given back to an open pool is there for the next caller
unless it was temporary. `AsyncPool` and `SyncPool` each instantiate it
(`Promise`) with a mapping that hides counters, queues and waiting: a connection
that is being verified is still the pool's, one whose handle has died is lent
until it is back.

### AsyncPool (`async_connection_pool.hpp`)

The variables ending in `_` are the members. `pc[c]` is where the `get()` call
`c` is suspended, `conn[c]` the `unique_ptr` in its frame (or the connection of
the handle it returned), `dynamic` the set of calls whose deleter captured
`is_dynamic`; `initer[i]` and `closer[k]` are the frames of `init()` and
`close_all()`. A member of `Calls` is one `get()` and the lease that follows it.

* One action is the code between two suspensions. `co_await asio::post(strand_)`
  is a suspension; order on the strand is left open. `init()` does not post to
  the strand: its segments interleave with the others, as on one thread.
* `server_up` decides what `ping()` and `connect()` answer and flips at will;
  `ping()` may also fail while it is up. `mysql_async::disconnect()` does not
  suspend, so it is no step.
* Counters are integers; a negative one stands for a `size_t` that wrapped.
* `GetCancelledWaiting` and `GetCancelledCounted` are `co_spawn` cancellation:
  the driver swallows the error, so the coroutine ends at its next `co_await`.
* `leaked`, `leaked_dynamic`, `orphans`, `overlapped` are history variables.

`init()` calls that overlap can fill the pool beyond `pool_size_` or clear each
other's connections, since `init()` holds no flag while it connects;
`LimitsKept`, `UtilizationBounded` and `OpenPoolKeepsConnections` say what
holds as long as they do not overlap.

Seen on the way: each failed reconnection removes a connection for good, so that
a pool can stay open with none after an outage, although
`docs/ASYNC_CONNECTION_POOL_GUIDE.md:10` promises reconnection; and a `get()`
that is cancelled while it pings stays counted, so that `close_all(true)` waits
its full `max_wait` for it.

### SyncPool (`connection_pool.hpp`)

A critical section is one step. `init_impl()` does not take the mutex, so it
pushes in two steps, and `raced` records that another thread used `pool_` in
between (a data race, after which nothing is modelled). `flag_` is the
`once_flag`: an `init()` that throws leaves it unset. `waiting` and `notified`
tell whether a notification has reached a sleeping thread; a notified thread
either looks at `pool_` again, with a new timeout, or returns at its deadline
without looking (`missed`). Spurious wake-ups act like notifications and are
left out. `lost` counts connections given up for a replacement that could not
be opened; `leftover` those a failed `init()` left behind. With `leftover` the
pool may exceed `maxsize`, and each outage can shrink it: `Conservation` says
exactly by how much.

A thread that is notified and finds the pool empty again starts a new wait of
three seconds, any number of times, where README.md:1232 speaks of at most
three seconds: `GetReturnsOnceQuiet` therefore speaks of executions in which the
other threads stop calling `get()`.

### SafeAdapter (`asio_async_simple_adapter.hpp`)

One `co_await` through an adapter; `light` chooses which. In the safe one
`strand` is the queue of posted handlers (first in, first out), `running` what
the current handler does next, `task` the resumption scheduled on the
`async_simple` executor, `work` the spawned coroutine, and the flags are the
fields of `SharedState`. A test and the act that follows it (`abandoned` and
`co_spawn`, `should_resume()` and `handle.resume()`) are two steps, since the
owner of the parent runs on another thread; a program with one thread has the
behaviours where nothing comes between. `asio::post`, `co_spawn` and `schedule`
may throw. When the post in `post_resume()` throws, the catch block uses the
pointer that was moved into the handler: `running = "crashed"`.

The light adapter (`Light...`) has no flags, no strand and no cancellation: its
owner neither destroys the parent nor cancels, as its documentation asks. Its
`strand` stands for the executor, in order. When `post()` fails it resumes the
parent inside the function that failed, with that exception.

### BatchWrite (`sqlite.hpp`, `mysql.hpp`, `postgresql.hpp`, `mysql_async.hpp`)

`driver` is chosen in `Init`; the actions are shared and their guards say where
the drivers differ:

* SQLite and MySQL prepare and then begin; PostgreSQL begins and then prepares,
  and a failed `prepare()` returns without `rollback()`; mysql_async sends texts,
  and a text whose placeholders do not match its values throws after `BEGIN`.
* MySQL skips `begin()` and `commit()` for insert ids, but not `rollback()`.
* `has_error_` and `transaction_` are `inline static` in the blocking drivers:
  `Sharing(c)` are the connections that see a change. mysql_async keeps them per
  object and resets the error only in `connect()`.
* After `rollback()` has cleared the error, the destructor of SQLite's guard sets
  another one (`FinalizeReports`); MySQL and PostgreSQL report none.

The database is external: `Begin`, `Commit`, `Rollback`, `Write`, `Prepare`
return the set of answers a session may give (success, failure, a failure that
ends or poisons the transaction, `COMMIT` of a poisoned transaction, an implicit
commit, a broken connection whose last statement may have been carried out). A
row is a number. `void`, `missing`, `uncommitted`, `astray`, `silent`
and `user_txn` are history: what the application was told, and on which exits a
transaction was left behind. An update whose SQL is empty for lack of a key
behaves like a statement that is refused before it is sent and has no action of
its own; binding errors of SQLite are counted as failing statements.

`TogglesQuiet` restricts `set_enable_transaction()` to moments without a batch.
Without it `FailedBatchLeavesNothing` fails: the flag is shared by all
connections, although README.md:1336 recommends one connection per thread as the
way to be independent, and a batch that has sent `BEGIN` and then finds the flag
off does not roll back. `commit()` of the PostgreSQL driver returns true for a
transaction the server rolled back (postgresql.hpp:413), against README.md:1029.

### QueryRead (`sqlite.hpp`, `mysql.hpp`, `postgresql.hpp`, `mysql_async.hpp`)

One call per connection: `query()`, `query_s()`, or a statement without rows.
The four drivers have actions of their own because the order differs in what
matters here: when the guard of a statement resets the error (after preparing in
SQLite, before it in MySQL, after executing in PostgreSQL), which failures are
reported by the call, which by the guard, and which by nobody. A field of a row
is *own*, *earlier* (the value of an earlier row), *undefined*, *shifted* or
*taken* (a `string_view` whose text was replaced by a later row, or by another
connection). `kept` is the one object MySQL binds for all rows. `link` is what
the network did and whether the client knows.

`stirred` excludes calls whose error another connection has overwritten since.
The properties name what does not hold: calls with the wrong number of arguments
to a tuple `query()`, which SQLite and PostgreSQL refuse silently; rows MySQL
failed to fetch (mysql.hpp:477 ends the loop as after the last row, where
README.md:954 promises an empty answer); a connection libpq has given up; enums
and optional enums of MySQL; and views.

### MysqlWire (`mysql_async.hpp`)

One `mysql_async` object and the server at the other end of its TCP connection.
The members of the object keep their names; `pc` is what the awaited operation
waits for, `writing` and `reading` are the locals of `write_packet()` and
`read_packet()`, `columns` the rest of the loop over column definitions, `cmd`
the number of the command, with which answers are tagged. `to_server` and
`to_client` are the frames in flight.

* A frame is a step: `read_packet()` and `write_packet()` suspend for each one,
  and what the code does between two suspensions belongs to the step that ends
  the first. Sizes are in units of which `MaxChunk` fill a frame, so that a
  statement ends before, on or after the limit. Frames are written whole: that
  a cancelled `async_write()` may leave half a frame behind is not modelled.
* `Greeting`, `AuthSwitch`, `AuthMoreData`, `AuthKey`, `AuthOk`, `AuthFails` are
  the exits of `connect()` and of the loop in `handle_auth_response()`; the
  `Answer...`, `Column...`, `Row...` actions those of `read_query_response()`.
* What a packet is depends on its first byte, and `read_query_response()` never
  looks at more. A packet read in the wrong place is read as what its kind can
  pass for; a row, or the second half of one, for anything (`Opaque`).
* An exception closes the socket in `connect()` and keeps it in a command.
  `Cancelled` is the caller's cancellation slot, which the driver catches like
  any error. No timeout: `async_wait_for_timeout()` is never called.
* The server is external and keeps to the protocol: it may greet or refuse, ask
  for any plugin, switch once, send the fast or the full answer of
  caching_sha2_password; a command is answered by OK, an error, or a result set,
  possibly with a row that fills its frame or an error after a row; it hangs up
  over a wrong sequence number. `legacy` is a server without
  CLIENT_DEPRECATE_EOF, `escapes` whether the session reads backslashes.

`spoiled` names why a part of an answer may have been left unread: a cancelled
command, several statements in one text (multi-statements are negotiated but one
result is read), a `legacy` server, whose terminator of the columns ends the
rows. The properties hold with these three exceptions and no other; with each of
them the next command, or the `ping()` of a pool, takes the rest for its answer.

Seen on the way, and without a property: `has_error_` is reset by `connect()`
only; `parse_column_definition()` reads the catalog as the schema, so that all
later fields are shifted, but none is used; a server's refusal of the connection
is reported as a missing terminator; the key packet is given to OpenSSL with its
first byte (0x01 from a server that wraps it), and `AuthKey` allows OpenSSL to
refuse it.

### SqlText (`utility.hpp`, `query.hpp`, `mysql_async.hpp`)

Pure operators on texts, which are sequences of characters; only the characters
that either side treats specially are told apart, and keywords, names, numbers
and `$1` count as one. One half translates the code: quoting, the search for the
next placeholder with its quotes, comments and escapes, and the three ways in
which placeholders are replaced. The other half (`ServerReads`, external) is the
reference: an automaton that reads a text as MySQL, MySQL with
NO_BACKSLASH_ESCAPES, PostgreSQL or SQLite does, one character at a time. Nested
comments, dollar quotes and E'' literals of PostgreSQL are left out.

### QueryBuilder (`query.hpp`, with `query_s()` and the tuple `query()`)

`ctx` is the context the stages of a chain share; `held` are the stages the
program has, any of which it can call again. `calls` is what was said, `linear`
whether each call was made on what the one before returned. `Collect` of a
blocking driver sends; that of mysql_async makes an awaitable (`pending`) whose
text is built by `Start`, after further calls, or after the stages are gone
(`LetGo`). `sent` keeps the text next to what the program meant, and
`ReadsAsWritten` compares the two through the reader of `SqlText`.
`builder = "none"` is a text the program writes itself.

`Misreadable` names the values that are misread: a backslash in a condition on
MySQL (`escape_sql_string()` does not escape it), the value `"?  "`, which
`build_where()` takes for the mark (query.hpp:262), and a `?` in an argument of
a tuple `query()`, which `get_sql()` searches from the start of the text.
`Sound` says which texts of the program are meant to work: in MySQL two dashes
must be followed by a blank, as the driver's scanner takes them for a comment
either way. Others: a tuple `query()` of PostgreSQL counts `$` and replaces `?`,
so that it never works with arguments; `offset()` called twice writes both;
`execute()` of `update()` and `remove()` on mysql_async is a lazily started
member coroutine, and that of `execute_all()` has lost its context when it
starts ("undefined").

### SchemaBuilder (`query.hpp`)

A table with a key, a column it may be partitioned by, and one thing at a time
that is added and dropped (column, index, unique constraint, check). `job` is
the builder being executed, statement by statement; other connections insert
rows in between, and an answer may be lost with or without effect. A partition
is a predicate in SQLite, a `VALUES LESS THAN` partition in MySQL and a child
table in PostgreSQL; `RowsOf` and `HasPlace` (external) say what each holds.

Named in the properties: MySQL keeps no lower bounds, so that a partition also
has the rows below its range that no other has, and none of those that belong to
a lower partition whose end lies inside it (`IsItsRange`); SQLite keeps only the automatic field of a key of several.
Seen on the way: `drop_constraint()` on MySQL emits `DROP INDEX`, so that a
check cannot be dropped; `modify_column()` on SQLite leaves an empty clause;
`drop_partition()` on SQLite builds nothing and fails.

### EntitySql (`utility.hpp`, `entity.hpp`, and what the drivers bind)

One struct of three fields, with or without a namespace, with every combination
of registered keys; the registry of auto keys, the list `get_conflict_keys()`
keeps, one table and its rows. Statements have no text here: a column list is a
sequence of fields, the values bound are a sequence, and the server (external)
pairs them by position. `CreateTable` may fail, and `Restart` is the end of the
process, after which the table is there and what SQLite had registered is not.

`DoesAsAsked` names the exceptions, most of which contradict the README:

* conflict keys registered in another order than the fields (run `entity_order`);
* `update_some()` and `update()` with a condition on mysql_async always fail or
  bind the wrong member, since `format_struct_sql()` (mysql_async.hpp:1851)
  passes all fields (docs/ASYNC_COROUTINE_GUIDE.md:271, README.md:277);
* an auto key registered for a struct in a namespace is not found by `insert()`,
  which looks it up by the short name (utility.hpp:65, README.md:73);
* a PostgreSQL sequence may give a number a row already has;
* `replace()` on PostgreSQL needs an index on just the conflict keys, and
  `create_datatable()` with an auto key makes none (README.md:1179).

Other observations: `update()` of an object whose auto key was never filled in
writes the zero into the row (the example at README.md:246-270); the blocking
drivers return 1 when no row matched; `get_sql_conditions()` cuts at the first
"where", even inside a table name; `split()` takes a blank before a comma into
the name; the registries are not synchronised; two structs of one short name
share an auto key.

## 4. Runs

| run | instance | shows |
|---|---|---|
| `async_pool_core` | 2 `get()`, 2 `init()`, 2 `close_all()`, 4 connections, pool size 0 or 2, 1 dynamic, 1 cancelled call | type, exact counters, limits, nothing handed out once drained, no connection dropped from an open pool; implements `ConnectionPool` |
| `async_pool_live` | 2 `get()`, 1 `init()`, 1 `close_all()`, pool size 1, without symmetry | every `get()` and `close_all()` ends |
| `sync_pool` | 3 threads, `maxsize` 2, 1 connection left over | conservation, no lost wake-up, `get()` ends once the others are quiet; implements `ConnectionPool` |
| `adapter` | both adapters, 2 cancellations | at most one resumption, none of a parent destroyed before the test, an outcome for every resumption, cancellations arrive, a waiting parent is resumed |
| `batch` | 2 connections, 3 rows, vectors of up to 2, all drivers | failed batches leave nothing, confirmed rows are durable, no transaction left but on three named exits, a transaction of the application is not committed for it |
| `wire` | 2 connections, 2 commands each, statements of 1 and 2 units, frames of 2, 4 sequence numbers | a command reads its own answer and all of it, escaping follows the session, no command reaches an unauthenticated session, every operation ends |
| `query` | 2 connections, results of up to 2 rows, all drivers and 4 kinds of field | an error tells a failure from a success, and the fields of a row are that row's, but for the named cases |
| `builder` | chains of 4 calls, or 2 when a stage is called again, 3 values, texts of 3 of 12 fragments, 2 arguments | the server reads what was written, each argument at its mark; a condition that was given is sent |
| `schema` | 3 keys, 4 usable partitions and an unusable one, 2 per table, 1 thing, 1 or 2 operations | a partition loses its rows and no others, a repeated `create_table()` completes, what is added can be dropped |
| `entity` | 3 fields, 4 lists of conflict keys, 3 lists of members, 2 rows, all drivers | writes and queries touch the rows they are asked for, but for the named cases |
| `adapter_destroyed` | no cancellation | **violated**: the owner can destroy the parent between test and resumption |
| `entity_order` | as `entity` | **violated**: `update()` changes another row when keys are registered out of order |

A violated run checks one statement of the repository's documents or comments
that the code does not keep; "findings" in `PROJECT.json` quotes it.

Why the bounds are enough. Two `get()` calls are what a race for the last
connection, for the last dynamic slot, and for the counters needs; a third only
repeats one of them. Two closers and two initialisers are the least for the
guards between them. A pool of two connections lets one be in use while another
is idle; four connection objects let both `init()` calls, a dynamic connection
and a handle of an earlier generation exist together. Pool size 0 is the early
return of `init()`. One cancelled call suffices because each adds the same to
both sides of `Accounting`. In `sync_pool` three threads are the least for a
thief between the notifier and the notified. In `batch` a vector of two has a
first, a last and an empty case; the third row is the single insert before or
after it. In `wire` the second command finds what the first
left behind, the second connection what the first one left; a statement of two
units fills its frame exactly; four sequence numbers let a full result set wrap
around. In `query` the second row is what the first can spoil or be spoiled by,
and the second connection what shared members need. In `builder` three fragments
make an opening, something inside it and what may close it; the values hold a
mark, a quote, a backslash and the mark's own text; four calls reach every stage
but `offset` after `having`, whose clauses do not depend on each other. In
`schema` the keys lie before, on and after each bound, and the descriptions
abut, overlap, are empty, and are open ended. In `entity` two rows are the least of
which a statement can change the wrong one; three fields let keys be one, some
or all of those before the last, in either order.

Symmetry is used for safety only, on `Calls`, `Conn`, `Conns`, `Threads` of
`QueryRead`: no definition chooses among them. `builder` does not check for
deadlock, since a program that has let its stages go has nothing left to do, and
neither does `wire`, whose client may be done.

### Fairness

`AsyncPool.FairSpec`: the executor runs what was posted and expired timers (weak
fairness of the segments); a loop test that is reached again and again is some
time reached after its deadline (strong fairness of `GetTimedOut` and
`CloseGivesUp`); and each `ping()` and `connect()` ends (`Answers`). The last is
not something the pool enforces: it applies its deadline only between awaits, so
with a silent peer `get()` does not end, and the driver's own timeout, which is
off when it is zero, is what `Answers` stands for. Callers, cancellation,
`close_all()` and the server owe nothing.

`SyncPool.FairSpec`: threads run, users return what they got, and a wait times
out when it stays undisturbed (weak fairness: a notification starts a new wait).

`SafeAdapter.FairAdapterSpec`: the strand, the executor and the parent's thread go on
and the awaited operation ends. Cancelling and destroying are never required.

`MysqlWire.FairSpec`: the executor completes each read and write that can
complete (weak fairness of the client's steps) and a connected server goes on
answering (of the server's): nothing in the driver helps against one that does
not. Calls, cancellation and the network owe nothing.

The other modules are sequential between two statements of one connection, and
have no liveness property.

## 5. Proofs

Every safety property that a passing run checks, and that both pools implement
`ConnectionPool`, are proved for every value of the constants: any number of
threads, calls, connections and commands, any sizes of pools, vectors, results
and frames, any texts, values and arguments, any keys and descriptions of
partitions, structs of any fields. The proofs about the adapters are at the end
of `AsyncPool_proofs`.

| module | theorem | property |
|---|---|---|
| `AsyncPool_proofs` | `TypeCorrect` | `TypeOK`: in particular no counter wraps below zero |
| | `AccountingHolds` | `Accounting` |
| | `DynamicBounded` | `DynamicBound` |
| | `CloserIsExclusive` | `CloserExclusive` |
| | `DrainedIsIdle` | `DrainedMeansIdle` |
| | `NoHandoutAfterClose` | `NoHandoutWhileClosed` |
| | `OwnershipIsExclusive` | `ExclusiveOwnership` |
| | `PoolKeepsPromise` | `ImplementsPool` |
| | `CapacityBounded` | `CapacityBound` |
| | `LimitsAreKept` | `LimitsKept`, which is `CapacityBound` and `DynamicBound` |
| | `OpenPoolKeeps` | `OpenPoolKeepsConnections` |
| | `ClosedIsEmpty` | `ClosedPoolIsEmpty` |
| | `UtilizationIsBounded` | `UtilizationBounded` |
| | `AdapterTypeCorrect` | `AdapterTypeOK` of `SafeAdapter` |
| | `IsResumedAtMostOnce` | `ResumedAtMostOnce` |
| | `OutcomeIsThere` | `ResumeFindsOutcome` |
| | `CancellationIsKept` | `CancellationNotLost` |
| `SyncPool_proofs` | `TypeCorrect` | `TypeOK`: a thread has a connection in hand exactly where the code does |
| | `ConnectionsAreConserved` | `Conservation` |
| | `NoWakeupIsLost` | `WakeupNotLost`, given `InitFirst` |
| | `PoolKeepsPromise` | `ImplementsPool` |
| `BatchWrite_proofs` | `TypeCorrect` | `TypeOK` |
| | `RowsAreApart` | `Apart`: no row is in two sessions, or durable and still open |
| | `BatchesAreKnown` | `IInv`, given `TogglesQuiet` like the next four |
| | `FailureLeavesNothing` | `FailedBatchLeavesNothing` |
| | `SuccessIsStored` | `ConfirmedIsStored` |
| | `TransactionsEnd` | `NoTransactionLeft` |
| | `ApplicationDecides` | `UserTransactionKept` |
| `MysqlWire_proofs` | `TypeCorrect` | `TypeOK` |
| | `CommandsAreAuthenticated` | `CommandsAuthenticated` |
| | `ConversationIsInSync` | `InSync` |
| | `AnswersAreOwn` | `AnswersOwnCommand` |
| `QueryRead_proofs` | `TypeCorrect` | `TypeOK` |
| | `ErrorsAreTold` | `ErrorTellsFailure` |
| | `RowsAreTheirOwn` | `RowsAreOwn` |
| `QueryBuilder_proofs` | `TypeCorrect` | `TypeOK` |
| | `Inductive` | `IInv`, below |
| | `ConditionStays` | `ConditionIsSent` |
| | `TextsReadAsWritten` | `ReadsAsWritten` |
| | `SqlValueReads`, `MysqlValueReads` | what `escape_sql_string()` and `escape_mysql_string()` return is read as the one value |
| | `NextMark` | the next placeholder that is found is the first mark the server reads |
| | `FormatFills`, `PostgresFills`, `TupleFills` | `format_query_args()`, `replace_postgresql_placeholders()` and `get_sql()` fill each mark with its own argument |
| | `TokensSaid` | the texts of clauses, put together, say their clauses |
| `SchemaBuilder_proofs` | `TypeCorrect` | `TypeOK` |
| | `RangesAreRemoved` | `RemovesItsRange` |
| | `TableIsAsAsked` | `CreatedAsAsked` |
| | `AddedIsTakenBack` | `AddThenDropRestores` |
| `EntitySql_proofs` | `TypeCorrect` | `TypeOK`: the registries, the kept keys and the table agree |
| | `CallsDoAsAsked` | `DoesAsAsked` |

Assumptions. Those on the constants are named in the module that declares them,
and TLC evaluates them on every run: sets of threads and calls are finite where
something is counted, `NoConn` is no connection, sizes and bounds are natural
numbers, a frame holds more than one unit and there is more than one sequence
number, keys and bounds of partitions are natural numbers and a partition's name
determines it, the lists of keys and of members consist of fields of the struct,
and a number that a server gives out is neither zero nor NULL. `TextAssumption`
of `QueryBuilder` says what a character is: the words of the builders and the
special characters are among them, `$1`, `$2`, ... are different from each other
and in no text of the program (one that writes `$1` itself is not asked of these
drivers), and there are as many as a statement has arguments. Two theorems on how the program is used are about a switch of the
specification: `NoWakeupIsLost` needs `InitFirst` (no one calls `get()` before
`init()` has returned, see SyncPool above), and the last five of `BatchWrite`
need `TogglesQuiet`, since `transaction_` belongs to all connections of a driver
and a call of `set_enable_transaction()` in the midst of a batch of another
connection makes that batch begin a transaction and not end it. The runs check
these properties with the same switches. Everything else is the specification.

### AsyncPool

None of the safety properties is inductive alone. The counters can be related to
the leases only if one knows which places of `get()` own a connection and which
of those a dynamic one; that no unguarded decrement goes below zero needs the
counters to equal cardinalities; and that a drained pool stays idle needs that
`closing_` was set by this closer and by no other. So the invariant is

    IInv == Frames /\ Counting /\ DynamicBound /\ CloserExclusive /\ DrainedMeansIdle
    Frames == Typed /\ LeaseInv /\ DeadInv
    Counting == Accounting /\ in_use_count_ >= 0 /\ dynamic_connection_count_ >= 0

`LeaseInv` says which places own a connection, and which a dynamic one;
`DeadInv` that only handles outlive the pool. The layers are proved in that
order: `Frames` alone is inductive; `Counting` uses it, with lemmas on the
cardinality of a set that gains or loses one element; `DynamicBound` follows
from the second check of the limit on the strand; `CloserExclusive` uses the
places of the closers; `DrainedMeansIdle` uses all of them. `NoHandoutWhileClosed`
then follows from the guard of `HandOut` and the fact that no other action
leads to `held`.

`ExclusiveOwnership` is inductive next to `Frames`. Two lemmas on sequences say
what popping the front and pushing at the back do to the elements of a deque
without repetitions; most steps give no one a connection (`NothingGained`), and
the others move one owner's connection or take an object no one owns.

`CapacityBound` needs to know how far an `init()` has come: `Opening` says that
one that does not overlap another is alone, on a pool that is not initialised,
and that the pool then holds at most as many connections of its generation as
the loop has counted. All other steps only shrink that set (`FixedShrinks`).
`Opening` also gives `OpenPoolKeepsConnections`: an open pool has no `init()`
that could clear it. `UtilizationBounded` combines the counters, the bound, and
that leases on fixed connections map one-to-one to connections, which is
`ExclusiveOwnership`; `LeakInv` relates the two counts of cancelled calls.

`PoolKeepsPromise` is the refinement of `ConnectionPool`. With exclusive owners,
the connections that are lent are apart from those that are kept (`LentApart`),
and `Frames` says of each place whether the mapping sees a connection there. The
steps then fall into classes: those that lend nothing and take nothing back
stutter or are `Fill` or `Shrink` (`PromiseQuiet`, `PromiseInit`,
`PromiseClose`, `PromiseDestroy`); `HandOut` is `Lend` of a connection that was
kept, or of a fresh one when it was dynamic (`PromiseLend`); the end of a lease
is `TakeBack`, after which the connection is kept exactly when the pool is open
and the lease was not temporary (`PromiseReturn`).

### SyncPool

    IInv == TypeOK /\ Once /\ Counting /\ Ownership

The once flag makes `init()` the work of one thread at a time (`Once`), without
which the loop counter says nothing about the pool. `Counting` follows that loop
to the point where `Conservation` begins to hold, connection by connection;
`Ownership` says that a connection is in the queue once, or in one hand, which
the cardinality of what is held needs, and the refinement too. A lost wake-up is
excluded by `Wakeups`: while a thread waits, the idle connections are at most as
many as the threads that are about to call `notify_one()` or were woken by it.
It is inductive only when the pool is full before the first `get()`, since
`init()` pushes without notifying anyone.

### SafeAdapter

    AdapterInv == AdapterTypeOK /\ OneToken /\ Destruction /\ Outcome /\ Cancellation

One `co_await` is one token. It is handed from the strand's queue to a handler,
to the Asio coroutine, back to the queue and to the executor, and used up by
`handle.resume()`; `OneToken` says that it is never in two of these places,
whatever cancellations are in the queue around it, and that no one takes it up
again once it is used up. `Outcome` says what the token carries from the end of
the operation on. `Cancellation` says where a cancellation is that has not yet
reached the operation: recorded, in the queue, or refused by a post that threw.
`Destruction` gives the exact case in which a resumption may meet a parent that
is destroyed, the one that the violated run `adapter_destroyed` shows.

### BatchWrite

    IInv == Rows /\ BatchInv /\ Told        Rows == TypeOK /\ Shape /\ Apart

A statement has many answers (it may fail, break the connection, or be done and
the confirmation lost), and of those a proof about a call needs only what they
have in common: the lemmas on `Begin`, `Commit`, `Rollback`, `Write` and
`Prepare` say that once. `Apart` follows a row from the call that names it,
through the session that wrote it, to where it is durable, and says that it is
in one of these places only; with it, what one connection makes durable is
nothing of another's. `BatchInv` says of each statement of a batch that it runs
inside the transaction the batch began, or that it began none and its rows are
durable one by one. `Told` is then kept by the returns: the rows of a failed
batch were only in a transaction that is gone.

### MysqlWire

    IInv == Types /\ Places /\ Handshake /\ Authenticated /\ Numbering
              /\ Conversation /\ Escaping /\ Recorded

The invariant follows one conversation over its two queues. In the handshake
client and server take turns with one frame (`Handshake`: `MayWrite`,
`HasWritten`, `IsAsked`, `IsAccepted`), and only the last leads to a session that
accepts commands. From then on `Numbering` says which numbers the frames carry
that are in flight, until a command is cancelled between two frames; it is what
makes the server read them. `Conversation` is the heart: as long as nothing
spoiled the connection, what is in flight to the client is what is left of the
answer to its command, of the shape the place of the client expects
(`AnswerFrom`, `ColumnsFrom`, `RowsFrom`, `RestFrom`), or the server still has
all the frames of that command. So what is read belongs to the command that
reads it, and at the end of the command nothing is left. `Escaping` says that
the client escapes as the session reads, or that the packet which says how is
still to come. `Recorded` keeps what the properties record.

### QueryRead

    IInv == Types /\ \A t \in Threads : Course(t) /\ Flag(t) /\ Told(t) /\ Own(t)

`ErrorTellsFailure` is about calls that have returned; it is inductive only with
what `has_error_` is worth before (`Flag`): that the guard has reset it when the
fetch begins, and that at the end of the guard's scope mysql has reported what
sqlite and postgresql still have to report. `Course` says which causes a call
can bring there in which driver. `RowsAreOwn` needs that the bound object of
mysql holds an earlier value only after a row was read, so that the first row is
the server's. Since the blocking drivers share their members, a step of one
connection changes others: it may write their flag, and then they know
(`FlagStep`), or take the text of their views (`Loses`); `OthersKeep` shows once
for all actions that neither disturbs the invariant.

### SchemaBuilder

    TypeInv == /\ driver \in Drivers /\ registered \in BOOLEAN
               /\ TableInv(table) /\ (table.auto = TRUE => registered) /\ JobInv

A statement is sent long after it was collected, so that what it can be is known
only from its builder: `JobInv` keeps that the statements are those of
`generate_sqls()` or one of the pairs the program can collect, and `Fits` says
of each what it can be about. `Sent` is the lemma that turns an operation into
the statement for the driver at hand, and `AfterFacts` says of each statement
the server accepts what it changes.

`RemovesItsRange` is then about one step: `RowsAreRange` says that the rows of a
partition are those of its range. For MySQL this needs `IsItsRange`
(`RangeOfMysql`): the rows below the range belong to the partition that ends
where it begins, the partitions that end before it have none of its rows, and
the ones that end after it leave them to this one.

`CreatedAsAsked` needs `Creating`, which follows a `create_table()` through its
statements and through being executed again: the table has no other partitions
than the ones asked for, and those the statements before `ran` are about, since
a child that is there already is accepted and one that is not must not overlap
those that are. `AddThenDropRestores` needs `Restoring`: that the table is the
one that was found, and between the two statements the same with one thing or
partition more. That dropping it again is accepted in MySQL rests on `TableInv`:
a table that is partitioned has a partition, so that the dropped one is not the
last; and that nothing else is dropped with it, on the partition that is added
not being there before (`FitsOnce`).

### QueryBuilder

    IInv == TypeInv /\ CallsInv /\ SendInv

The invariant and its parts are defined in `BuilderInvariant`, the notions about
texts in `TextReading`; `QueryBuilder_proofs` has the theorems alone.
Most of it is about texts, and the proof begins there, with the operators
of `SqlText` for any alphabet, any text and any arguments. `Runs` reads on from
where a server is; reading one text after another is reading both (`RunsConcat`),
and what is read before a place where the server is outside of everything does
not change what is read after it (`RunsShift`, `PlainSettles`). On this rest:

* *Quoting.* Character by character, what an escape function writes for a
  character of a value is read as that character, so that the whole is read as
  the one value, wherever a value may stand (`SqlValueReads`, `MysqlValueReads`).
  The first needs that the value has no `\` where the server escapes with it.
* *Scanning.* The driver goes from lexeme to lexeme, the server from character
  to character. `LexemeScan` shows for each kind of lexeme that the driver goes
  on where the server is outside of everything again, which gives `NextScan` and
  `NextMark`: a `?` is found if and only if the server reads a mark, and the
  first is found first. Two dashes of MySQL must be before a blank.
* *Filling.* A loop that replaces marks is half way through the text (`Along`):
  what it has written is read as what was there, with the arguments in the place
  of the marks, and what is to come is as it was. `LoopStep` says that replacing
  the next mark keeps this, which needs that a mark touches neither a quote nor
  another mark (`Good`; `SoundGood` shows that `Sound` is enough). From it follow
  the loops of `format_query_args()`, which throws exactly when the numbers
  differ (`FormatFills`), and of `replace_postgresql_placeholders()`
  (`PostgresFills`). `get_sql()` looks for any `?` from the beginning of the
  text: what it finds is the next mark as long as all `?` are marks and the
  arguments bring no new ones (`Replacing`, `TupleFills`).

The builders write words, marks and quoted values, the last two always after a
word (`Steady`). Such a sequence is read as itself (`TokensSaid`), so that the
rest can be said of sequences of lexemes, and texts need not be read again.
`CallsInv` is the invariant of the context: each clause is the text of a steady
sequence, and that of `where` is the last condition (`Written`); and if the chain
was written in one go, the clauses in the order of the text are the calls in
their order (`Ordered`). The latter needs that a stage only offers what comes later in the
text, or what appends to itself (`Behind`, `StagesClosed`, `PlacesGrow`).
`SendInv` says what a statement was made of: of the context as it is now, since
nothing is called while a statement is out, or of a text of the program; and
that an awaitable that waits was made by a stage that can send. `ConditionIsSent`
then follows from what `Written` says of the condition (`HasCondition`), which
filling the marks does not move (`Refilled`). `ReadsAsWritten` follows for the
three ways in which a statement comes about (`StageReads`, `TextReads`,
`TupleReads`); where PostgreSQL binds the arguments, `BoundFilled` shows that a
`$n` of the text is the number of its mark and nothing else.

### EntitySql

    Inv == Registries /\ TableInv /\ RowsInv

The invariant says what the calls read: the registries and the list that is kept
(`Registries`), which column of the table counts (`TableInv`), and that no two
rows have one key (`RowsInv`). What a call does is then proved of the step that
answers it: the columns of an INSERT are the fields that are bound to it
(`ColumnsAreBound`), so that the row the server stores has the object's values
(`StoredAsGiven`); the values bound to an UPDATE are those of the members and
then of the key, each where the text has its column (`BindsInOrder`), so that
the rows change as asked (`ChangedAsAsked`). That `insert()` is not refused for
an auto key rests on `TableInv`: the auto key that the program of an unscoped
struct leaves out is the column that counts in the table.

A column list is what `InOrder` selects from the fields, one by one, and a struct
may have any number of them: this needs induction. The induction theorems of the
library take an operator as parameter, so `Induction` is proved here for a set of
numbers, from the fact that such a set has a least element (`LeastNumber`, by
the well-founded order on finite sets), and with it that the recursive function
`InOrder` is defined by exists (`Recursion`) and which elements it returns
(`InOrderElements`; `InOrderOfTwo` for the few arguments of `query()`).

### What is only model-checked

Liveness, whose fairness and ENABLED are out of the prover's reach: every
property of `FairSpec` or `FairAdapterSpec`.

## 6. Not modelled

* The configuration, the facade and its aspects, the coroutine wrapper, type
  mapping: sequential code that keeps no state of its own.
* The vendored libraries. SQLite, doctest and iguana are more than nine tenths of the lines of the
  repository and third party; what ormpp expects of a database is in the
  external definitions of `BatchWrite`, `QueryRead`, `SchemaBuilder` and
  `EntitySql`.
* Conversions of single values between C++ and a column (numbers, blobs,
  dates), lengths and scrambles inside packets.
* Joins, aggregates and column lists of a select: they are part of its first
  words, and no rule of the builders depends on them.
* Durations: the three seconds, the deadline of `get()`, the backoff (at most
  400 ms in the code, 500 ms in the guide) and the idle limit of six hours are
  choices the model may make at any time.
* The post in the pool's deleter that throws: the connection is then destroyed
  where it is and `in_use_count_` is not lowered. `post()` throws only when
  memory is exhausted.
* `conn_guard` of `connection_pool.hpp`, which does not compile when used.
* Memory effects of the data races on the static members, on the registries and
  on `pool_`: the model has their interleavings. `SyncPool` stops where another
  thread uses `pool_` while `init()`, which does not lock `mutex_`, changes it;
  README.md:1332 says that both are protected.
* Programs that destroy the parent of the light adapter, or use it from two
  threads: its documentation excludes them.
