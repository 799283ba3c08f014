------------------------------ MODULE AsyncPool ------------------------------
(***************************************************************************)
(* The coroutine connection pool of src/ormpp/async_connection_pool.hpp.   *)
(*                                                                         *)
(* Three kinds of coroutine work on one pool: get() calls, init() calls    *)
(* and close_all() calls.  A coroutine runs without interruption from one  *)
(* co_await that suspends to the next, so each such segment is one action; *)
(* `co_await asio::post(strand_)' is a suspension after which the segment  *)
(* runs on the pool's strand.  init() never posts to the strand: the model *)
(* interleaves its segments with the others, as an executor with a single  *)
(* thread does.                                                            *)
(*                                                                         *)
(* A member of Calls stands for one get() together with the lease it may   *)
(* produce: it becomes idle again when the lease is over, so that the next *)
(* get() of the same caller is another member of Calls.                    *)
(***************************************************************************)
EXTENDS Integers, Sequences, FiniteSets

CONSTANTS
  Calls,        \* get() calls, and the handles they return
  Initers,      \* coroutines that call init()
  Closers,      \* coroutines that call close_all()
  Conn,         \* connection objects
  NoConn,       \* an empty unique_ptr
  PoolSizes,    \* values of init()'s argument pool_size
  MaxDynamic,   \* options_.max_dynamic_connections; 0: expansion disabled
  MaxLeaks      \* bound on the get() calls cancelled while they are counted

ASSUME CallsAssumption == IsFiniteSet(Calls)
ASSUME ConnAssumption == NoConn \notin Conn
ASSUME BoundsAssumption ==
  /\ PoolSizes \subseteq Nat
  /\ MaxDynamic \in Nat
  /\ MaxLeaks \in Nat

VARIABLES
  \* The members of the pool.  A counter that an unguarded decrement takes
  \* below zero, where size_t wraps around, is a negative number here.
  pool_alive,                \* the shared_ptr's target has not been destroyed
  initialized_,
  closing_,
  pool_size_,
  in_use_count_,
  dynamic_connection_count_,
  available_connections_,
  \* The frames of the get() calls.
  pc,          \* where the call is suspended
  conn,        \* the connection the call, or the handle it returned, owns
  dynamic,     \* the calls whose connection is dynamic (the deleter's capture)
  \* The frames of the init() and close_all() calls.
  initer,      \* initer[i]: the connection being opened and the loop counter
  closer,      \* where close_all() is suspended
  \* The database server, as far as ping() and connect() can tell.
  server_up,
  \* History, read by properties and by no guard but the bound MaxLeaks.
  leaked,         \* get() calls cancelled after in_use_count_++
  leaked_dynamic, \* those cancelled after dynamic_connection_count_++
  orphans,        \* fixed connections that were alive when init() last began
  overlapped      \* two init() calls were opening connections at once

flags    == <<pool_alive, initialized_, closing_, pool_size_>>
counts   == <<in_use_count_, dynamic_connection_count_>>
poolVars == <<flags, counts, available_connections_>>
callVars == <<pc, conn, dynamic>>
history  == <<leaked, leaked_dynamic, orphans, overlapped>>
others   == <<initer, closer, server_up>>
vars     == <<poolVars, callVars, others, history>>

-----------------------------------------------------------------------------
(* Places where a get() call is suspended.                                 *)

Uncounted == {"idle",      \* no call
              "loop",      \* at the test of the while loop
              "acquire",   \* posted to the strand, before the first check
              "expand",    \* posted by create_dynamic_connection()
              "wait"}      \* on the backoff timer

\* The call is counted in in_use_count_.
Counted == {"ping",        \* popped a connection, waits for ping()
            "reconnect",   \* waits for connect() on the popped connection
            "discard",     \* posted, to give up a connection that is dead
            "verify",      \* posted, to check the pool once more
            "dynConnect",  \* waits for connect() of a dynamic connection
            "dynFailed",   \* posted, to undo the counts of a failed connect
            "dynVerify",   \* posted, to check the pool once more
            "held",        \* get() has returned a handle, which is alive
            "returning"}   \* the deleter has posted return_connection()

\* Places where close_all() is suspended after it has set closing_.
Closing == {"test",      \* at the test of the while loop
            "drain",     \* posted, to read in_use_count_
            "pause",     \* on the timer of one second
            "finish",    \* posted, to disconnect whatever is in use
            "drained"}   \* the same, after a look that saw in_use_count_ = 0

OpenUntilFinished == initialized_

Open == initialized_ /\ ~closing_

\* The counted calls: they own a connection no one else may use.
Leases == {c \in Calls : pc[c] \in Counted}

Available == {available_connections_[k] : k \in 1..Len(available_connections_)}

\* The connection objects that some frame, some handle or the pool owns.
Live == Available \cup {conn[c] : c \in Calls}
                  \cup {initer[i].conn : i \in Initers}

\* The connections that belong to the fixed part of the pool.
Fixed == Available \cup {conn[c] : c \in Leases \ dynamic}

NoDec(n) == n

\* if (count > 0) --count;
GuardedDec(n) == IF n > 0 THEN n - 1 ELSE n

IdleInit == [conn |-> NoConn, count |-> 0]

Init ==
  /\ pool_alive = TRUE /\ initialized_ = FALSE /\ closing_ = FALSE
  /\ pool_size_ = 0 /\ in_use_count_ = 0 /\ dynamic_connection_count_ = 0
  /\ available_connections_ = <<>>
  /\ pc = [c \in Calls |-> "idle"]
  /\ conn = [c \in Calls |-> NoConn]
  /\ dynamic = {}
  /\ initer = [i \in Initers |-> IdleInit]
  /\ closer = [k \in Closers |-> "idle"]
  /\ server_up \in BOOLEAN
  /\ leaked = 0 /\ leaked_dynamic = 0 /\ orphans = {} /\ overlapped = FALSE

-----------------------------------------------------------------------------
(* init()                                                                  *)

\* The first segment: the early returns (which change nothing), the new
\* pool_size_, and connect() started for the first connection.
InitCall(i, size) ==
  /\ pool_alive
  /\ initer[i].conn = NoConn
  /\ ~initialized_ /\ ~closing_
  /\ pool_size_' = size
  /\ orphans' = Fixed
  /\ overlapped' = (overlapped \/ \E j \in Initers : initer[j].conn # NoConn)
  /\ IF size = 0
       THEN initialized_' = TRUE /\ UNCHANGED initer
       ELSE /\ UNCHANGED initialized_
            /\ \E new \in Conn \ Live :
                 initer' = [initer EXCEPT ![i] = [conn |-> new, count |-> 0]]
  /\ UNCHANGED <<pool_alive, closing_, counts, available_connections_, callVars,
                 closer, server_up, leaked, leaked_dynamic>>

OneTooMany(i) == initer[i].count < pool_size_

\* The test of init()'s loop for the round after the current one.
MoreToOpen(i) == initer[i].count + 1 < pool_size_

\* connect() succeeds: the connection joins the pool; the loop, whose bound is
\* the member pool_size_, opens another one or ends.
InitConnected(i) ==
  /\ initer[i].conn # NoConn
  /\ server_up
  /\ available_connections_' = Append(available_connections_, initer[i].conn)
  /\ IF MoreToOpen(i)
       THEN /\ UNCHANGED initialized_
            /\ \E new \in Conn \ Live :
                 /\ initer' = [initer EXCEPT ![i] =
                                 [conn |-> new, count |-> @.count + 1]]
                 /\ orphans' = orphans \ {new}
       ELSE /\ initialized_' = TRUE
            /\ initer' = [initer EXCEPT ![i] = IdleInit]
            /\ UNCHANGED orphans
  /\ UNCHANGED <<pool_alive, closing_, pool_size_, counts, callVars, closer,
                 server_up, leaked, leaked_dynamic, overlapped>>

\* connect() fails: disconnect_available_connections(), and return false.
InitFailed(i) ==
  /\ initer[i].conn # NoConn
  /\ ~server_up
  /\ available_connections_' = <<>>
  /\ initer' = [initer EXCEPT ![i] = IdleInit]
  /\ UNCHANGED <<flags, counts, callVars, closer, server_up, history>>

-----------------------------------------------------------------------------
(* get() and create_dynamic_connection()                                   *)

Goto(c, place) == pc' = [pc EXCEPT ![c] = place]

\* A segment that only moves the call on.
Move(c, from, to) ==
  /\ pc[c] = from
  /\ Goto(c, to)
  /\ UNCHANGED <<poolVars, conn, dynamic, others, history>>

\* The call's unique_ptr is destroyed or moved away.
Drop(c) == /\ conn' = [conn EXCEPT ![c] = NoConn]
           /\ dynamic' = dynamic \ {c}

GetCall(c) == pool_alive /\ Move(c, "idle", "loop")

\* The test of the loop, before and after the deadline.
GetRetry(c) == Move(c, "loop", "acquire")
GetTimedOut(c) == Move(c, "loop", "idle")

GetRefused(c) == ~Open /\ Move(c, "acquire", "idle")

PopFront == Tail(available_connections_)

GetPop(c) ==
  /\ pc[c] = "acquire"
  /\ Open
  /\ available_connections_ # <<>>
  /\ conn' = [conn EXCEPT ![c] = Head(available_connections_)]
  /\ available_connections_' = PopFront
  /\ in_use_count_' = in_use_count_ + 1
  /\ Goto(c, "ping")
  /\ UNCHANGED <<flags, dynamic_connection_count_, dynamic, others, history>>

BackOffForever == {"acquire"}

\* Where an exhausted round goes: to the timer, or out of the loop when no
\* time remains.
BackOff == {"wait", "idle"}

GetExhausted(c) ==
  /\ Open
  /\ available_connections_ = <<>>
  /\ \E place \in IF dynamic_connection_count_ < MaxDynamic THEN {"expand"}
                                                           ELSE BackOff :
       Move(c, "acquire", place)

BackoffExpires(c) == Move(c, "wait", "loop")

\* ping() returns; it may fail on a broken socket while the server is up.
Ping(c) == \/ server_up /\ Move(c, "ping", "verify")
           \/ Move(c, "ping", "reconnect")

Reconnect(c) == Move(c, "reconnect", IF server_up THEN "verify" ELSE "discard")

DynamicConnect(c) ==
  Move(c, "dynConnect", IF server_up THEN "dynVerify" ELSE "dynFailed")

HandOutUnchecked(c) == \/ Move(c, "verify", "held")
                       \/ Move(c, "dynVerify", "held")

\* Back on the strand, in a pool that is still open: return the handle.
HandOut(c) == Open /\ (Move(c, "verify", "held") \/ Move(c, "dynVerify", "held"))

\* Back on the strand with a dead connection, or in a pool that was closed
\* meanwhile: the connection is disconnected and the loop continues.
GiveUp(c) ==
  /\ pc[c] = "discard" \/ (pc[c] = "verify" /\ ~Open)
  /\ in_use_count_' = GuardedDec(in_use_count_)
  /\ Drop(c)
  /\ Goto(c, "loop")
  /\ UNCHANGED <<flags, dynamic_connection_count_, available_connections_,
                 others, history>>

\* The check on the strand, after the one get() made before it posted.
MayExpand == Open /\ dynamic_connection_count_ < MaxDynamic

DynamicRefused(c) ==
  ~MayExpand /\ \E place \in BackOff : Move(c, "expand", place)

LateCount(n) == n

\* The counters are raised before connect(), so that a failure can lower them.
EarlyCount(n) == n + 1

CreateDynamic(c) ==
  /\ pc[c] = "expand"
  /\ MayExpand
  /\ dynamic_connection_count_' = EarlyCount(dynamic_connection_count_)
  /\ in_use_count_' = EarlyCount(in_use_count_)
  /\ \E new \in Conn \ Live : /\ conn' = [conn EXCEPT ![c] = new]
                             /\ orphans' = orphans \ {new}
  /\ dynamic' = dynamic \cup {c}
  /\ Goto(c, "dynConnect")
  /\ UNCHANGED <<flags, available_connections_, others, leaked, leaked_dynamic,
                 overlapped>>

\* The counts are undone: with a guard when the pool was closed meanwhile,
\* without one when connect() failed.
DynamicGiveUp(c) ==
  /\ \/ /\ pc[c] = "dynFailed"
        /\ dynamic_connection_count_' = dynamic_connection_count_ - 1
        /\ in_use_count_' = in_use_count_ - 1
     \/ /\ pc[c] = "dynVerify" /\ ~Open
        /\ dynamic_connection_count_' = GuardedDec(dynamic_connection_count_)
        /\ in_use_count_' = GuardedDec(in_use_count_)
  /\ Drop(c)
  /\ \E place \in BackOff : Goto(c, place)
  /\ UNCHANGED <<flags, available_connections_, others, history>>

\* The last copy of the handle dies: the deleter posts return_connection(), or
\* destroys the connection where it is when the pool is gone.
Release(c) ==
  \/ pool_alive /\ Move(c, "held", "returning")
  \/ /\ ~pool_alive
     /\ pc[c] = "held"
     /\ Goto(c, "idle")
     /\ Drop(c)
     /\ UNCHANGED <<poolVars, others, history>>

RequeueNever(c) == available_connections_

\* A fixed connection goes back to the pool unless the pool was closed.
Requeue(c) == IF Open THEN Append(available_connections_, conn[c])
                      ELSE available_connections_

ReturnConnection(c) ==
  /\ pc[c] = "returning"
  /\ in_use_count_' = GuardedDec(in_use_count_)
  /\ IF c \in dynamic
       THEN /\ dynamic_connection_count_' = GuardedDec(dynamic_connection_count_)
            /\ UNCHANGED available_connections_
       ELSE /\ UNCHANGED dynamic_connection_count_
            /\ available_connections_' = Requeue(c)
  /\ Drop(c)
  /\ Goto(c, "idle")
  /\ UNCHANGED <<flags, others, history>>

(***************************************************************************)
(* Cancellation, through the cancellation slot co_spawn gives the call.    *)
(* ping() and connect() swallow the error, so that the call ends at its    *)
(* next co_await: the decrement of a counted call never runs.              *)
(***************************************************************************)
GetCancelledWaiting(c) == Move(c, "wait", "idle")

GetCancelledCounted(c) ==
  /\ leaked < MaxLeaks
  /\ pc[c] \in {"ping", "reconnect", "dynConnect"}
  /\ leaked' = leaked + 1
  /\ leaked_dynamic' = leaked_dynamic + (IF c \in dynamic THEN 1 ELSE 0)
  /\ Drop(c)
  /\ Goto(c, "idle")
  /\ UNCHANGED <<poolVars, others, orphans, overlapped>>

-----------------------------------------------------------------------------
(* close_all()                                                             *)

\* A segment that only moves the call on.
CloserMove(k, from, to) ==
  /\ closer[k] = from
  /\ closer' = [closer EXCEPT ![k] = to]
  /\ UNCHANGED <<poolVars, callVars, initer, server_up, history>>

CloseCall(k) == pool_alive /\ CloserMove(k, "idle", "enter")

CloseRefused(k) == ~Open /\ CloserMove(k, "enter", "idle")

CloseBegin(k, wait_for_return) ==
  /\ closer[k] = "enter"
  /\ Open
  /\ closing_' = TRUE
  /\ closer' = [closer EXCEPT ![k] = IF ~wait_for_return THEN "finish"
                                     ELSE IF in_use_count_ = 0 THEN "drained"
                                     ELSE "test"]
  /\ UNCHANGED <<pool_alive, initialized_, pool_size_, counts,
                 available_connections_, callVars, initer, server_up, history>>

\* The test of the loop, before and after max_wait has passed.
CloseKeepsWaiting(k) == CloserMove(k, "test", "drain")
CloseGivesUp(k) == CloserMove(k, "test", "finish")

CloseLook(k) ==
  \E place \in IF in_use_count_ = 0 THEN {"drained"} ELSE {"pause", "finish"} :
    CloserMove(k, "drain", place)

ClosePauseLoops(k) == CloserMove(k, "pause", "drain")

ClosePauseEnds(k) == CloserMove(k, "pause", "test")

CloseFinish(k) ==
  /\ closer[k] \in {"finish", "drained"}
  /\ available_connections_' = <<>>
  /\ initialized_' = FALSE
  /\ closing_' = FALSE
  /\ closer' = [closer EXCEPT ![k] = "idle"]
  /\ UNCHANGED <<pool_alive, pool_size_, counts, callVars, initer, server_up,
                 history>>

-----------------------------------------------------------------------------
\* The destructor.  Every coroutine of the pool runs on a raw `this' that its
\* caller keeps alive, and a posted return owns the pool, so the pool dies only
\* when all that is left of it are handles.
DestroyPool ==
  /\ pool_alive
  /\ \A c \in Calls : pc[c] \in {"idle", "held"}
  /\ \A i \in Initers : initer[i].conn = NoConn
  /\ \A k \in Closers : closer[k] = "idle"
  /\ pool_alive' = FALSE
  /\ available_connections_' = <<>>
  /\ UNCHANGED <<initialized_, closing_, pool_size_, counts, callVars, others,
                 history>>

\* Whether the next ping() or connect() can succeed is up to the server.
ServerFlips ==
  /\ server_up' = ~server_up
  /\ UNCHANGED <<poolVars, callVars, initer, closer, history>>

-----------------------------------------------------------------------------
GetStep(c) ==
  \/ GetRetry(c) \/ GetTimedOut(c) \/ GetRefused(c) \/ GetPop(c)
  \/ GetExhausted(c) \/ BackoffExpires(c) \/ HandOut(c) \/ GiveUp(c)
  \/ DynamicRefused(c) \/ CreateDynamic(c) \/ DynamicGiveUp(c)
  \/ ReturnConnection(c)

GetAnswer(c) == Ping(c) \/ Reconnect(c) \/ DynamicConnect(c)

GetCancelled(c) == GetCancelledWaiting(c) \/ GetCancelledCounted(c)

InitAnswer(i) == InitConnected(i) \/ InitFailed(i)

CloseStep(k) ==
  \/ CloseRefused(k) \/ \E wait \in BOOLEAN : CloseBegin(k, wait)
  \/ CloseKeepsWaiting(k) \/ CloseGivesUp(k) \/ CloseLook(k)
  \/ ClosePauseEnds(k) \/ CloseFinish(k)

Next ==
  \/ \E c \in Calls : \/ GetCall(c) \/ GetStep(c) \/ GetAnswer(c)
                      \/ GetCancelled(c) \/ Release(c)
  \/ \E i \in Initers : \/ \E size \in PoolSizes : InitCall(i, size)
                        \/ InitAnswer(i)
  \/ \E k \in Closers : CloseCall(k) \/ CloseStep(k)
  \/ DestroyPool
  \/ ServerFlips

Spec == Init /\ [][Next]_vars

(***************************************************************************)
(* Fairness.  The executor runs every posted segment and every expired     *)
(* timer, and a loop test that is reached again and again is reached after *)
(* its deadline.  Callers owe nothing: GetCall, Release, InitCall,         *)
(* CloseCall, cancellation and the server are not fair.                    *)
(***************************************************************************)
Scheduling ==
  /\ \A c \in Calls : WF_vars(GetStep(c)) /\ SF_vars(GetTimedOut(c))
  /\ \A k \in Closers : WF_vars(CloseStep(k)) /\ SF_vars(CloseGivesUp(k))

\* Every ping() and connect() ends: the peer answers or the socket breaks.
Answers ==
  /\ \A c \in Calls : WF_vars(GetAnswer(c))
  /\ \A i \in Initers : WF_vars(InitAnswer(i))

FairSpec == Spec /\ Scheduling /\ Answers

-----------------------------------------------------------------------------
(* Properties                                                              *)

Typed ==
  /\ pool_alive \in BOOLEAN
  /\ initialized_ \in BOOLEAN
  /\ closing_ \in BOOLEAN
  /\ pool_size_ \in Nat
  /\ in_use_count_ \in Int
  /\ dynamic_connection_count_ \in Int
  /\ available_connections_ \in Seq(Conn)
  /\ pc \in [Calls -> Uncounted \cup Counted]
  /\ conn \in [Calls -> Conn \cup {NoConn}]
  /\ dynamic \subseteq Calls
  /\ initer \in [Initers -> [conn : Conn \cup {NoConn}, count : Nat]]
  /\ closer \in [Closers -> {"idle", "enter"} \cup Closing]
  /\ server_up \in BOOLEAN
  /\ leaked \in Nat
  /\ leaked_dynamic \in Nat
  /\ orphans \subseteq Conn
  /\ overlapped \in BOOLEAN

\* Every variable has its type, and no counter was decremented below zero,
\* where the unguarded decrements of create_dynamic_connection() would make
\* the size_t wrap around.
TypeOK == Typed /\ in_use_count_ >= 0 /\ dynamic_connection_count_ >= 0

\* in_use_count_ and dynamic_connection_count_ are exactly the connections
\* that are being verified, handed out or on their way back, plus one for each
\* get() that was cancelled while it was counted: no path through get(),
\* create_dynamic_connection() and return_connection() counts twice or forgets.
Accounting ==
  pool_alive =>
    /\ in_use_count_ = Cardinality(Leases) + leaked
    /\ dynamic_connection_count_ = Cardinality(dynamic) + leaked_dynamic

\* The number of temporary connections never exceeds max_dynamic_connections,
\* although get() reads the counter before it posts to the strand.
DynamicBound == dynamic_connection_count_ <= MaxDynamic

\* closing_ is set exactly while one close_all() is past its first check, and
\* then the pool is still initialized_.
CloserExclusive ==
  /\ closing_ <=> \E k \in Closers : closer[k] \in Closing
  /\ closing_ => initialized_
  /\ \A k, l \in Closers :
       closer[k] \in Closing /\ closer[l] \in Closing => k = l

\* When close_all(true) has seen in_use_count_ = 0 no one owns a connection
\* of the pool, and no get() obtains one before close_all() is done, although
\* it posts to the strand once more in between.
DrainedMeansIdle ==
  \A k \in Closers : closer[k] = "drained" => Leases = {}

\* A connection object has one owner: the deque holds it once, and no two
\* frames or handles, nor a frame and the deque, hold the same one.
ExclusiveOwnership ==
  /\ \A j, k \in 1..Len(available_connections_) :
       available_connections_[j] = available_connections_[k] => j = k
  /\ \A c, d \in Calls : conn[c] = conn[d] /\ conn[c] # NoConn => c = d
  /\ \A c \in Calls : conn[c] \notin Available
  /\ \A i \in Initers :
       /\ initer[i].conn \notin Available
       /\ \A c \in Calls : initer[i].conn = conn[c] => conn[c] = NoConn
       /\ \A j \in Initers : initer[i].conn = initer[j].conn
                              /\ initer[i].conn # NoConn => i = j

\* The pool never has more than pool_size_ fixed connections of its current
\* generation, as long as init() calls do not overlap; only connections that
\* were out when init() was called again come on top.
CapacityBound == overlapped \/ Cardinality(Fixed \ orphans) <= pool_size_

\* Neither limit of the configuration is exceeded: the number of fixed
\* connections, which init() and return_connection() keep, and that of temporary
\* ones, which get() compares before it posts to the strand.
LimitsKept == CapacityBound /\ DynamicBound

\* A pool that is not initialised, and not being initialised, keeps no
\* connection: what comes back after close_all() is dropped.
ClosedPoolIsEmpty ==
  ~initialized_ /\ (\A i \in Initers : initer[i].conn = NoConn)
    => available_connections_ = <<>>

\* The percentage get_status_string() prints.
Utilization ==
  LET capacity == pool_size_ + dynamic_connection_count_
  IN  IF capacity = 0 THEN 0 ELSE (in_use_count_ * 100) \div capacity

\* The utilisation shown to an operator is at most 100% unless connections of
\* an earlier generation, of overlapping init() calls or of cancelled get()
\* calls are still counted.
UtilizationBounded ==
  pool_alive /\ leaked = 0 /\ ~overlapped /\ Fixed \cap orphans = {} => Utilization <= 100

\* A handle is only ever given out by a pool that is open at that moment: the
\* state get() read before ping() or connect() is not used after it.
NoHandoutWhileClosed ==
  [][\A c \in Calls : pc[c] # "held" /\ pc'[c] = "held" => Open']_vars

\* While the pool stays open a fixed connection leaves it only because
\* reconnecting it failed, or because the call that owned it was cancelled;
\* init() calls that overlap may clear each other's connections.
OpenPoolKeepsConnections ==
  [][pool_alive' /\ Open /\ Open' /\ ~overlapped =>
       \A x \in Fixed \ Fixed' : \/ leaked' > leaked
                                  \/ \E c \in Calls : /\ conn[c] = x
                                                       /\ pc[c] = "discard"]_vars

\* Every get() ends, with a handle or with nullptr.
GetReturns == \A c \in Calls : pc[c] = "loop" ~> pc[c] \in {"idle", "held"}

\* Every close_all() ends, whether or not the handles come back.
CloseReturns == \A k \in Closers : closer[k] = "enter" ~> closer[k] = "idle"

(***************************************************************************)
(* The pool as its callers see it.  A connection that is being verified is *)
(* still the pool's; one whose handle has died is lent until               *)
(* return_connection() has run.                                            *)
(***************************************************************************)
Verifying == {"ping", "reconnect", "discard", "verify"}

Kept == Available \cup {conn[c] : c \in {d \in Calls : pc[d] \in Verifying}}

Lenders == {c \in Calls : pc[c] \in {"held", "returning"}}

LentTo == [c \in Calls |-> IF c \in Lenders THEN conn[c] ELSE NoConn]

Promise == INSTANCE ConnectionPool WITH
  Callers <- Calls,
  open <- pool_alive /\ Open,
  idle <- Kept,
  lent <- LentTo,
  temporary <- dynamic \cap Lenders

\* Every execution of the pool is one ConnectionPool allows: whatever init(),
\* close_all(), cancellations and dead connections do meanwhile, a connection is
\* lent to one caller, out of an open pool, and a fixed one that comes back to
\* an open pool can be lent again.
ImplementsPool == Promise!Spec
=============================================================================
