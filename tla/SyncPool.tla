------------------------------- MODULE SyncPool -------------------------------
(***************************************************************************)
(* connection_pool of src/ormpp/connection_pool.hpp, the blocking pool that *)
(* threads share through a mutex and a condition variable.                 *)
(*                                                                         *)
(* What a thread does under mutex_ is one step; between two critical       *)
(* sections, and inside init_impl(), which does not lock, the other        *)
(* threads run.                                                            *)
(***************************************************************************)
EXTENDS Integers, FiniteSets, Sequences, SequencesExt

CONSTANTS
  Threads,    \* threads that call init() and get()
  Conn,       \* connections; as many as may be open at once in the model
  NoConn,     \* the null pointer
  MaxSize,    \* the maxsize of every call of init()
  MaxLeftover,\* bound on the connections failed calls of init() leave behind
  InitFirst   \* no one calls get() before init() has returned

ASSUME PoolAssumption ==
  /\ IsFiniteSet(Threads) /\ IsFiniteSet(Conn)
  /\ NoConn \notin Conn
  /\ MaxSize \in Nat /\ MaxLeftover \in Nat
  /\ InitFirst \in BOOLEAN

VARIABLES
  flag_,      \* the once_flag: "unset", "running" or "set"
  pool_,      \* idle connections
  pc,         \* what each thread is doing
  conn,       \* the connection each thread has in hand
  filled,     \* the loop counter i of init_impl()
  server_up,  \* connect() succeeds
  leftover,   \* connections that failed calls of init() left in the pool
  lost,       \* connections that were given up for a replacement that failed
  missed,     \* a notified thread returned at its timeout
  raced       \* pool_ was used while init_impl() was changing it

pool == <<flag_, pool_, filled>>
history == <<leftover, lost, missed, raced>>
vars == <<pool, pc, conn, server_up, history>>

Init ==
  /\ flag_ = "unset"
  /\ pool_ = <<>>
  /\ pc = [t \in Threads |-> "idle"]
  /\ conn = [t \in Threads |-> NoConn]
  /\ filled = 0
  /\ server_up = TRUE
  /\ leftover = 0 /\ lost = 0 /\ missed = FALSE /\ raced = FALSE

-----------------------------------------------------------------------------
Goto(t, place) == pc' = [pc EXCEPT ![t] = place]
Hold(t, c) == conn' = [conn EXCEPT ![t] = c]

Open == ToSet(pool_) \cup {conn[t] : t \in {u \in Threads : conn[u] # NoConn}}
Closed == Conn \ Open

\* A critical section reads or changes pool_; it races with init_impl().
UsesPool == raced' = (\E t \in Threads : pc[t] = "pushing")

(***************************************************************************)
(* init()                                                                  *)
(***************************************************************************)
InitCall(t) ==
  /\ pc[t] = "idle"
  /\ flag_ = "unset"
  /\ flag_' = "running"
  /\ filled' = 0
  /\ Goto(t, "init")
  /\ UNCHANGED <<pool_, conn, server_up, history>>

InitConnects(t) ==
  /\ pc[t] = "init"
  /\ filled < MaxSize
  /\ server_up
  /\ \E c \in Closed : Hold(t, c)
  /\ Goto(t, "pushing")
  /\ UNCHANGED <<pool, server_up, history>>

InitPush(t) ==
  /\ pc[t] = "pushing"
  /\ pool_' = Append(pool_, conn[t])
  /\ Hold(t, NoConn)
  /\ filled' = filled + 1
  /\ Goto(t, "init")
  /\ UNCHANGED <<flag_, server_up, history>>

\* The exception passes through call_once: the flag stays unset, and what was
\* pushed stays in pool_.
InitThrows(t) ==
  /\ pc[t] = "init"
  /\ filled < MaxSize
  /\ ~server_up
  /\ flag_' = "unset"
  /\ leftover' = leftover + filled
  /\ leftover' <= MaxLeftover
  /\ Goto(t, "idle")
  /\ UNCHANGED <<pool_, filled, conn, server_up, lost, missed, raced>>

InitReturns(t) ==
  /\ pc[t] = "init"
  /\ filled = MaxSize
  /\ flag_' = "set"
  /\ Goto(t, "idle")
  /\ UNCHANGED <<pool_, filled, conn, server_up, history>>

-----------------------------------------------------------------------------
(***************************************************************************)
(* get()                                                                   *)
(***************************************************************************)
NotPopped(t) == Hold(t, Head(pool_)) /\ UNCHANGED pool_

PopFront(t) == Hold(t, Head(pool_)) /\ pool_' = Tail(pool_)

\* The loop of get(), entered with the mutex held.
TakeOrWait(t) ==
  /\ UsesPool
  /\ \/ pool_ = <<>> /\ Goto(t, "waiting") /\ UNCHANGED <<pool_, conn>>
     \/ pool_ # <<>> /\ Goto(t, "popped") /\ PopFront(t)
  /\ UNCHANGED <<flag_, filled, server_up, leftover, lost, missed>>

Get(t) ==
  /\ pc[t] = "idle"
  /\ InitFirst => flag_ = "set"
  /\ TakeOrWait(t)

\* wait_for() returns in time; each pass of the loop starts a new wait.
Wakes(t) == pc[t] = "notified" /\ TakeOrWait(t)

WaitsWithoutLimit(t) == pc[t] = "waiting" /\ UNCHANGED vars

\* Three seconds pass in one wait_for(): get() returns nullptr.
TimesOut(t) ==
  /\ pc[t] = "waiting"
  /\ Goto(t, "idle")
  /\ UNCHANGED <<pool, conn, server_up, history>>

\* A thread that was notified gets the mutex back after its deadline:
\* wait_for() says timeout, and pool_ is not looked at.
TimesOutNotified(t) ==
  /\ pc[t] = "notified"
  /\ missed' = TRUE
  /\ Goto(t, "idle")
  /\ UNCHANGED <<pool, conn, server_up, leftover, lost, raced>>

\* ping() succeeds and the connection has not idled too long.
HandsOut(t) ==
  /\ pc[t] = "popped"
  /\ server_up
  /\ Goto(t, "using")
  /\ UNCHANGED <<pool, conn, server_up, history>>

\* ping() fails, because of the server or of this connection, or more than six
\* hours have passed since the connection was last handed out.
Refuses(t) ==
  /\ pc[t] = "popped"
  /\ Goto(t, "creating")
  /\ UNCHANGED <<pool, conn, server_up, history>>

\* create_connection(); the refused connection is closed when get() returns.
Creates(t) ==
  /\ pc[t] = "creating"
  /\ server_up
  /\ \E c \in Closed : Hold(t, c)
  /\ Goto(t, "using")
  /\ UNCHANGED <<pool, server_up, history>>

RefusedKept(t) ==
  /\ pc[t] = "creating"
  /\ ~server_up
  /\ lost' = lost + 1
  /\ Goto(t, "idle")
  /\ UNCHANGED <<pool, conn, server_up, leftover, missed, raced>>

CreateFails(t) ==
  /\ pc[t] = "creating"
  /\ ~server_up
  /\ Hold(t, NoConn)
  /\ lost' = lost + 1
  /\ Goto(t, "idle")
  /\ UNCHANGED <<pool, server_up, leftover, missed, raced>>

-----------------------------------------------------------------------------
(***************************************************************************)
(* The deleter of the pointer get() returned                               *)
(***************************************************************************)
ReturnIfUp(t) ==
  pool_' = IF server_up THEN Append(pool_, conn[t]) ELSE pool_

PushBack(t) == pool_' = Append(pool_, conn[t])

Returns(t) ==
  /\ pc[t] = "using"
  /\ UsesPool
  /\ PushBack(t)
  /\ Hold(t, NoConn)
  /\ Goto(t, "notifying")
  /\ UNCHANGED <<flag_, filled, server_up, leftover, lost, missed>>

Waiting == {t \in Threads : pc[t] = "waiting"}

NotifyNobody(t) == Goto(t, "idle")

\* notify_one(), after the mutex was released.
NotifyOne(t) ==
  IF Waiting = {} THEN Goto(t, "idle")
  ELSE \E u \in Waiting : pc' = [pc EXCEPT ![t] = "idle", ![u] = "notified"]

Notifies(t) ==
  /\ pc[t] = "notifying"
  /\ NotifyOne(t)
  /\ UNCHANGED <<pool, conn, server_up, history>>

-----------------------------------------------------------------------------
(* The world around the pool.                                              *)

ServerFlips == server_up' = ~server_up
               /\ UNCHANGED <<pool, pc, conn, history>>

-----------------------------------------------------------------------------
InitStep(t) == \/ InitConnects(t) \/ InitPush(t) \/ InitThrows(t) \/ InitReturns(t)

GetStep(t) == \/ Wakes(t) \/ TimesOut(t) \/ TimesOutNotified(t)
              \/ HandsOut(t) \/ Refuses(t) \/ Creates(t) \/ CreateFails(t)

ReturnStep(t) == Returns(t) \/ Notifies(t)

\* After a data race nothing more is known of the program.
Next == /\ ~raced
        /\ \/ \E t \in Threads : InitCall(t) \/ Get(t) \/ InitStep(t)
                                 \/ GetStep(t) \/ ReturnStep(t)
           \/ ServerFlips

Spec == Init /\ [][Next]_vars

\* Threads run, a wait that is not disturbed times out, and users return what
\* they got.  A wait that is notified starts anew, so that its timeout is only
\* fair for as long as the thread goes on waiting.
FairSpec == Spec /\ \A t \in Threads : /\ WF_vars(InitStep(t))
                                       /\ WF_vars(GetStep(t))
                                       /\ WF_vars(ReturnStep(t))

-----------------------------------------------------------------------------
(* Properties                                                              *)

Places == {"idle", "init", "pushing", "waiting", "notified", "popped", "creating",
           "using", "notifying"}

Holding == {t \in Threads : conn[t] # NoConn}

\* Types; and a thread has a connection in hand exactly where the code does.
TypeOK ==
  /\ flag_ \in {"unset", "running", "set"}
  /\ pool_ \in Seq(Conn)
  /\ pc \in [Threads -> Places]
  /\ conn \in [Threads -> Conn \cup {NoConn}]
  /\ filled \in 0..MaxSize
  /\ leftover \in Nat /\ lost \in Nat
  /\ {server_up, missed, raced} \subseteq BOOLEAN
  /\ Holding = {t \in Threads : pc[t] \in {"pushing", "popped", "creating", "using"}}

Total == Len(pool_) + Cardinality(Holding)

\* Between get() and the deleter no connection appears or disappears, but for
\* those whose replacement could not be opened: what init() pushed is in
\* pool_, in the hands of a thread, or lost.
Conservation == flag_ = "set" => Total + lost = MaxSize + leftover

\* While a connection is idle some thread is on its way to it, or no thread
\* waits: only a wake-up that a late timeout swallowed leaves a thread asleep
\* beside an idle connection.
WakeupNotLost ==
  flag_ = "set" /\ pool_ # <<>> /\ Waiting # {} =>
    missed \/ \E t \in Threads : pc[t] \in {"notifying", "notified"}

InGet(t) == pc[t] \in {"waiting", "notified", "popped", "creating"}

\* A get() ends.
GetReturns == \A t \in Threads : InGet(t) ~> ~InGet(t)

\* A get() ends once the other threads no longer call get().
GetReturnsOnceQuiet ==
  <>[][\A t \in Threads : ~Get(t)]_vars => GetReturns

(***************************************************************************)
(* The pool as its callers see it.  It is never closed, and a connection   *)
(* that is popped but not yet handed out is still the pool's.              *)
(***************************************************************************)
Users == {t \in Threads : pc[t] = "using"}

Checking == {t \in Threads : pc[t] \in {"popped", "creating"}}

Kept == ToSet(pool_) \cup {conn[t] : t \in Checking}

LentTo == [t \in Threads |-> IF t \in Users THEN conn[t] ELSE NoConn]

Promise == INSTANCE ConnectionPool WITH
  Callers <- Threads,
  open <- TRUE,
  idle <- Kept,
  lent <- LentTo,
  temporary <- {}

\* Every execution of the pool is one ConnectionPool allows: threads that pop,
\* replace, return and time out in any order never share a connection, and what
\* a thread gives back is there for the next one.
ImplementsPool == Promise!Spec
=============================================================================
