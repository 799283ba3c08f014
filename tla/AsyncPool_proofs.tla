--------------------------- MODULE AsyncPool_proofs ---------------------------
(***************************************************************************)
(* Proofs about the coroutines of the asynchronous driver: AsyncPool, for  *)
(* any number of calls, connections and coroutines, any pool size and any  *)
(* limit of dynamic connections; and, at the end, SafeAdapter, for any     *)
(* number of cancellations.                                                *)
(*                                                                         *)
(* The inductive invariant of AsyncPool is IInv.  Its parts are proved in three layers: *)
(* what the frames own (Frames) needs nothing else; the counters           *)
(* (Counting) need Frames; close_all() (CloserExclusive, DrainedMeansIdle) *)
(* needs both.                                                             *)
(***************************************************************************)
EXTENDS AsyncPool, SafeAdapter, FiniteSetTheorems, SequenceTheorems, TLAPS

(***************************************************************************)
(* What a call owns at each place where it can be suspended.  It is the    *)
(* bridge between the counters, which the code adjusts on the way from one *)
(* place to another, and the set of leases.                                *)
(***************************************************************************)
LeaseInv ==
  /\ dynamic \subseteq Leases
  /\ \A c \in Calls :
       /\ pc[c] \in Counted <=> conn[c] # NoConn
       /\ pc[c] \in {"dynConnect", "dynFailed", "dynVerify"} => c \in dynamic
       /\ pc[c] \in {"ping", "reconnect", "discard", "verify"} => c \notin dynamic

\* A destroyed pool has no coroutine left; only handles outlive it.
DeadInv ==
  ~pool_alive => /\ \A c \in Calls : pc[c] \in {"idle", "held"}
                 /\ \A k \in Closers : closer[k] = "idle"

Frames == Typed /\ LeaseInv /\ DeadInv

Counting ==
  /\ Accounting
  /\ in_use_count_ >= 0
  /\ dynamic_connection_count_ >= 0

IInv == /\ Frames
        /\ Counting
        /\ DynamicBound
        /\ CloserExclusive
        /\ DrainedMeansIdle

-----------------------------------------------------------------------------
(* The frames                                                              *)

LEMMA FramesInit == Init => Frames
  <1> SUFFICES ASSUME Init PROVE Frames
    OBVIOUS
  <1>1. Typed
    <2>1. /\ pool_alive \in BOOLEAN /\ initialized_ \in BOOLEAN
          /\ closing_ \in BOOLEAN /\ server_up \in BOOLEAN
      BY DEF Init
    <2>2. /\ pool_size_ \in Nat /\ in_use_count_ \in Int
          /\ dynamic_connection_count_ \in Int
          /\ leaked \in Nat /\ leaked_dynamic \in Nat
      BY DEF Init
    <2>3. available_connections_ \in Seq(Conn)
      BY DEF Init
    <2>4. /\ pc \in [Calls -> Uncounted \cup Counted]
          /\ conn \in [Calls -> Conn \cup {NoConn}]
      BY DEF Init, Uncounted
    <2>5. initer \in [Initers -> [conn : Conn \cup {NoConn}, count : Nat]]
      BY DEF Init, IdleInit
    <2>6. closer \in [Closers -> {"idle", "enter"} \cup Closing]
      BY DEF Init
    <2>7. dynamic \subseteq Calls /\ orphans \subseteq Conn /\ overlapped \in BOOLEAN
      BY DEF Init
    <2>8. QED
      BY <2>1, <2>2, <2>3, <2>4, <2>5, <2>6, <2>7 DEF Typed
  <1>2. LeaseInv
    BY DEF LeaseInv, Leases, Init, Counted
  <1>3. DeadInv
    BY DEF DeadInv, Init
  <1>4. QED
    BY <1>1, <1>2, <1>3 DEF Frames

LEMMA FramesInitCall ==
  ASSUME Frames, NEW i \in Initers, NEW size \in PoolSizes, InitCall(i, size)
  PROVE  Frames'
  <1> USE DEF Frames, InitCall, counts, callVars
  <1>1. Typed'
    <2>1. orphans' \subseteq Conn
      <3>1. \A c \in Leases \ dynamic : conn[c] \in Conn
        BY DEF Typed, LeaseInv, Leases
      <3>2. Available \subseteq Conn
        BY DEF Typed, Available
      <3>3. QED
        BY <3>1, <3>2 DEF Fixed
    <2>2. size \in Nat
      BY BoundsAssumption
    <2>3. initer' \in [Initers -> [conn : Conn \cup {NoConn}, count : Nat]]
      BY DEF Typed
    <2>4. initialized_' \in BOOLEAN /\ overlapped' \in BOOLEAN
      BY DEF Typed
    <2>5. QED
      BY <2>1, <2>2, <2>3, <2>4 DEF Typed
  <1>2. LeaseInv' /\ DeadInv'
    BY DEF LeaseInv, Leases, DeadInv
  <1>3. QED
    BY <1>1, <1>2

LEMMA FramesInitAnswer ==
  ASSUME Frames, NEW i \in Initers, InitAnswer(i)
  PROVE  Frames'
  <1> USE DEF Frames, flags, counts, callVars
  <1>1. CASE InitConnected(i)
    <2> USE <1>1 DEF InitConnected
    <2>1. available_connections_' \in Seq(Conn)
      <3>1. initer[i].conn \in Conn
        BY DEF Typed
      <3>2. QED
        BY <3>1, AppendProperties DEF Typed
    <2>2. initer' \in [Initers -> [conn : Conn \cup {NoConn}, count : Nat]]
      <3>1. CASE MoreToOpen(i)
        <4>1. PICK new \in Conn :
                initer' = [initer EXCEPT ![i] = [conn |-> new, count |-> @.count + 1]]
          BY <3>1
        <4>2. initer[i].count + 1 \in Nat
          BY DEF Typed
        <4>3. QED
          BY <4>1, <4>2 DEF Typed
      <3>2. CASE ~MoreToOpen(i)
        <4>1. initer' = [initer EXCEPT ![i] = IdleInit]
          BY <3>2
        <4>2. QED
          BY <4>1 DEF Typed, IdleInit
      <3>3. QED
        BY <3>1, <3>2
    <2>3. Typed'
      BY <2>1, <2>2 DEF Typed
    <2>4. LeaseInv' /\ DeadInv'
      BY DEF LeaseInv, Leases, DeadInv
    <2>5. QED
      BY <2>3, <2>4
  <1>2. CASE InitFailed(i)
    <2> USE <1>2 DEF InitFailed, history
    <2>1. initer' \in [Initers -> [conn : Conn \cup {NoConn}, count : Nat]]
      BY DEF Typed, IdleInit
    <2>2. Typed'
      BY <2>1 DEF Typed
    <2>3. LeaseInv' /\ DeadInv'
      BY DEF LeaseInv, Leases, DeadInv
    <2>4. QED
      BY <2>2, <2>3
  <1>3. QED
    BY <1>1, <1>2 DEF InitAnswer

\* The segments of a call that only move it, and leave it counted or not.
QuietStep(c) ==
  \/ GetCall(c) \/ GetRetry(c) \/ GetTimedOut(c) \/ GetRefused(c)
  \/ GetExhausted(c) \/ BackoffExpires(c) \/ Ping(c) \/ Reconnect(c)
  \/ DynamicConnect(c) \/ DynamicRefused(c) \/ GetCancelledWaiting(c)

\* Pairs of places such a segment goes between.
QuietMove(from, to) ==
  \/ from \in Uncounted /\ to \in Uncounted
  \/ from \in {"ping", "reconnect"} /\ to \in {"reconnect", "discard", "verify"}
  \/ from = "dynConnect" /\ to \in {"dynFailed", "dynVerify"}

LEMMA QuietStepMoves ==
  ASSUME NEW c \in Calls, QuietStep(c)
  PROVE  \E from, to : QuietMove(from, to) /\ Move(c, from, to)
  <1> USE DEF QuietMove, Uncounted
  <1>1. CASE GetExhausted(c) \/ DynamicRefused(c)
    BY <1>1 DEF GetExhausted, DynamicRefused, BackOff
  <1>2. CASE Ping(c) \/ Reconnect(c) \/ DynamicConnect(c)
    BY <1>2 DEF Ping, Reconnect, DynamicConnect
  <1>3. CASE GetCall(c) \/ GetRetry(c) \/ GetTimedOut(c) \/ GetRefused(c)
             \/ BackoffExpires(c) \/ GetCancelledWaiting(c)
    BY <1>3 DEF GetCall, GetRetry, GetTimedOut, GetRefused, BackoffExpires,
       GetCancelledWaiting
  <1>4. QED
    BY <1>1, <1>2, <1>3 DEF QuietStep

LEMMA QuietStepGoes ==
  ASSUME Frames, NEW c \in Calls, QuietStep(c)
  PROVE  /\ UNCHANGED <<poolVars, conn, dynamic, others, history>>
         /\ pool_alive
         /\ \E from, to : QuietMove(from, to) /\ Move(c, from, to)
  <1>1. PICK from, to : QuietMove(from, to) /\ Move(c, from, to)
    BY QuietStepMoves
  <1>2. pool_alive
    <2>1. CASE GetCall(c)
      BY <2>1 DEF GetCall
    <2>2. CASE ~GetCall(c)
      <3>1. pc[c] \notin {"idle", "held"}
        BY <2>2 DEF QuietStep, GetRetry, GetTimedOut, GetRefused, GetExhausted,
           BackoffExpires, Ping, Reconnect, DynamicConnect, DynamicRefused,
           GetCancelledWaiting, Move
      <3>2. QED
        BY <3>1 DEF Frames, DeadInv
    <2>3. QED
      BY <2>1, <2>2
  <1>3. QED
    BY <1>1, <1>2 DEF Move

LEMMA FramesQuiet ==
  ASSUME Frames, NEW c \in Calls, QuietStep(c)
  PROVE  Frames' /\ Leases' = Leases
  <1>1. PICK from, to : QuietMove(from, to) /\ Move(c, from, to)
    BY QuietStepGoes
  <1> USE <1>1 DEF QuietMove, Move, Goto, Uncounted, Counted
  <1>2. Typed'
    BY DEF Frames, Typed, poolVars, flags, counts, others, history
  <1>3. Leases' = Leases
    BY DEF Frames, Typed, Leases
  <1>4. LeaseInv'
    BY <1>3 DEF Frames, Typed, LeaseInv
  <1>5. DeadInv'
    BY QuietStepGoes DEF DeadInv, poolVars, flags
  <1>6. QED
    BY <1>2, <1>3, <1>4, <1>5 DEF Frames

\* The segments of a call that begin, hand over or end a lease.
LeaseStep(c) ==
  \/ GetPop(c) \/ HandOut(c) \/ GiveUp(c) \/ CreateDynamic(c) \/ DynamicGiveUp(c)
  \/ Release(c) \/ ReturnConnection(c) \/ GetCancelledCounted(c)

LEMMA FramesLease ==
  ASSUME Frames, NEW c \in Calls, LeaseStep(c)
  PROVE  Frames'
  <1> USE ConnAssumption
      DEF Frames, poolVars, flags, counts, others, history, Goto, Counted, Uncounted
  <1>1. CASE GetPop(c)
    <2> USE <1>1 DEF GetPop, PopFront
    <2>1. /\ Head(available_connections_) \in Conn
          /\ Tail(available_connections_) \in Seq(Conn)
      BY HeadTailProperties DEF Typed
    <2>2. Typed'
      BY <2>1 DEF Typed
    <2>3. LeaseInv'
      BY <2>1 DEF LeaseInv, Typed, Leases
    <2>4. DeadInv'
      BY DEF DeadInv, Typed
    <2>5. QED
      BY <2>2, <2>3, <2>4
  <1>2. CASE HandOut(c)
    <2> USE <1>2 DEF HandOut, Move
    <2>2. Typed'
      BY DEF Typed
    <2>3. LeaseInv'
      BY DEF LeaseInv, Typed, Leases
    <2>4. DeadInv'
      BY DEF DeadInv, Typed
    <2>5. QED
      BY <2>2, <2>3, <2>4
  <1>3. CASE GiveUp(c)
    <2> USE <1>3 DEF GiveUp, Drop, GuardedDec
    <2>2. Typed'
      BY DEF Typed
    <2>3. LeaseInv'
      BY DEF LeaseInv, Typed, Leases
    <2>4. DeadInv'
      BY DEF DeadInv, Typed
    <2>5. QED
      BY <2>2, <2>3, <2>4
  <1>4. CASE CreateDynamic(c)
    <2> USE <1>4 DEF CreateDynamic, MayExpand, EarlyCount
    <2>1. /\ pc' \in [Calls -> Uncounted \cup Counted]
          /\ conn' \in [Calls -> Conn \cup {NoConn}]
          /\ dynamic' \subseteq Calls
          /\ orphans' \subseteq Conn
      BY DEF Typed
    <2>2. Typed'
      BY <2>1 DEF Typed
    <2>3. LeaseInv'
      BY DEF LeaseInv, Typed, Leases
    <2>4. DeadInv'
      BY DEF DeadInv, Typed
    <2>5. QED
      BY <2>2, <2>3, <2>4
  <1>5. CASE DynamicGiveUp(c)
    <2> USE <1>5 DEF DynamicGiveUp, Drop, GuardedDec, BackOff
    <2>2. Typed'
      BY DEF Typed
    <2>3. LeaseInv'
      BY DEF LeaseInv, Typed, Leases
    <2>4. DeadInv'
      BY DEF DeadInv, Typed
    <2>5. QED
      BY <2>2, <2>3, <2>4
  <1>6. CASE Release(c)
    <2> USE <1>6 DEF Release, Drop, Move
    <2>2. Typed'
      BY DEF Typed
    <2>3. LeaseInv'
      BY DEF LeaseInv, Typed, Leases
    <2>4. DeadInv'
      BY DEF DeadInv, Typed
    <2>5. QED
      BY <2>2, <2>3, <2>4
  <1>7. CASE ReturnConnection(c)
    <2> USE <1>7 DEF ReturnConnection, Drop, GuardedDec, Requeue
    <2>1. available_connections_' \in Seq(Conn)
      <3>1. conn[c] \in Conn
        BY DEF Typed, LeaseInv
      <3>2. Append(available_connections_, conn[c]) \in Seq(Conn)
        BY <3>1, AppendProperties DEF Typed
      <3>3. QED
        BY <3>2 DEF Typed
    <2>2. Typed'
      BY <2>1 DEF Typed
    <2>3. LeaseInv'
      BY <2>1 DEF LeaseInv, Typed, Leases
    <2>4. DeadInv'
      BY DEF DeadInv, Typed
    <2>5. QED
      BY <2>2, <2>3, <2>4
  <1>8. CASE GetCancelledCounted(c)
    <2> USE <1>8 DEF GetCancelledCounted, Drop
    <2>2. Typed'
      BY DEF Typed
    <2>3. LeaseInv'
      BY DEF LeaseInv, Typed, Leases
    <2>4. DeadInv'
      BY DEF DeadInv, Typed
    <2>5. QED
      BY <2>2, <2>3, <2>4
  <1>9. QED
    BY <1>1, <1>2, <1>3, <1>4, <1>5, <1>6, <1>7, <1>8 DEF LeaseStep

\* The segments of close_all() that only move it.
QuietClose(k) ==
  \/ CloseCall(k) \/ CloseRefused(k) \/ CloseKeepsWaiting(k) \/ CloseGivesUp(k)
  \/ CloseLook(k) \/ ClosePauseEnds(k)

LEMMA QuietCloseMoves ==
  ASSUME NEW k \in Closers, QuietClose(k)
  PROVE  \E from, to :
           /\ CloserMove(k, from, to)
           /\ from \in {"idle", "enter"} \cup Closing
           /\ to \in {"idle", "enter"} \cup Closing
           /\ from \in Closing <=> to \in Closing
           /\ from = "idle" => pool_alive
           /\ to = "drained" => in_use_count_ = 0
  <1> USE DEF Closing
  <1>1. CASE CloseLook(k)
    BY <1>1 DEF CloseLook
  <1>2. CASE CloseCall(k) \/ CloseRefused(k) \/ CloseKeepsWaiting(k)
             \/ CloseGivesUp(k) \/ ClosePauseEnds(k)
    BY <1>2 DEF CloseCall, CloseRefused, CloseKeepsWaiting, CloseGivesUp,
       ClosePauseEnds
  <1>3. QED
    BY <1>1, <1>2 DEF QuietClose

CloserStep(k) ==
  \/ QuietClose(k)
  \/ \E wait \in BOOLEAN : CloseBegin(k, wait)
  \/ CloseFinish(k)

LEMMA FramesClose ==
  ASSUME Frames, NEW k \in Closers, CloserStep(k)
  PROVE  /\ Frames' /\ Leases' = Leases
         /\ pool_alive
         /\ UNCHANGED <<pool_alive, counts, callVars, initer, server_up, history>>
  <1> USE DEF Frames, poolVars, flags, Closing
  <1>1. /\ UNCHANGED <<pool_alive, counts, callVars, initer, server_up, history>>
        /\ pool_alive
    <2>1. CASE QuietClose(k)
      BY <2>1, QuietCloseMoves DEF CloserMove, DeadInv
    <2>2. CASE ~QuietClose(k)
      BY <2>2 DEF CloserStep, CloseBegin, CloseFinish, DeadInv
    <2>3. QED
      BY <2>1, <2>2
  <1>2. closer' \in [Closers -> {"idle", "enter"} \cup Closing]
    <2>1. CASE QuietClose(k)
      BY <2>1, QuietCloseMoves DEF CloserMove, Typed
    <2>2. CASE ~QuietClose(k)
      BY <2>2 DEF CloserStep, CloseBegin, CloseFinish, Typed
    <2>3. QED
      BY <2>1, <2>2
  <1>3. /\ initialized_' \in BOOLEAN /\ closing_' \in BOOLEAN
        /\ pool_size_' = pool_size_ /\ available_connections_' \in Seq(Conn)
    <2>1. CASE QuietClose(k)
      BY <2>1, QuietCloseMoves DEF CloserMove, Typed
    <2>2. CASE \E wait \in BOOLEAN : CloseBegin(k, wait)
      BY <2>2 DEF CloseBegin, Typed
    <2>3. CASE CloseFinish(k)
      <3>1. available_connections_' \in Seq(Conn)
        BY <2>3 DEF CloseFinish
      <3>2. QED
        BY <3>1, <2>3 DEF CloseFinish
    <2>4. QED
      BY <2>1, <2>2, <2>3 DEF CloserStep
  <1>4. Typed'
    BY <1>1, <1>2, <1>3 DEF Typed, callVars, counts, history
  <1>5. LeaseInv' /\ DeadInv' /\ Leases' = Leases
    BY <1>1 DEF LeaseInv, DeadInv, Leases, callVars
  <1>6. QED
    BY <1>1, <1>4, <1>5

LEMMA FramesDestroy ==
  ASSUME Frames, DestroyPool
  PROVE  Frames'
  <1> USE DEF Frames, DestroyPool, counts, callVars, others, history
  <1>1. Typed'
    <2>1. available_connections_' \in Seq(Conn)
      OBVIOUS
    <2>2. QED
      BY <2>1 DEF Typed
  <1>2. LeaseInv' /\ DeadInv'
    BY DEF LeaseInv, DeadInv, Leases
  <1>3. QED
    BY <1>1, <1>2

LEMMA FramesOther ==
  ASSUME Frames, ServerFlips \/ UNCHANGED vars
  PROVE  Frames'
  <1> USE DEF Frames, ServerFlips, vars, poolVars, flags, counts, callVars, others, history
  <1>1. Typed'
    BY DEF Typed
  <1>2. LeaseInv' /\ DeadInv'
    BY DEF LeaseInv, DeadInv, Leases
  <1>3. QED
    BY <1>1, <1>2

\* The disjuncts of Next in the groups the proofs treat alike.
LEMMA NextCases ==
  ASSUME [Next]_vars
  PROVE  \/ \E c \in Calls : QuietStep(c) \/ LeaseStep(c)
         \/ \E i \in Initers, size \in PoolSizes : InitCall(i, size)
         \/ \E i \in Initers : InitAnswer(i)
         \/ \E k \in Closers : CloserStep(k)
         \/ DestroyPool
         \/ ServerFlips \/ UNCHANGED vars
  BY DEF Next, QuietStep, LeaseStep, CloserStep, QuietClose, GetStep, GetAnswer,
         GetCancelled, CloseStep

LEMMA FramesNext == Frames /\ [Next]_vars => Frames'
  BY NextCases, FramesQuiet, FramesLease, FramesInitCall, FramesInitAnswer,
     FramesClose, FramesDestroy, FramesOther

-----------------------------------------------------------------------------
(* The counters                                                            *)

LEMMA SetsFinite ==
  ASSUME Frames
  PROVE  /\ IsFiniteSet(Leases) /\ Cardinality(Leases) \in Nat
         /\ IsFiniteSet(dynamic) /\ Cardinality(dynamic) \in Nat
  <1>1. Leases \subseteq Calls /\ dynamic \subseteq Calls
    BY DEF Frames, Typed, Leases
  <1>2. IsFiniteSet(Leases) /\ IsFiniteSet(dynamic)
    BY <1>1, CallsAssumption, FS_Subset
  <1>3. QED
    BY <1>2, FS_CardinalityType

\* A call that moves from an uncounted place to a counted one is a new lease.
LEMMA LeaseBegins ==
  ASSUME Frames, NEW c \in Calls, pc[c] \notin Counted,
         NEW place \in Counted, Goto(c, place)
  PROVE  Cardinality(Leases') = Cardinality(Leases) + 1
  <1>1. Leases' = Leases \cup {c} /\ c \notin Leases
    BY DEF Frames, Typed, Leases, Goto
  <1>2. QED
    BY <1>1, SetsFinite, FS_AddElement

\* A counted call that moves to an uncounted place is a lease no more.
LEMMA LeaseEnds ==
  ASSUME Frames, NEW c \in Calls, pc[c] \in Counted,
         NEW place, place \notin Counted, Goto(c, place)
  PROVE  Cardinality(Leases') = Cardinality(Leases) - 1 /\ Cardinality(Leases) > 0
  <1>1. Leases' = Leases \ {c} /\ c \in Leases
    BY DEF Frames, Typed, Leases, Goto
  <1>2. Cardinality(Leases') = Cardinality(Leases) - 1
    BY <1>1, SetsFinite, FS_RemoveElement
  <1>3. Cardinality(Leases) # 0
    BY <1>1, SetsFinite, FS_EmptySet
  <1>4. QED
    BY <1>2, <1>3, SetsFinite

LEMMA LeaseStays ==
  ASSUME Frames, NEW c \in Calls, pc[c] \in Counted,
         NEW place \in Counted, Goto(c, place)
  PROVE  Leases' = Leases
  BY DEF Frames, Typed, Leases, Goto

\* Dropping a connection uncounts it among the dynamic ones if it was one.
LEMMA DropUncounts ==
  ASSUME Frames, NEW c \in Calls, Drop(c)
  PROVE  /\ c \in dynamic => /\ Cardinality(dynamic') = Cardinality(dynamic) - 1
                             /\ Cardinality(dynamic) > 0
         /\ c \notin dynamic => dynamic' = dynamic
  <1>1. dynamic' = dynamic \ {c}
    BY DEF Drop
  <1>2. ASSUME c \in dynamic
        PROVE  /\ Cardinality(dynamic') = Cardinality(dynamic) - 1
               /\ Cardinality(dynamic) # 0
    BY <1>1, <1>2, SetsFinite, FS_RemoveElement, FS_EmptySet
  <1>3. QED
    BY <1>1, <1>2, SetsFinite

LEMMA CountingInit == Init => Counting
  <1> SUFFICES ASSUME Init PROVE Counting
    OBVIOUS
  <1>1. Leases = {} /\ dynamic = {}
    BY DEF Init, Leases, Counted
  <1>2. QED
    BY <1>1, FS_EmptySet DEF Init, Counting, Accounting

LEMMA CountingLease ==
  ASSUME Frames, Counting, NEW c \in Calls, LeaseStep(c)
  PROVE  Counting'
  <1> USE SetsFinite DEF Counting, Accounting, Counted, poolVars, flags, counts, history
  <1>0. /\ in_use_count_ \in Int /\ dynamic_connection_count_ \in Int
        /\ leaked \in Nat /\ leaked_dynamic \in Nat
        /\ LeaseInv /\ Typed /\ DeadInv
    BY DEF Frames, Typed
  <1>1. CASE GetPop(c)
    <2>1. Cardinality(Leases') = Cardinality(Leases) + 1
      BY <1>1, LeaseBegins DEF GetPop
    <2>2. QED
      BY <1>0, <1>1, <2>1 DEF GetPop
  <1>2. CASE HandOut(c)
    BY <1>2, LeaseStays DEF HandOut, Move
  <1>3. CASE GiveUp(c)
    <2>1. Cardinality(Leases') = Cardinality(Leases) - 1 /\ Cardinality(Leases) > 0
      BY <1>3, LeaseEnds DEF GiveUp
    <2>2. dynamic' = dynamic
      BY <1>0, <1>3, DropUncounts DEF GiveUp, LeaseInv
    <2>3. pool_alive
      BY <1>0, <1>3 DEF GiveUp, DeadInv
    <2>4. QED
      BY <1>0, <1>3, <2>1, <2>2, <2>3 DEF GiveUp, GuardedDec
  <1>4. CASE CreateDynamic(c)
    <2>1. Cardinality(Leases') = Cardinality(Leases) + 1
      BY <1>4, LeaseBegins DEF CreateDynamic
    <2>2. c \notin dynamic
      BY <1>0, <1>4 DEF CreateDynamic, LeaseInv, Leases
    <2>3. Cardinality(dynamic') = Cardinality(dynamic) + 1
      BY <1>4, <2>2, FS_AddElement DEF CreateDynamic
    <2>4. QED
      BY <1>0, <1>4, <2>1, <2>3 DEF CreateDynamic, EarlyCount
  <1>5. CASE DynamicGiveUp(c)
    <2>1. Cardinality(Leases') = Cardinality(Leases) - 1 /\ Cardinality(Leases) > 0
      BY <1>5, LeaseEnds DEF DynamicGiveUp, BackOff
    <2>2. Cardinality(dynamic') = Cardinality(dynamic) - 1 /\ Cardinality(dynamic) > 0
      BY <1>0, <1>5, DropUncounts DEF DynamicGiveUp, LeaseInv
    <2>3. pool_alive
      BY <1>0, <1>5 DEF DynamicGiveUp, DeadInv
    <2>4. QED
      BY <1>0, <1>5, <2>1, <2>2, <2>3 DEF DynamicGiveUp, GuardedDec
  <1>6. CASE Release(c)
    <2>1. CASE pool_alive
      BY <1>6, <2>1, LeaseStays DEF Release, Move
    <2>2. CASE ~pool_alive
      BY <1>0, <1>6, <2>2 DEF Release
    <2>3. QED
      BY <2>1, <2>2
  <1>7. CASE ReturnConnection(c)
    <2>1. Cardinality(Leases') = Cardinality(Leases) - 1 /\ Cardinality(Leases) > 0
      BY <1>7, LeaseEnds DEF ReturnConnection
    <2>2. pool_alive
      BY <1>0, <1>7 DEF ReturnConnection, DeadInv
    <2>3. CASE c \in dynamic
      <3>1. Cardinality(dynamic') = Cardinality(dynamic) - 1 /\ Cardinality(dynamic) > 0
        BY <1>7, <2>3, DropUncounts DEF ReturnConnection
      <3>2. QED
        BY <1>0, <1>7, <2>1, <2>2, <2>3, <3>1 DEF ReturnConnection, GuardedDec
    <2>4. CASE c \notin dynamic
      <3>1. dynamic' = dynamic
        BY <1>7, <2>4, DropUncounts DEF ReturnConnection
      <3>2. QED
        BY <1>0, <1>7, <2>1, <2>2, <2>4, <3>1 DEF ReturnConnection, GuardedDec
    <2>5. QED
      BY <2>3, <2>4
  <1>8. CASE GetCancelledCounted(c)
    <2>1. Cardinality(Leases') = Cardinality(Leases) - 1 /\ Cardinality(Leases) > 0
      BY <1>8, LeaseEnds DEF GetCancelledCounted
    <2>2. CASE c \in dynamic
      <3>1. Cardinality(dynamic') = Cardinality(dynamic) - 1 /\ Cardinality(dynamic) > 0
        BY <1>8, <2>2, DropUncounts DEF GetCancelledCounted
      <3>2. QED
        BY <1>0, <1>8, <2>1, <2>2, <3>1 DEF GetCancelledCounted
    <2>3. CASE c \notin dynamic
      <3>1. dynamic' = dynamic
        BY <1>8, <2>3, DropUncounts DEF GetCancelledCounted
      <3>2. QED
        BY <1>0, <1>8, <2>1, <2>3, <3>1 DEF GetCancelledCounted
    <2>4. QED
      BY <2>2, <2>3
  <1>9. QED
    BY <1>1, <1>2, <1>3, <1>4, <1>5, <1>6, <1>7, <1>8 DEF LeaseStep

LEMMA CountingNext == Frames /\ Counting /\ [Next]_vars => Counting'
  <1> SUFFICES ASSUME Frames, Counting, [Next]_vars PROVE Counting'
    OBVIOUS
  <1> USE DEF Counting, Accounting, counts
  <1>1. ASSUME NEW c \in Calls, QuietStep(c) PROVE Counting'
    BY <1>1, QuietStepGoes, FramesQuiet DEF poolVars, flags, history
  <1>2. ASSUME NEW c \in Calls, LeaseStep(c) PROVE Counting'
    BY <1>2, CountingLease
  <1>3. ASSUME NEW i \in Initers, NEW size \in PoolSizes, InitCall(i, size)
        PROVE  Counting'
    BY <1>3 DEF InitCall, callVars, Leases
  <1>4. ASSUME NEW i \in Initers, InitAnswer(i) PROVE Counting'
    <2>1. UNCHANGED <<callVars, pool_alive, counts, leaked, leaked_dynamic>>
      BY <1>4 DEF InitAnswer, InitConnected, InitFailed, flags, history
    <2>2. QED
      BY <2>1 DEF callVars, Leases
  <1>5. ASSUME NEW k \in Closers, CloserStep(k) PROVE Counting'
    BY <1>5, FramesClose DEF callVars, history
  <1>6. CASE DestroyPool
    BY <1>6 DEF DestroyPool
  <1>7. CASE ServerFlips \/ UNCHANGED vars
    BY <1>7 DEF ServerFlips, vars, poolVars, flags, callVars, history, Leases
  <1>8. QED
    BY NextCases, <1>1, <1>2, <1>3, <1>4, <1>5, <1>6, <1>7

-----------------------------------------------------------------------------
(* The limit of dynamic connections                                        *)

LEMMA DynamicBoundNext == Frames /\ DynamicBound /\ [Next]_vars => DynamicBound'
  <1> SUFFICES ASSUME Frames, DynamicBound, [Next]_vars PROVE DynamicBound'
    OBVIOUS
  <1> USE BoundsAssumption DEF DynamicBound, poolVars, counts
  <1>0. dynamic_connection_count_ \in Int
    BY DEF Frames, Typed
  <1>1. ASSUME NEW c \in Calls, QuietStep(c) PROVE DynamicBound'
    BY <1>1, QuietStepGoes
  <1>2. ASSUME NEW c \in Calls, LeaseStep(c) PROVE DynamicBound'
    BY <1>0, <1>2 DEF LeaseStep, GetPop, HandOut, Move, GiveUp, CreateDynamic,
       MayExpand, EarlyCount, DynamicGiveUp, Release, ReturnConnection,
       GetCancelledCounted, GuardedDec
  <1>3. ASSUME NEW i \in Initers, NEW size \in PoolSizes, InitCall(i, size)
        PROVE  DynamicBound'
    BY <1>3 DEF InitCall
  <1>4. ASSUME NEW i \in Initers, InitAnswer(i) PROVE DynamicBound'
    BY <1>4 DEF InitAnswer, InitConnected, InitFailed
  <1>5. ASSUME NEW k \in Closers, CloserStep(k) PROVE DynamicBound'
    BY <1>5, FramesClose
  <1>6. CASE DestroyPool \/ ServerFlips \/ UNCHANGED vars
    BY <1>6 DEF DestroyPool, ServerFlips, vars
  <1>7. QED
    BY NextCases, <1>1, <1>2, <1>3, <1>4, <1>5, <1>6

-----------------------------------------------------------------------------
(* close_all()                                                             *)

\* Steps of the other coroutines do not touch closing_ nor the closers, and
\* leave a pool that is being closed initialised.
LEMMA CloserUndisturbed ==
  ASSUME Frames, [Next]_vars
  PROVE  \/ \E k \in Closers : CloserStep(k)
         \/ /\ UNCHANGED <<closing_, closer>>
            /\ initialized_ => initialized_'
  <1> USE DEF poolVars, flags, others
  <1>1. ASSUME NEW c \in Calls, QuietStep(c)
        PROVE  UNCHANGED <<closing_, initialized_, closer>>
    BY <1>1, QuietStepGoes
  <1>2. ASSUME NEW c \in Calls, LeaseStep(c)
        PROVE  UNCHANGED <<closing_, initialized_, closer>>
    BY <1>2 DEF LeaseStep, GetPop, HandOut, Move, GiveUp, CreateDynamic,
       DynamicGiveUp, Release, ReturnConnection, GetCancelledCounted
  <1>3. ASSUME NEW i \in Initers, NEW size \in PoolSizes, InitCall(i, size)
        PROVE  UNCHANGED <<closing_, closer>> /\ (initialized_ => initialized_')
    BY <1>3 DEF InitCall
  <1>4. ASSUME NEW i \in Initers, InitAnswer(i)
        PROVE  UNCHANGED <<closing_, closer>> /\ (initialized_ => initialized_')
    BY <1>4 DEF InitAnswer, InitConnected, InitFailed
  <1>5. CASE DestroyPool \/ ServerFlips \/ UNCHANGED vars
    BY <1>5 DEF DestroyPool, ServerFlips, vars
  <1>6. QED
    BY NextCases, <1>1, <1>2, <1>3, <1>4, <1>5

LEMMA CloserExclusiveNext ==
  Frames /\ CloserExclusive /\ [Next]_vars => CloserExclusive'
  <1> SUFFICES ASSUME Frames, CloserExclusive, [Next]_vars
               PROVE  CloserExclusive'
    OBVIOUS
  <1>1. closer \in [Closers -> {"idle", "enter"} \cup Closing]
    BY DEF Frames, Typed
  <1>2. ASSUME NEW k \in Closers, CloserStep(k) PROVE CloserExclusive'
    <2> USE <1>1 DEF CloserExclusive, poolVars, flags, Open
    <2>1. CASE QuietClose(k)
      BY <2>1, QuietCloseMoves DEF CloserMove
    <2>2. ASSUME NEW wait \in BOOLEAN, CloseBegin(k, wait) PROVE CloserExclusive'
      BY <2>2 DEF CloseBegin, Closing
    <2>3. CASE CloseFinish(k)
      BY <2>3 DEF CloseFinish, Closing
    <2>4. QED
      BY <1>2, <2>1, <2>2, <2>3 DEF CloserStep
  <1>3. CASE UNCHANGED <<closing_, closer>> /\ (initialized_ => initialized_')
    BY <1>3 DEF CloserExclusive
  <1>4. QED
    BY <1>2, <1>3, CloserUndisturbed

\* While a close_all() is under way the pool is not open, so no lease begins.
LEMMA NoNewLease ==
  ASSUME Frames, closing_, [Next]_vars
  PROVE  Leases' \subseteq Leases
  <1>1. ASSUME NEW c \in Calls, QuietStep(c) PROVE Leases' \subseteq Leases
    BY <1>1, FramesQuiet
  <1>2. ASSUME NEW c \in Calls, LeaseStep(c) PROVE Leases' \subseteq Leases
    BY <1>2 DEF LeaseStep, GetPop, HandOut, Move, GiveUp, CreateDynamic,
       MayExpand, DynamicGiveUp, Release, ReturnConnection, GetCancelledCounted,
       Open, BackOff, Goto, Leases, Frames, Typed, Counted
  <1>3. ASSUME NEW k \in Closers, CloserStep(k) PROVE Leases' \subseteq Leases
    BY <1>3, FramesClose
  <1>4. ASSUME NEW i \in Initers, NEW size \in PoolSizes, InitCall(i, size)
        PROVE  UNCHANGED callVars
    BY <1>4 DEF InitCall
  <1>5. ASSUME NEW i \in Initers, InitAnswer(i) PROVE UNCHANGED callVars
    BY <1>5 DEF InitAnswer, InitConnected, InitFailed
  <1>6. CASE DestroyPool \/ ServerFlips \/ UNCHANGED vars
    BY <1>6 DEF DestroyPool, ServerFlips, vars, callVars, Leases
  <1>7. QED
    BY NextCases, <1>1, <1>2, <1>3, <1>4, <1>5, <1>6 DEF callVars, Leases

LEMMA DrainedMeansIdleNext ==
  IInv /\ [Next]_vars => DrainedMeansIdle'
  <1> SUFFICES ASSUME IInv, [Next]_vars, NEW k \in Closers, closer'[k] = "drained"
               PROVE  Leases' = {}
    BY DEF DrainedMeansIdle
  <1>1. CASE closer[k] = "drained"
    <2>1. Leases = {} /\ closing_
      BY <1>1 DEF IInv, DrainedMeansIdle, CloserExclusive, Closing
    <2>2. QED
      BY <2>1, NoNewLease DEF IInv
  <1>2. CASE closer[k] # "drained"
    <2>1. PICK l \in Closers : CloserStep(l)
      BY <1>2, CloserUndisturbed DEF IInv
    <2>2. in_use_count_ = 0
      <3> USE DEF IInv, Frames, Typed
      <3>1. CASE QuietClose(l)
        BY <1>2, <3>1, QuietCloseMoves DEF CloserMove
      <3>2. CASE ~QuietClose(l)
        BY <1>2, <2>1, <3>2 DEF CloserStep, CloseBegin, CloseFinish
      <3>3. QED
        BY <3>1, <3>2
    <2>3. pool_alive
      BY <2>1, FramesClose DEF IInv
    <2>4. Cardinality(Leases) = 0
      BY <2>2, <2>3, SetsFinite DEF IInv, Counting, Accounting, Frames, Typed
    <2>5. Leases = {}
      BY <2>4, SetsFinite, FS_EmptySet DEF IInv
    <2>6. QED
      BY <2>1, <2>5, FramesClose DEF IInv
  <1>3. QED
    BY <1>1, <1>2

-----------------------------------------------------------------------------
(* The theorems                                                            *)

LEMMA IInvInit == Init => IInv
  <1> SUFFICES ASSUME Init PROVE IInv
    OBVIOUS
  <1>1. DynamicBound /\ CloserExclusive /\ DrainedMeansIdle
    BY BoundsAssumption
    DEF Init, DynamicBound, CloserExclusive, DrainedMeansIdle, Closing
  <1>2. QED
    BY <1>1, FramesInit, CountingInit DEF IInv

LEMMA IInvNext == IInv /\ [Next]_vars => IInv'
  BY FramesNext, CountingNext, DynamicBoundNext, CloserExclusiveNext,
     DrainedMeansIdleNext DEF IInv

\* The inductive invariant, of which the theorems below are consequences.
THEOREM Inductive == Spec => []IInv
  BY IInvInit, IInvNext, PTL DEF Spec

\* No counter of the pool ever wraps below zero and every variable keeps its
\* type, whatever the interleaving of get(), init(), close_all(), handles and
\* cancellations.
THEOREM TypeCorrect == Spec => []TypeOK
  <1>1. IInv => TypeOK
    BY DEF IInv, Frames, Counting, TypeOK
  <1>2. QED
    BY <1>1, Inductive, PTL

\* in_use_count_ and dynamic_connection_count_ count exactly the connections
\* that are out, and the calls cancelled while they were counted.
THEOREM AccountingHolds == Spec => []Accounting
  <1>1. IInv => Accounting
    BY DEF IInv, Counting
  <1>2. QED
    BY <1>1, Inductive, PTL

\* There are never more temporary connections than max_dynamic_connections.
THEOREM DynamicBounded == Spec => []DynamicBound
  <1>1. IInv => DynamicBound
    BY DEF IInv
  <1>2. QED
    BY <1>1, Inductive, PTL

\* One close_all() at a time is past its first check, on an initialised pool.
THEOREM CloserIsExclusive == Spec => []CloserExclusive
  <1>1. IInv => CloserExclusive
    BY DEF IInv
  <1>2. QED
    BY <1>1, Inductive, PTL

\* A close_all(true) that saw no connection in use disconnects a pool of which
\* no one holds, or can still obtain, a connection.
THEOREM DrainedIsIdle == Spec => []DrainedMeansIdle
  <1>1. IInv => DrainedMeansIdle
    BY DEF IInv
  <1>2. QED
    BY <1>1, Inductive, PTL

\* A handle is given out only by a pool that is open at that moment.
THEOREM NoHandoutAfterClose == Spec => NoHandoutWhileClosed
  <1> DEFINE A == \A c \in Calls : pc[c] # "held" /\ pc'[c] = "held" => Open'
  <1>1. IInv /\ [Next]_vars => [A]_vars
    <2> SUFFICES ASSUME IInv, [Next]_vars, NEW d \in Calls,
                        pc[d] # "held", pc'[d] = "held"
                 PROVE  Open'
      OBVIOUS
    <2> USE DEF IInv
    <2>0. Typed
      BY DEF Frames
    <2>1. ASSUME NEW c \in Calls, QuietStep(c) PROVE FALSE
      BY <2>0, <2>1, QuietStepGoes DEF QuietMove, Move, Goto, Typed, Uncounted
    <2>2. ASSUME NEW c \in Calls, LeaseStep(c) PROVE Open'
      BY <2>0, <2>2 DEF LeaseStep, GetPop, HandOut, Move, GiveUp, CreateDynamic,
         DynamicGiveUp, Release, ReturnConnection, GetCancelledCounted, BackOff,
         Goto, Typed, Open, poolVars, flags
    <2>3. ASSUME NEW k \in Closers, CloserStep(k) PROVE FALSE
      BY <2>3, FramesClose DEF callVars
    <2>4. ASSUME NEW i \in Initers, NEW size \in PoolSizes, InitCall(i, size)
          PROVE  FALSE
      BY <2>4 DEF InitCall, callVars
    <2>5. ASSUME NEW i \in Initers, InitAnswer(i) PROVE FALSE
      BY <2>5 DEF InitAnswer, InitConnected, InitFailed, callVars
    <2>6. CASE DestroyPool \/ ServerFlips \/ UNCHANGED vars
      BY <2>6 DEF DestroyPool, ServerFlips, vars, callVars
    <2>7. QED
      BY NextCases, <2>1, <2>2, <2>3, <2>4, <2>5, <2>6
  <1>2. QED
    BY <1>1, Inductive, PTL DEF Spec, NoHandoutWhileClosed

-----------------------------------------------------------------------------
(***************************************************************************)
(* Who owns which connection.  unique_ptr gives each object one owner as   *)
(* long as every path moves it exactly once; the theorem says that get(),  *)
(* the deleter, return_connection(), init() and close_all(), in any order, *)
(* do.                                                                     *)
(***************************************************************************)

\* The elements of a sequence, and that it has none of them twice.
Elements(s) == {s[k] : k \in 1..Len(s)}

NoRepeat(s) == \A j, k \in 1..Len(s) : s[j] = s[k] => j = k

LEMMA FrontPopped ==
  ASSUME NEW s \in Seq(Conn), s # <<>>, NoRepeat(s)
  PROVE  /\ NoRepeat(Tail(s))
         /\ Elements(Tail(s)) = Elements(s) \ {Head(s)}
         /\ Head(s) \in Elements(s)
  <1>1. /\ Len(Tail(s)) = Len(s) - 1
        /\ Len(s) \in Nat \ {0}
        /\ \A k \in 1..Len(s) - 1 : Tail(s)[k] = s[k + 1]
        /\ Head(s) = s[1]
    BY HeadTailProperties, EmptySeq
  <1>2. NoRepeat(Tail(s))
    BY <1>1 DEF NoRepeat
  <1>3. Head(s) \in Elements(s)
    BY <1>1 DEF Elements
  <1>4. ASSUME NEW x \in Elements(Tail(s)) PROVE x \in Elements(s) \ {Head(s)}
    BY <1>1, <1>4 DEF Elements, NoRepeat
  <1>5. ASSUME NEW x \in Elements(s), x # Head(s) PROVE x \in Elements(Tail(s))
    <2>1. PICK k \in 1..Len(s) : s[k] = x
      BY DEF Elements
    <2>2. k - 1 \in 1..Len(s) - 1 /\ Tail(s)[k - 1] = x
      BY <1>1, <1>5, <2>1
    <2>3. QED
      BY <1>1, <2>2 DEF Elements
  <1>6. QED
    BY <1>2, <1>3, <1>4, <1>5

LEMMA BackPushed ==
  ASSUME NEW s \in Seq(Conn), NEW x \in Conn, NoRepeat(s), x \notin Elements(s)
  PROVE  /\ NoRepeat(Append(s, x))
         /\ Elements(Append(s, x)) = Elements(s) \cup {x}
  <1>1. /\ Len(Append(s, x)) = Len(s) + 1
        /\ Len(s) \in Nat
        /\ \A k \in 1..Len(s) : Append(s, x)[k] = s[k]
        /\ Append(s, x)[Len(s) + 1] = x
    BY AppendProperties
  <1>2. \A k \in 1..Len(s) : s[k] # x
    BY DEF Elements
  <1>3. NoRepeat(Append(s, x))
    BY <1>1, <1>2 DEF NoRepeat
  <1>4. Elements(Append(s, x)) = Elements(s) \cup {x}
    BY <1>1 DEF Elements
  <1>5. QED
    BY <1>3, <1>4

\* The part of a step that matters here: what it does to the owners.
owners == <<available_connections_, conn, initer>>

LEMMA AvailableConn ==
  ASSUME Frames
  PROVE  /\ Available = Elements(available_connections_)
         /\ Available \subseteq Conn
         /\ NoConn \notin Available
         /\ NoRepeat(available_connections_) <=>
              \A j, k \in 1..Len(available_connections_) :
                available_connections_[j] = available_connections_[k] => j = k
  BY ConnAssumption DEF Frames, Typed, Available, Elements, NoRepeat

\* A step that gives no one a connection it did not own keeps every
\* connection's owner unique.
LEMMA NothingGained ==
  ASSUME Frames, ExclusiveOwnership,
         UNCHANGED available_connections_ \/ available_connections_' = <<>>,
         \A c \in Calls : conn'[c] \in {conn[c], NoConn},
         \A i \in Initers : initer'[i].conn \in {initer[i].conn, NoConn}
  PROVE  ExclusiveOwnership'
  <1>1. Available' \subseteq Available
    BY DEF Available
  <1>2. \A j, k \in 1..Len(available_connections_') :
          available_connections_'[j] = available_connections_'[k] => j = k
    BY DEF ExclusiveOwnership
  <1>3. NoConn \notin Available
    BY AvailableConn
  <1>4. QED
    BY <1>1, <1>2, <1>3 DEF ExclusiveOwnership

LEMMA OwnershipPop ==
  ASSUME Frames, ExclusiveOwnership, NEW c \in Calls, GetPop(c)
  PROVE  ExclusiveOwnership'
  <1> DEFINE s == available_connections_
             x == Head(s)
  <1>1. /\ s \in Seq(Conn) /\ s # <<>> /\ NoRepeat(s)
        /\ conn \in [Calls -> Conn \cup {NoConn}]
    BY AvailableConn DEF Frames, Typed, GetPop, ExclusiveOwnership
  <1>2. /\ NoRepeat(Tail(s)) /\ x \in Available
        /\ Elements(Tail(s)) = Available \ {x}
    BY <1>1, FrontPopped, AvailableConn
  <1>3. /\ available_connections_' = Tail(s)
        /\ conn' = [conn EXCEPT ![c] = x]
        /\ initer' = initer
    BY DEF GetPop, PopFront, others
  <1>4. Available' = Available \ {x}
    BY <1>2, <1>3 DEF Available, Elements
  <1>5. \A d \in Calls : conn'[d] = IF d = c THEN x ELSE conn[d]
    BY <1>1, <1>3
  <1>6. \A d \in Calls : conn[d] # x
    BY <1>2 DEF ExclusiveOwnership
  <1>7. \A i \in Initers : initer[i].conn # x
    BY <1>2 DEF ExclusiveOwnership
  <1>8. \A j, k \in 1..Len(available_connections_') :
          available_connections_'[j] = available_connections_'[k] => j = k
    BY <1>2, <1>3 DEF NoRepeat
  <1> HIDE DEF s, x
  <1>9. QED
    BY <1>3, <1>4, <1>5, <1>6, <1>7, <1>8 DEF ExclusiveOwnership

LEMMA OwnershipReturn ==
  ASSUME Frames, ExclusiveOwnership, NEW c \in Calls, ReturnConnection(c)
  PROVE  ExclusiveOwnership'
  <1> DEFINE s == available_connections_
             x == conn[c]
  <1>1. /\ s \in Seq(Conn) /\ NoRepeat(s) /\ x \in Conn /\ x \notin Available
        /\ conn \in [Calls -> Conn \cup {NoConn}]
    BY AvailableConn
    DEF Frames, Typed, LeaseInv, Counted, ReturnConnection, ExclusiveOwnership
  <1>2. conn' = [conn EXCEPT ![c] = NoConn] /\ initer' = initer
    BY DEF ReturnConnection, Drop, others
  <1>3. CASE UNCHANGED available_connections_
    BY <1>1, <1>2, <1>3, NothingGained
  <1>4. CASE available_connections_' = Append(s, x)
    <2>1. NoRepeat(Append(s, x)) /\ Elements(Append(s, x)) = Available \cup {x}
      BY <1>1, BackPushed, AvailableConn
    <2>2. Available' = Available \cup {x}
      BY <1>4, <2>1 DEF Available, Elements
    <2>3. \A d \in Calls : conn'[d] = IF d = c THEN NoConn ELSE conn[d]
      BY <1>1, <1>2
    <2>4. \A d \in Calls : d # c => conn[d] # x
      BY <1>1, ConnAssumption DEF ExclusiveOwnership
    <2>5. \A i \in Initers : initer[i].conn # x
      BY <1>1, ConnAssumption DEF ExclusiveOwnership
    <2>6. \A j, k \in 1..Len(available_connections_') :
            available_connections_'[j] = available_connections_'[k] => j = k
      BY <1>4, <2>1 DEF NoRepeat
    <2>7. NoConn \notin Available /\ x # NoConn
      BY <1>1, AvailableConn, ConnAssumption
    <2> HIDE DEF s, x
    <2>8. QED
      BY <1>2, <2>2, <2>3, <2>4, <2>5, <2>6, <2>7 DEF ExclusiveOwnership
  <1>5. QED
    BY <1>3, <1>4 DEF ReturnConnection, Requeue

LEMMA OwnershipCreate ==
  ASSUME Frames, ExclusiveOwnership, NEW c \in Calls, CreateDynamic(c)
  PROVE  ExclusiveOwnership'
  <1>1. PICK new \in Conn \ Live : conn' = [conn EXCEPT ![c] = new]
    BY DEF CreateDynamic
  <1>2. UNCHANGED <<available_connections_, initer>>
    BY DEF CreateDynamic, others
  <1>3. \A d \in Calls : conn'[d] = IF d = c THEN new ELSE conn[d]
    BY <1>1 DEF Frames, Typed
  <1>4. /\ new \notin Available
        /\ \A d \in Calls : conn[d] # new
        /\ \A i \in Initers : initer[i].conn # new
    BY DEF Live
  <1>5. Available' = Available
    BY <1>2 DEF Available
  <1>6. QED
    BY <1>2, <1>3, <1>4, <1>5 DEF ExclusiveOwnership

LEMMA OwnershipInit ==
  ASSUME Frames, ExclusiveOwnership, NEW i \in Initers,
         InitAnswer(i) \/ \E size \in PoolSizes : InitCall(i, size)
  PROVE  ExclusiveOwnership'
  <1> DEFINE s == available_connections_
             x == initer[i].conn
  <1>0. /\ initer \in [Initers -> [conn : Conn \cup {NoConn}, count : Nat]]
        /\ s \in Seq(Conn)
    BY DEF Frames, Typed
  <1>1. ASSUME NEW size \in PoolSizes, InitCall(i, size)
        PROVE  ExclusiveOwnership'
    <2>1. UNCHANGED <<available_connections_, conn>>
      BY <1>1 DEF InitCall, callVars
    <2>2. CASE initer' = initer
      BY <2>1, <2>2, NothingGained
    <2>3. CASE initer' # initer
      <3>1. PICK new \in Conn \ Live :
              initer' = [initer EXCEPT ![i] = [conn |-> new, count |-> 0]]
        BY <1>1, <2>3 DEF InitCall
      <3>2. \A j \in Initers :
              initer'[j].conn = IF j = i THEN new ELSE initer[j].conn
        BY <1>0, <3>1
      <3>3. /\ new \notin Available
            /\ \A c \in Calls : conn[c] # new
            /\ \A j \in Initers : initer[j].conn # new
        BY DEF Live
      <3>4. Available' = Available
        BY <2>1 DEF Available
      <3>5. QED
        BY <2>1, <3>2, <3>3, <3>4 DEF ExclusiveOwnership
    <2>4. QED
      BY <2>2, <2>3
  <1>2. CASE InitConnected(i)
    <2>1. /\ x \in Conn /\ x \notin Available /\ NoRepeat(s)
          /\ available_connections_' = Append(s, x) /\ conn' = conn
      BY <1>0, <1>2, AvailableConn DEF InitConnected, callVars, ExclusiveOwnership
    <2>2. NoRepeat(Append(s, x)) /\ Elements(Append(s, x)) = Available \cup {x}
      BY <1>0, <2>1, BackPushed, AvailableConn
    <2>3. Available' = Available \cup {x}
      BY <2>1, <2>2 DEF Available, Elements
    <2>4. \A j, k \in 1..Len(available_connections_') :
            available_connections_'[j] = available_connections_'[k] => j = k
      BY <2>1, <2>2 DEF NoRepeat
    <2>5. PICK y \in (Conn \ Live) \cup {NoConn} :
            \A j \in Initers : initer'[j].conn = IF j = i THEN y ELSE initer[j].conn
      <3>1. CASE MoreToOpen(i)
        <4>1. PICK new \in Conn \ Live :
                initer' = [initer EXCEPT ![i] = [conn |-> new, count |-> @.count + 1]]
          BY <1>2, <3>1 DEF InitConnected
        <4>2. \A j \in Initers :
                initer'[j].conn = IF j = i THEN new ELSE initer[j].conn
          BY <1>0, <4>1
        <4>3. QED
          BY <4>2
      <3>2. CASE ~MoreToOpen(i)
        <4>1. initer' = [initer EXCEPT ![i] = IdleInit]
          BY <1>2, <3>2 DEF InitConnected
        <4>2. \A j \in Initers :
                initer'[j].conn = IF j = i THEN NoConn ELSE initer[j].conn
          BY <1>0, <4>1 DEF IdleInit
        <4>3. QED
          BY <4>2
      <3>3. QED
        BY <3>1, <3>2
    <2>6. /\ y \notin Available /\ y # x
          /\ \A c \in Calls : conn[c] = y => y = NoConn
          /\ \A j \in Initers : initer[j].conn = y => y = NoConn
      BY <2>1, AvailableConn, ConnAssumption DEF Live
    <2>7. /\ \A c \in Calls : conn[c] # x
          /\ \A j \in Initers : j # i => initer[j].conn # x
      BY <2>1, ConnAssumption DEF ExclusiveOwnership
    <2> HIDE DEF s, x
    <2>8. QED
      BY <2>1, <2>3, <2>4, <2>5, <2>6, <2>7 DEF ExclusiveOwnership
  <1>3. CASE InitFailed(i)
    <2>1. /\ available_connections_' = <<>> /\ conn' = conn
          /\ \A j \in Initers : initer'[j].conn \in {initer[j].conn, NoConn}
      BY <1>0, <1>3 DEF InitFailed, callVars, IdleInit
    <2>2. QED
      BY <2>1, NothingGained
  <1>4. QED
    BY <1>1, <1>2, <1>3 DEF InitAnswer

LEMMA OwnershipNext == Frames /\ ExclusiveOwnership /\ [Next]_vars => ExclusiveOwnership'
  <1> SUFFICES ASSUME Frames, ExclusiveOwnership, [Next]_vars
               PROVE  ExclusiveOwnership'
    OBVIOUS
  <1>0. CASE UNCHANGED owners
    BY <1>0, NothingGained DEF owners
  <1>1. ASSUME NEW c \in Calls, QuietStep(c) PROVE UNCHANGED owners
    BY <1>1, QuietStepGoes DEF owners, poolVars, others
  <1>2. ASSUME NEW c \in Calls, LeaseStep(c) PROVE ExclusiveOwnership'
    <2>1. CASE GetPop(c) \/ ReturnConnection(c) \/ CreateDynamic(c)
      BY <2>1, OwnershipPop, OwnershipReturn, OwnershipCreate
    <2>2. CASE HandOut(c) \/ GiveUp(c) \/ DynamicGiveUp(c) \/ Release(c)
               \/ GetCancelledCounted(c)
      <3>1. /\ UNCHANGED <<available_connections_, initer>>
            /\ UNCHANGED conn \/ conn' = [conn EXCEPT ![c] = NoConn]
        BY <2>2 DEF HandOut, GiveUp, DynamicGiveUp, Release, GetCancelledCounted,
           Move, Drop, poolVars, others
      <3>2. \A d \in Calls : conn'[d] \in {conn[d], NoConn}
        BY <3>1 DEF Frames, Typed
      <3>3. QED
        BY <3>1, <3>2, NothingGained
    <2>3. QED
      BY <1>2, <2>1, <2>2 DEF LeaseStep
  <1>3. ASSUME NEW i \in Initers,
               InitAnswer(i) \/ \E size \in PoolSizes : InitCall(i, size)
        PROVE  ExclusiveOwnership'
    BY <1>3, OwnershipInit
  <1>4. ASSUME NEW k \in Closers, CloserStep(k) PROVE ExclusiveOwnership'
    <2>1. UNCHANGED <<conn, initer>>
      BY <1>4, FramesClose DEF callVars
    <2>2. UNCHANGED available_connections_ \/ available_connections_' = <<>>
      <3>1. CASE QuietClose(k)
        BY <3>1, QuietCloseMoves DEF CloserMove, poolVars
      <3>2. CASE ~QuietClose(k)
        BY <1>4, <3>2 DEF CloserStep, CloseBegin, CloseFinish
      <3>3. QED
        BY <3>1, <3>2
    <2>3. QED
      BY <2>1, <2>2, NothingGained
  <1>5. CASE DestroyPool
    BY <1>5, NothingGained DEF DestroyPool, callVars, others
  <1>6. CASE ServerFlips \/ UNCHANGED vars
    BY <1>0, <1>6 DEF ServerFlips, vars, poolVars, callVars, others, owners
  <1>7. QED
    BY NextCases, <1>0, <1>1, <1>2, <1>3, <1>4, <1>5, <1>6

LEMMA OwnershipStart == Init => ExclusiveOwnership
  <1> SUFFICES ASSUME Init PROVE ExclusiveOwnership
    OBVIOUS
  <1>1. available_connections_ = <<>> /\ Len(available_connections_) = 0
    BY DEF Init
  <1>2. Available = {}
    BY <1>1 DEF Available
  <1>3. QED
    BY <1>1, <1>2 DEF Init, IdleInit, ExclusiveOwnership

\* A connection object has one owner at any time: the deque, one coroutine's
\* frame or one handle, whatever the order of get(), returns, init(),
\* close_all(), cancellations and the destructor.
THEOREM OwnershipIsExclusive == Spec => []ExclusiveOwnership
  <1>1. IInv => Frames
    BY DEF IInv
  <1>2. QED
    BY <1>1, OwnershipStart, OwnershipNext, Inductive, PTL DEF Spec

-----------------------------------------------------------------------------
(* AsyncPool implements ConnectionPool: each of its steps is, seen by the  *)
(* callers, a step of that module or none at all.  The argument needs the  *)
(* frames (what a call owns where) and that owners are exclusive.          *)

PoolOpen == pool_alive /\ Open

Temporary == dynamic \cap Lenders

\* What the callers see.
seen == <<PoolOpen, Kept, LentTo, Temporary>>

\* A connection has one owner, so those that are lent are not kept.
LEMMA LentApart ==
  ASSUME Frames, ExclusiveOwnership
  PROVE  /\ \A c \in Lenders : conn[c] \in Conn /\ conn[c] \notin Kept
         /\ \A c, d \in Calls : conn[c] = conn[d] /\ conn[c] # NoConn => c = d
         /\ Promise!Lent = {conn[c] : c \in Lenders}
         /\ Promise!Fresh = Conn \ (Kept \cup {conn[c] : c \in Lenders})
  <1>1. \A c \in Lenders : conn[c] \in Conn /\ conn[c] # NoConn
    BY ConnAssumption DEF Frames, Typed, LeaseInv, Lenders, Counted
  <1>2. \A c \in Lenders : conn[c] \notin Kept
    BY <1>1 DEF ExclusiveOwnership, Lenders, Kept, Verifying
  <1>3. \A c, d \in Calls : conn[c] = conn[d] /\ conn[c] # NoConn => c = d
    BY DEF ExclusiveOwnership
  <1>4. Promise!Lent = {conn[c] : c \in Lenders}
    BY <1>1 DEF Promise!Lent, LentTo, Lenders
  <1>5. Promise!Fresh = Conn \ (Kept \cup {conn[c] : c \in Lenders})
    BY <1>4 DEF Promise!Fresh
  <1>6. QED
    BY <1>1, <1>2, <1>3, <1>4, <1>5

-----------------------------------------------------------------------------
(* Steps that lend nothing and take nothing back.                          *)

LEMMA PromiseQuiet ==
  ASSUME Frames, NEW c \in Calls, QuietStep(c)
  PROVE  Promise!Shrink
  <1>1. PICK from, to : QuietMove(from, to) /\ Move(c, from, to)
    BY QuietStepGoes
  <1>2. /\ UNCHANGED <<available_connections_, conn, dynamic>>
        /\ UNCHANGED PoolOpen
    BY QuietStepGoes DEF poolVars, flags, PoolOpen, Open
  <1>3. /\ pc[c] \in Verifying <=> pc'[c] \in Verifying
        /\ pc[c] \notin {"held", "returning"}
        /\ pc'[c] \notin {"held", "returning"}
        /\ \A d \in Calls : d # c => pc'[d] = pc[d]
    BY <1>1 DEF Frames, Typed, QuietMove, Move, Goto, Uncounted, Verifying
  <1>4. Kept' = Kept
    BY <1>2, <1>3 DEF Kept, Available
  <1>5. Lenders' = Lenders
    BY <1>3 DEF Lenders
  <1>6. LentTo' = LentTo
    BY <1>2, <1>5 DEF LentTo
  <1>7. QED
    BY <1>2, <1>4, <1>5, <1>6 DEF Promise!Shrink, PoolOpen

\* A step that leaves the calls alone.
LEMMA CallsAlone ==
  ASSUME UNCHANGED callVars
  PROVE  /\ UNCHANGED <<LentTo, dynamic \cap Lenders>>
         /\ Available' \subseteq Available => Kept' \subseteq Kept
         /\ \A x : Available' = Available \cup {x} => Kept' = Kept \cup {x}
         /\ Available' = Available => Kept' = Kept
  BY DEF callVars, LentTo, Lenders, Kept

LEMMA PromiseInit ==
  ASSUME Frames, ExclusiveOwnership, NEW i \in Initers,
         InitAnswer(i) \/ \E size \in PoolSizes : InitCall(i, size)
  PROVE  Promise!Fill \/ Promise!Shrink
  <1> DEFINE s == available_connections_
             x == initer[i].conn
  <1>1. CASE \E size \in PoolSizes : InitCall(i, size)
    <2>1. /\ UNCHANGED callVars /\ Available' = Available
          /\ pool_alive' = pool_alive /\ closing_' = closing_ /\ ~PoolOpen
      BY <1>1 DEF InitCall, Available, PoolOpen, Open
    <2>2. QED
      BY <2>1, CallsAlone DEF Promise!Fill, PoolOpen
  <1>2. CASE InitConnected(i)
    <2>1. /\ UNCHANGED callVars
          /\ s' = Append(s, x) /\ s \in Seq(Conn) /\ NoRepeat(s)
          /\ x \in Conn /\ x \notin Available
          /\ PoolOpen => PoolOpen'
      BY <1>2, AvailableConn
      DEF Frames, Typed, InitConnected, ExclusiveOwnership, PoolOpen, Open
    <2>2. Available' = Available \cup {x}
      BY <2>1, BackPushed, AvailableConn DEF Available, Elements
    <2>3. x \in Promise!Fresh
      <3>1. \A c \in Calls : conn[c] # x
        BY <2>1, ConnAssumption DEF ExclusiveOwnership
      <3>2. QED
        BY <2>1, <3>1, LentApart DEF Kept, Lenders
    <2>4. Kept' = Kept \cup {x} /\ UNCHANGED <<LentTo, dynamic \cap Lenders>>
      BY <2>1, <2>2, CallsAlone
    <2>5. QED
      BY <2>1, <2>3, <2>4 DEF Promise!Fill, PoolOpen
  <1>3. CASE InitFailed(i)
    <2>1. /\ UNCHANGED callVars /\ Available' = {} /\ PoolOpen' = PoolOpen
      BY <1>3 DEF InitFailed, flags, Available, PoolOpen, Open
    <2>2. QED
      BY <2>1, CallsAlone DEF Promise!Shrink, PoolOpen
  <1>4. QED
    BY <1>1, <1>2, <1>3 DEF InitAnswer

LEMMA PromiseClose ==
  ASSUME Frames, NEW k \in Closers, CloserStep(k)
  PROVE  Promise!Shrink
  <1>1. UNCHANGED callVars /\ pool_alive' = pool_alive
    BY FramesClose
  <1>2. Available' \subseteq Available /\ (PoolOpen' => PoolOpen)
    <2>1. CASE QuietClose(k)
      BY <2>1, QuietCloseMoves DEF CloserMove, poolVars, flags, Available, PoolOpen, Open
    <2>2. CASE \E wait \in BOOLEAN : CloseBegin(k, wait)
      BY <2>2 DEF CloseBegin, Available, PoolOpen, Open
    <2>3. CASE CloseFinish(k)
      BY <2>3 DEF CloseFinish, Available, PoolOpen, Open
    <2>4. QED
      BY <2>1, <2>2, <2>3 DEF CloserStep
  <1>3. QED
    BY <1>1, <1>2, CallsAlone DEF Promise!Shrink, PoolOpen

LEMMA PromiseDestroy ==
  ASSUME DestroyPool
  PROVE  Promise!Shrink
  <1>1. UNCHANGED callVars /\ Available' = {} /\ ~PoolOpen'
    BY DEF DestroyPool, Available, PoolOpen
  <1>2. QED
    BY <1>1, CallsAlone DEF Promise!Shrink, PoolOpen

-----------------------------------------------------------------------------
(* Steps that move a connection between the pool and a call.               *)

\* A step of one call that leaves the deque and the flags alone.
Elsewhere(c) ==
  /\ UNCHANGED <<available_connections_, PoolOpen>>
  /\ \A d \in Calls : d # c => /\ pc'[d] = pc[d]
                               /\ conn'[d] = conn[d]
                               /\ d \in dynamic' <=> d \in dynamic

LEMMA OneCallMoves ==
  ASSUME Frames, NEW c \in Calls, LeaseStep(c)
  PROVE  /\ UNCHANGED PoolOpen
         /\ \A d \in Calls : d # c => /\ pc'[d] = pc[d]
                                      /\ conn'[d] = conn[d]
                                      /\ d \in dynamic' <=> d \in dynamic
         /\ ~GetPop(c) /\ ~ReturnConnection(c) => Elsewhere(c)
  <1> USE DEF Frames, Typed, Goto, Drop, poolVars, flags, PoolOpen, Open, Elsewhere
  <1>1. CASE GetPop(c)
    BY <1>1 DEF GetPop
  <1>2. CASE HandOut(c)
    <2>1. PICK from \in {"verify", "dynVerify"} : Move(c, from, "held")
      BY <1>2 DEF HandOut
    <2>2. QED
      BY <1>2, <2>1 DEF Move, HandOut, ReturnConnection
  <1>3. CASE GiveUp(c) \/ DynamicGiveUp(c)
    BY <1>3 DEF GiveUp, DynamicGiveUp
  <1>4. CASE CreateDynamic(c)
    BY <1>4 DEF CreateDynamic
  <1>5. CASE Release(c)
    BY <1>5 DEF Release, Move
  <1>6. CASE ReturnConnection(c)
    BY <1>6 DEF ReturnConnection
  <1>7. CASE GetCancelledCounted(c)
    BY <1>7 DEF GetCancelledCounted
  <1>8. QED
    BY <1>1, <1>2, <1>3, <1>4, <1>5, <1>6, <1>7 DEF LeaseStep

\* What a call does to Kept and to what is lent, by the places it leaves and
\* enters; the deque is treated in the two steps that change it.
LEMMA StaysOut ==
  ASSUME NEW c \in Calls, Elsewhere(c), c \notin Lenders, c \notin Lenders',
         pc'[c] \in Verifying => pc[c] \in Verifying /\ conn'[c] = conn[c]
  PROVE  Promise!Shrink
  <1>1. UNCHANGED <<LentTo, dynamic \cap Lenders>>
    BY DEF Elsewhere, LentTo, Lenders
  <1>2. Kept' \subseteq Kept
    BY DEF Elsewhere, Kept, Available, Verifying
  <1>3. QED
    BY <1>1, <1>2 DEF Promise!Shrink, Elsewhere, PoolOpen

LEMMA PromisePop ==
  ASSUME Frames, ExclusiveOwnership, NEW c \in Calls, GetPop(c)
  PROVE  Promise!Shrink
  <1> DEFINE x == Head(available_connections_)
  <1>1. Available' = Available \ {x} /\ x \in Available
    <2>1. available_connections_ \in Seq(Conn) /\ NoRepeat(available_connections_)
      BY AvailableConn DEF Frames, Typed, ExclusiveOwnership
    <2>2. QED
      BY <2>1, FrontPopped DEF GetPop, PopFront, Available, Elements
  <1>2. /\ pc[c] = "acquire" /\ pc'[c] = "ping" /\ conn'[c] = x /\ dynamic' = dynamic
        /\ \A d \in Calls : d # c => pc'[d] = pc[d] /\ conn'[d] = conn[d]
        /\ UNCHANGED PoolOpen
    BY DEF GetPop, Frames, Typed, Goto, flags, PoolOpen, Open
  <1> HIDE DEF x
  <1>3. Kept' \subseteq Kept
    BY <1>1, <1>2 DEF Kept, Verifying
  <1>4. UNCHANGED <<LentTo, dynamic \cap Lenders>>
    BY <1>2 DEF LentTo, Lenders
  <1>5. QED
    BY <1>2, <1>3, <1>4 DEF Promise!Shrink, PoolOpen

LEMMA PromiseLend ==
  ASSUME Frames, ExclusiveOwnership, NEW c \in Calls, HandOut(c)
  PROVE  Promise!Lend(c, conn[c])
  <1> DEFINE x == conn[c]
  <1>1. /\ pc[c] \in {"verify", "dynVerify"} /\ pc'[c] = "held" /\ Open
        /\ UNCHANGED <<available_connections_, conn, dynamic, pool_alive, initialized_, closing_>>
        /\ \A d \in Calls : d # c => pc'[d] = pc[d]
    BY DEF HandOut, Move, Goto, poolVars, flags, Frames, Typed
  <1>2. PoolOpen /\ UNCHANGED PoolOpen
    BY <1>1 DEF Frames, DeadInv, PoolOpen, Open
  <1>3. /\ x \in Conn /\ x # NoConn /\ x \notin Available
        /\ \A d \in Calls : d # c => conn[d] # x
        /\ pc[c] = "dynVerify" <=> c \in dynamic
    BY <1>1, ConnAssumption DEF Frames, Typed, LeaseInv, Counted, ExclusiveOwnership
  <1>4. Lenders' = Lenders \cup {c} /\ c \notin Lenders
    BY <1>1 DEF Lenders
  <1>5. LentTo[c] = NoConn /\ LentTo' = [LentTo EXCEPT ![c] = x]
    BY <1>1, <1>4 DEF LentTo
  <1>6. CASE pc[c] = "verify"
    <2>1. x \in Kept /\ Kept' = Kept \ {x}
      BY <1>1, <1>3, <1>6 DEF Kept, Available, Verifying
    <2>2. UNCHANGED (dynamic \cap Lenders)
      BY <1>1, <1>3, <1>4, <1>6
    <2>3. QED
      BY <1>2, <1>5, <2>1, <2>2 DEF Promise!Lend, PoolOpen
  <1>7. CASE pc[c] = "dynVerify"
    <2>1. x \in Promise!Fresh
      BY <1>3, <1>4, <1>7, LentApart DEF Kept, Lenders, Verifying
    <2>2. Kept' = Kept
      BY <1>1, <1>7 DEF Kept, Available, Verifying
    <2>3. (dynamic \cap Lenders)' = (dynamic \cap Lenders) \cup {c}
      BY <1>1, <1>3, <1>4, <1>7
    <2>4. QED
      BY <1>2, <1>5, <2>1, <2>2, <2>3 DEF Promise!Lend, PoolOpen
  <1>8. QED
    BY <1>1, <1>6, <1>7

LEMMA PromiseReturn ==
  ASSUME Frames, ExclusiveOwnership, NEW c \in Calls, pc[c] \in {"held", "returning"},
         ReturnConnection(c) \/ (Release(c) /\ ~pool_alive)
  PROVE  Promise!TakeBack(c)
  <1> DEFINE x == conn[c]
  <1>1. /\ pc'[c] = "idle" /\ conn'[c] = NoConn /\ dynamic' = dynamic \ {c}
        /\ UNCHANGED <<pool_alive, initialized_, closing_, PoolOpen>>
        /\ \A d \in Calls : d # c => pc'[d] = pc[d] /\ conn'[d] = conn[d]
    BY DEF ReturnConnection, Release, Move, Goto, Drop, poolVars, flags, Frames, Typed,
       PoolOpen, Open
  <1>2. x \in Conn /\ x # NoConn /\ x \notin Available
    BY ConnAssumption DEF Frames, Typed, LeaseInv, Counted, ExclusiveOwnership
  <1>3. c \in Lenders /\ Lenders' = Lenders \ {c}
    BY <1>1 DEF Lenders
  <1>4. LentTo[c] = x /\ LentTo' = [LentTo EXCEPT ![c] = NoConn]
    BY <1>1, <1>3 DEF LentTo
  <1>5. Available' = IF PoolOpen /\ c \notin dynamic THEN Available \cup {x} ELSE Available
    <2>1. CASE ReturnConnection(c) /\ c \notin dynamic /\ Open
      <3>1. PoolOpen
        BY <2>1 DEF ReturnConnection, Frames, DeadInv, PoolOpen
      <3>2. /\ available_connections_' = Append(available_connections_, x)
            /\ available_connections_ \in Seq(Conn) /\ NoRepeat(available_connections_)
        BY <2>1, AvailableConn
        DEF ReturnConnection, Requeue, Frames, Typed, ExclusiveOwnership
      <3>3. Available' = Available \cup {x}
        BY <1>2, <3>2, BackPushed, AvailableConn DEF Available, Elements
      <3>4. QED
        BY <2>1, <3>1, <3>3
    <2>2. CASE ReturnConnection(c) /\ ~(c \notin dynamic /\ Open)
      BY <2>2 DEF ReturnConnection, Requeue, Available, PoolOpen
    <2>3. CASE Release(c) /\ ~pool_alive
      BY <2>3 DEF Release, Move, poolVars, Available, PoolOpen
    <2>4. QED
      BY <2>1, <2>2, <2>3
  <1> HIDE DEF x
  <1>6. Kept' = IF PoolOpen /\ c \notin dynamic THEN Kept \cup {x} ELSE Kept
    BY <1>1, <1>5 DEF Kept, Verifying
  <1>7. (dynamic \cap Lenders)' = (dynamic \cap Lenders) \ {c}
    BY <1>1, <1>3
  <1>8. QED
    BY <1>1, <1>2, <1>3, <1>4, <1>6, <1>7 DEF Promise!TakeBack, PoolOpen

-----------------------------------------------------------------------------
LEMMA PromiseLease ==
  ASSUME Frames, ExclusiveOwnership, NEW c \in Calls, LeaseStep(c)
  PROVE  [Promise!Next]_seen
  <1>1. CASE GetPop(c)
    BY <1>1, PromisePop DEF Promise!Next
  <1>2. CASE HandOut(c)
    <2>1. conn[c] \in Conn
      BY <1>2, ConnAssumption DEF HandOut, Move, Frames, Typed, LeaseInv, Counted
    <2>2. QED
      BY <1>2, <2>1, PromiseLend DEF Promise!Next
  <1>3. CASE ReturnConnection(c) \/ (Release(c) /\ ~pool_alive)
    <2>1. pc[c] \in {"held", "returning"}
      BY <1>3 DEF ReturnConnection, Release, Move
    <2>2. QED
      BY <1>3, <2>1, PromiseReturn DEF Promise!Next
  <1>4. CASE Release(c) /\ pool_alive
    <2>1. Move(c, "held", "returning")
      BY <1>4 DEF Release
    <2>2. /\ UNCHANGED <<PoolOpen, available_connections_, conn, dynamic>>
          /\ pc[c] = "held" /\ pc'[c] = "returning"
          /\ \A d \in Calls : d # c => pc'[d] = pc[d]
      BY <2>1 DEF Move, Goto, poolVars, flags, Frames, Typed, PoolOpen, Open
    <2>3. Lenders' = Lenders /\ Kept' = Kept
      BY <2>2 DEF Lenders, Kept, Available, Verifying
    <2>4. QED
      BY <2>2, <2>3 DEF seen, LentTo, Temporary
  <1>5. CASE GiveUp(c) \/ DynamicGiveUp(c) \/ CreateDynamic(c) \/ GetCancelledCounted(c)
    <2>1. Elsewhere(c)
      <3>1. ~GetPop(c) /\ ~ReturnConnection(c)
        BY <1>5 DEF GiveUp, DynamicGiveUp, CreateDynamic, GetCancelledCounted, GetPop,
           ReturnConnection
      <3>2. QED
        BY <3>1, OneCallMoves
    <2>2. c \notin Lenders /\ c \notin Lenders' /\ pc'[c] \notin Verifying
      BY <1>5 DEF GiveUp, DynamicGiveUp, CreateDynamic, GetCancelledCounted, Lenders,
         Goto, BackOff, Verifying, Frames, Typed
    <2>3. QED
      BY <2>1, <2>2, StaysOut DEF Promise!Next
  <1>6. QED
    BY <1>1, <1>2, <1>3, <1>4, <1>5 DEF LeaseStep

LEMMA PromiseStep == Frames /\ ExclusiveOwnership /\ [Next]_vars => [Promise!Next]_seen
  <1> SUFFICES ASSUME Frames, ExclusiveOwnership, [Next]_vars
               PROVE  [Promise!Next]_seen
    OBVIOUS
  <1>1. ASSUME NEW c \in Calls, QuietStep(c) PROVE Promise!Next
    BY <1>1, PromiseQuiet DEF Promise!Next
  <1>2. ASSUME NEW c \in Calls, LeaseStep(c) PROVE [Promise!Next]_seen
    BY <1>2, PromiseLease
  <1>3. ASSUME NEW i \in Initers,
               InitAnswer(i) \/ \E size \in PoolSizes : InitCall(i, size)
        PROVE  Promise!Next
    BY <1>3, PromiseInit DEF Promise!Next
  <1>4. ASSUME NEW k \in Closers, CloserStep(k) PROVE Promise!Next
    BY <1>4, PromiseClose DEF Promise!Next
  <1>5. CASE DestroyPool
    BY <1>5, PromiseDestroy DEF Promise!Next
  <1>6. CASE ServerFlips \/ UNCHANGED vars
    BY <1>6 DEF ServerFlips, vars, poolVars, flags, callVars, seen, PoolOpen, Open,
       Kept, Available, LentTo, Lenders, Temporary
  <1>7. QED
    BY NextCases, <1>1, <1>2, <1>3, <1>4, <1>5, <1>6

LEMMA PromiseStart == Init => Promise!Init
  <1> SUFFICES ASSUME Init PROVE Promise!Init
    OBVIOUS
  <1>1. Available = {} /\ Lenders = {} /\ Kept = {}
    BY DEF Init, Available, Lenders, Kept, Verifying
  <1>2. QED
    BY <1>1 DEF Init, Promise!Init, LentTo, Open

\* The coroutine pool keeps the promise of ConnectionPool for any number of
\* calls, connections and coroutines: each step of get(), the deleter, init(),
\* close_all(), a cancellation or the destructor is a step the promise allows,
\* or one the callers do not see.
THEOREM PoolKeepsPromise == Spec => ImplementsPool
  <1>1. IInv => Frames
    BY DEF IInv
  <1>2. Frames /\ ExclusiveOwnership /\ [Next]_vars => [Promise!Next]_(Promise!vars)
    BY PromiseStep DEF Promise!vars, seen, PoolOpen, Temporary
  <1>3. QED
    BY <1>1, <1>2, PromiseStart, Inductive, OwnershipIsExclusive, PTL
    DEF Spec, ImplementsPool, Promise!Spec

-----------------------------------------------------------------------------
(* How many connections the pool has: what init() adds to its fixed part,  *)
(* and what may take a connection out of it                                *)

\* While one init() opens connections, and no other did, it is alone on a pool
\* that is not initialised and counts the connections it has added.
Opening ==
  \A i \in Initers : initer[i].conn # NoConn =>
    /\ ~initialized_
    /\ \A j \in Initers : initer[j].conn # NoConn => j = i
    /\ initer[i].count < pool_size_
    /\ Cardinality(Fixed \ orphans) <= initer[i].count

Solo == overlapped \/ Opening

Capacity == Solo /\ CapacityBound

-----------------------------------------------------------------------------
(* What init() does not do                                                 *)

LEMMA FixedFinite ==
  ASSUME Frames
  PROVE  /\ IsFiniteSet(Fixed)
         /\ IsFiniteSet(Fixed \ orphans) /\ Cardinality(Fixed \ orphans) \in Nat
  <1>1. IsFiniteSet(Available)
    <2>1. Len(available_connections_) \in Nat
      BY DEF Frames, Typed
    <2>2. IsFiniteSet(1..Len(available_connections_))
      BY <2>1, FS_Interval
    <2> DEFINE f == [k \in 1..Len(available_connections_) |-> available_connections_[k]]
    <2>3. Available = {f[k] : k \in 1..Len(available_connections_)}
      BY DEF Available
    <2>4. f \in Surjection(1..Len(available_connections_), Available)
      BY <2>3 DEF Surjection
    <2>5. QED
      BY <2>2, <2>4, FS_Surjection
  <1>2. IsFiniteSet({conn[c] : c \in Leases \ dynamic})
    <2>1. IsFiniteSet(Leases \ dynamic)
      BY SetsFinite, FS_Subset
    <2> DEFINE f == [c \in Leases \ dynamic |-> conn[c]]
    <2>2. f \in Surjection(Leases \ dynamic, {conn[c] : c \in Leases \ dynamic})
      BY DEF Surjection
    <2>3. QED
      BY <2>1, <2>2, FS_Surjection
  <1>3. IsFiniteSet(Fixed)
    BY <1>1, <1>2, FS_Union DEF Fixed
  <1>4. IsFiniteSet(Fixed \ orphans)
    BY <1>3, FS_Subset
  <1>5. QED
    BY <1>3, <1>4, FS_CardinalityType

\* The segments of a call add nothing to the fixed part of the pool.
LEMMA LeaseFixed ==
  ASSUME Frames, NEW c \in Calls, LeaseStep(c)
  PROVE  /\ Fixed' \subseteq Fixed
         /\ orphans \ orphans' \subseteq Conn \ Live
  <1> USE DEF Frames, Typed, Fixed, Leases, Goto, Drop, Counted
  <1>1. CASE GetPop(c)
    <2>1. /\ Elements(Tail(available_connections_)) \subseteq Available
          /\ Head(available_connections_) \in Available
      <3>1. /\ Len(Tail(available_connections_)) = Len(available_connections_) - 1
            /\ Len(available_connections_) \in Nat \ {0}
            /\ \A k \in 1..Len(available_connections_) - 1 :
                 Tail(available_connections_)[k] = available_connections_[k + 1]
            /\ Head(available_connections_) = available_connections_[1]
        BY <1>1, HeadTailProperties, EmptySeq DEF GetPop
      <3>2. QED
        BY <3>1 DEF Elements, Available
    <2>2. Available' \subseteq Available
      BY <1>1, <2>1 DEF GetPop, PopFront, Available, Elements
    <2>3. conn' = [conn EXCEPT ![c] = Head(available_connections_)]
          /\ dynamic' = dynamic /\ orphans' = orphans
          /\ pc' = [pc EXCEPT ![c] = "ping"]
      BY <1>1 DEF GetPop, history
    <2>4. QED
      BY <2>1, <2>2, <2>3
  <1>2. CASE HandOut(c) \/ GiveUp(c) \/ DynamicGiveUp(c) \/ Release(c)
             \/ GetCancelledCounted(c)
    <2>1. Available' = Available /\ orphans' = orphans
      BY <1>2 DEF HandOut, GiveUp, DynamicGiveUp, Release, GetCancelledCounted,
         Move, poolVars, history, Available
    <2>2. \A d \in Leases' \ dynamic' : d \in Leases \ dynamic /\ conn'[d] = conn[d]
      BY <1>2 DEF HandOut, GiveUp, DynamicGiveUp, Release, GetCancelledCounted,
         Move, BackOff, LeaseInv
    <2>3. QED
      BY <2>1, <2>2
  <1>3. CASE CreateDynamic(c)
    <2>1. Available' = Available /\ orphans \ orphans' \subseteq Conn \ Live
      BY <1>3 DEF CreateDynamic, Available
    <2>2. \A d \in Leases' \ dynamic' : d \in Leases \ dynamic /\ conn'[d] = conn[d]
      BY <1>3 DEF CreateDynamic
    <2>3. QED
      BY <2>1, <2>2
  <1>4. CASE ReturnConnection(c)
    <2>1. orphans' = orphans
      BY <1>4 DEF ReturnConnection, history
    <2>2. \A d \in Leases' \ dynamic' : d \in Leases \ dynamic /\ conn'[d] = conn[d]
      BY <1>4 DEF ReturnConnection
    <2>3. CASE UNCHANGED available_connections_
      BY <2>1, <2>2, <2>3 DEF Available
    <2>4. CASE c \notin dynamic /\ available_connections_'
                                     = Append(available_connections_, conn[c])
      <3>1. conn[c] \in Conn /\ c \in Leases
        BY <1>4 DEF LeaseInv, ReturnConnection
      <3>2. Available' \subseteq Available \cup {conn[c]}
        <4>1. /\ Len(available_connections_') = Len(available_connections_) + 1
              /\ Len(available_connections_) \in Nat
              /\ \A k \in 1..Len(available_connections_) :
                   available_connections_'[k] = available_connections_[k]
              /\ available_connections_'[Len(available_connections_) + 1] = conn[c]
          BY <2>4, <3>1, AppendProperties
        <4>2. QED
          BY <4>1 DEF Available
      <3>3. QED
        BY <2>1, <2>2, <2>4, <3>1, <3>2
    <2>5. QED
      BY <1>4, <2>3, <2>4 DEF ReturnConnection, Requeue
  <1>5. QED
    BY <1>1, <1>2, <1>3, <1>4 DEF LeaseStep

\* A step of init(), the only ones that begin a generation or add to it.
InitStep(i) == InitAnswer(i) \/ \E size \in PoolSizes : InitCall(i, size)

LEMMA FixedShrinks ==
  ASSUME Frames, [Next]_vars, \A i \in Initers : ~InitStep(i)
  PROVE  /\ UNCHANGED <<initer, pool_size_, overlapped>>
         /\ initialized_' => initialized_
         /\ Fixed' \subseteq Fixed
         /\ Fixed' \ orphans' \subseteq Fixed \ orphans
  <1> USE DEF poolVars, flags, others, history, callVars
  <1>0. Fixed \subseteq Live
    BY DEF Fixed, Live, Leases
  <1>1. ASSUME NEW c \in Calls, QuietStep(c)
        PROVE  /\ UNCHANGED <<initer, pool_size_, overlapped, initialized_, orphans>>
               /\ Fixed' \subseteq Fixed
    BY <1>1, QuietStepGoes, FramesQuiet DEF Fixed, Available
  <1>2. ASSUME NEW c \in Calls, LeaseStep(c)
        PROVE  /\ UNCHANGED <<initer, pool_size_, overlapped, initialized_>>
               /\ Fixed' \subseteq Fixed /\ orphans \ orphans' \subseteq Conn \ Live
    <2>1. UNCHANGED <<initer, pool_size_, overlapped, initialized_>>
      BY <1>2 DEF LeaseStep, GetPop, HandOut, Move, GiveUp, CreateDynamic,
         DynamicGiveUp, Release, ReturnConnection, GetCancelledCounted
    <2>2. QED
      BY <1>2, <2>1, LeaseFixed
  <1>3. ASSUME NEW k \in Closers, CloserStep(k)
        PROVE  /\ UNCHANGED <<initer, pool_size_, overlapped, orphans>>
               /\ initialized_' => initialized_
               /\ Fixed' \subseteq Fixed
    <2>1. UNCHANGED <<initer, overlapped, orphans, conn, dynamic>> /\ Leases' = Leases
      BY <1>3, FramesClose
    <2>2. /\ UNCHANGED pool_size_ /\ (initialized_' => initialized_)
          /\ UNCHANGED available_connections_ \/ available_connections_' = <<>>
      <3>1. CASE QuietClose(k)
        BY <3>1, QuietCloseMoves DEF CloserMove
      <3>2. CASE ~QuietClose(k)
        BY <1>3, <3>2 DEF CloserStep, CloseBegin, CloseFinish
      <3>3. QED
        BY <3>1, <3>2
    <2>3. Available' \subseteq Available
      BY <2>2 DEF Available
    <2>4. QED
      BY <2>1, <2>2, <2>3 DEF Fixed
  <1>4. CASE DestroyPool \/ ServerFlips \/ UNCHANGED vars
    <2>1. /\ UNCHANGED <<initer, pool_size_, overlapped, initialized_, orphans>>
          /\ UNCHANGED <<conn, dynamic, pc>>
          /\ UNCHANGED available_connections_ \/ available_connections_' = <<>>
      BY <1>4 DEF DestroyPool, ServerFlips, vars
    <2>2. Available' \subseteq Available
      BY <2>1 DEF Available
    <2>3. QED
      BY <2>1, <2>2 DEF Fixed, Leases
  <1>5. QED
    BY NextCases, <1>0, <1>1, <1>2, <1>3, <1>4 DEF InitStep

-----------------------------------------------------------------------------
(* What init() does                                                        *)

LEMMA CapacityInitCall ==
  ASSUME Frames, NEW i \in Initers, NEW size \in PoolSizes, InitCall(i, size)
  PROVE  Capacity'
  <1>1. CASE overlapped'
    BY <1>1 DEF Capacity, Solo, CapacityBound
  <1>2. CASE ~overlapped'
    <2>1. Fixed' = Fixed /\ orphans' = Fixed
      BY DEF InitCall, callVars, Fixed, Available, Leases
    <2>2. Fixed' \ orphans' = {} /\ Cardinality(Fixed' \ orphans') = 0
      BY <2>1, FS_EmptySet
    <2>3. size \in Nat /\ pool_size_' = size
      BY BoundsAssumption DEF InitCall
    <2>4. \A j \in Initers : initer[j].conn = NoConn
      BY <1>2 DEF InitCall
    <2>5. CASE size = 0
      BY <2>2, <2>3, <2>4, <2>5
      DEF InitCall, Capacity, Solo, Opening, CapacityBound
    <2>6. CASE size # 0
      <3>1. PICK new : initer' = [initer EXCEPT ![i] = [conn |-> new, count |-> 0]]
        BY <2>6 DEF InitCall
      <3>2. /\ initer'[i].count = 0
            /\ \A j \in Initers : j # i => initer'[j].conn = NoConn
        BY <2>4, <3>1 DEF Frames, Typed
      <3>3. ~initialized_'
        BY <2>6 DEF InitCall
      <3>4. QED
        BY <2>2, <2>3, <2>6, <3>2, <3>3 DEF Capacity, Solo, Opening, CapacityBound
    <2>7. QED
      BY <2>5, <2>6
  <1>3. QED
    BY <1>1, <1>2

LEMMA CapacityInitAnswer ==
  ASSUME Frames, Capacity, NEW i \in Initers, InitAnswer(i)
  PROVE  Capacity'
  <1> DEFINE x == initer[i].conn
             n == Cardinality(Fixed \ orphans)
  <1>0. /\ overlapped' = overlapped /\ pool_size_' = pool_size_ /\ pool_size_ \in Nat
        /\ UNCHANGED <<conn, dynamic, pc>> /\ x # NoConn
        /\ initer \in [Initers -> [conn : Conn \cup {NoConn}, count : Nat]]
        /\ initer[i].count \in Nat
    BY DEF InitAnswer, InitConnected, InitFailed, flags, history, callVars, Frames,
       Typed
  <1>1. CASE overlapped
    BY <1>0, <1>1 DEF Capacity, Solo, CapacityBound
  <1> SUFFICES ASSUME ~overlapped PROVE Capacity'
    BY <1>1
  <1>2. /\ ~initialized_
        /\ \A j \in Initers : j # i => initer[j].conn = NoConn
        /\ initer[i].count < pool_size_ /\ n <= initer[i].count
        /\ n \in Nat /\ IsFiniteSet(Fixed \ orphans)
    BY <1>0, FixedFinite DEF Capacity, Solo, Opening
  <1>3. CASE InitConnected(i)
    <2>1. Available' = Available \cup {x}
      <3>1. x \in Conn
        BY <1>0
      <3>2. available_connections_' = Append(available_connections_, x)
        BY <1>3 DEF InitConnected
      <3>3. /\ Len(available_connections_') = Len(available_connections_) + 1
            /\ Len(available_connections_) \in Nat
            /\ \A k \in 1..Len(available_connections_) :
                 available_connections_'[k] = available_connections_[k]
            /\ available_connections_'[Len(available_connections_) + 1] = x
        BY <3>1, <3>2, AppendProperties DEF Frames, Typed
      <3>4. QED
        BY <3>3 DEF Available
    <2>2. Fixed' = Fixed \cup {x} /\ Fixed \subseteq Live /\ x \in Live
      BY <1>0, <2>1 DEF Fixed, Leases, Live
    <2>3. orphans \ orphans' \subseteq Conn \ Live
      BY <1>3 DEF InitConnected
    <2>4. Fixed' \ orphans' \subseteq (Fixed \ orphans) \cup {x}
      BY <2>2, <2>3
    <2>5. /\ IsFiniteSet((Fixed \ orphans) \cup {x})
          /\ Cardinality((Fixed \ orphans) \cup {x}) <= n + 1
          /\ Cardinality((Fixed \ orphans) \cup {x}) \in Nat
      <3> DEFINE F == Fixed \ orphans
      <3>1. /\ IsFiniteSet(F \cup {x})
            /\ Cardinality(F \cup {x}) = IF x \in F THEN Cardinality(F)
                                                  ELSE Cardinality(F) + 1
        BY <1>2, FS_AddElement
      <3>2. QED
        BY <1>2, <3>1
    <2>6. Cardinality(Fixed' \ orphans') <= n + 1
          /\ Cardinality(Fixed' \ orphans') \in Nat
      BY <2>4, <2>5, FS_Subset, FS_CardinalityType
    <2>7. CapacityBound'
      BY <1>0, <1>2, <2>6 DEF CapacityBound
    <2>8. CASE MoreToOpen(i)
      <3>1. PICK new : initer' = [initer EXCEPT ![i] =
                                    [conn |-> new, count |-> @.count + 1]]
        BY <1>3, <2>8 DEF InitConnected
      <3>2. /\ initer'[i].count = initer[i].count + 1
            /\ \A j \in Initers : j # i => initer'[j].conn = NoConn
        BY <1>0, <1>2, <3>1
      <3>3. ~initialized_'
        BY <1>2, <1>3, <2>8 DEF InitConnected
      <3>4. Opening'
        BY <1>0, <1>2, <2>6, <2>8, <3>2, <3>3 DEF Opening, MoreToOpen
      <3>5. QED
        BY <2>7, <3>4 DEF Capacity, Solo
    <2>9. CASE ~MoreToOpen(i)
      <3>1. \A j \in Initers : initer'[j].conn = NoConn
        BY <1>0, <1>2, <1>3, <2>9 DEF InitConnected, IdleInit
      <3>2. QED
        BY <2>7, <3>1 DEF Capacity, Solo, Opening
    <2>10. QED
      BY <2>8, <2>9
  <1>4. CASE InitFailed(i)
    <2>1. /\ \A j \in Initers : initer'[j].conn = NoConn
          /\ orphans' = orphans
      BY <1>0, <1>2, <1>4 DEF InitFailed, IdleInit, history
    <2>2. Fixed' \ orphans' \subseteq Fixed \ orphans
      BY <1>0, <1>4, <2>1 DEF InitFailed, Fixed, Available, Leases
    <2>3. Cardinality(Fixed' \ orphans') <= n /\ Cardinality(Fixed' \ orphans') \in Nat
      BY <1>2, <2>2, FS_Subset, FS_CardinalityType
    <2>4. QED
      BY <1>0, <1>2, <2>1, <2>3 DEF Capacity, Solo, Opening, CapacityBound
  <1>5. QED
    BY <1>3, <1>4 DEF InitAnswer

LEMMA CapacityNext == Frames /\ Capacity /\ [Next]_vars => Capacity'
  <1> SUFFICES ASSUME Frames, Capacity, [Next]_vars PROVE Capacity'
    OBVIOUS
  <1>1. ASSUME NEW i \in Initers, InitStep(i) PROVE Capacity'
    BY <1>1, CapacityInitCall, CapacityInitAnswer DEF InitStep
  <1>2. CASE \A i \in Initers : ~InitStep(i)
    <2>1. /\ UNCHANGED <<initer, pool_size_, overlapped>>
          /\ initialized_' => initialized_
          /\ Fixed' \ orphans' \subseteq Fixed \ orphans
      BY <1>2, FixedShrinks
    <2>2. /\ Cardinality(Fixed' \ orphans') <= Cardinality(Fixed \ orphans)
          /\ Cardinality(Fixed' \ orphans') \in Nat
          /\ Cardinality(Fixed \ orphans) \in Nat
      BY <2>1, FixedFinite, FS_Subset, FS_CardinalityType
    <2>3. pool_size_ \in Nat /\ \A i \in Initers : initer[i].count \in Nat
      BY DEF Frames, Typed
    <2>4. QED
      BY <2>1, <2>2, <2>3 DEF Capacity, Solo, Opening, CapacityBound
  <1>3. QED
    BY <1>1, <1>2

LEMMA CapacityStart == Init => Capacity
  <1> SUFFICES ASSUME Init PROVE Capacity
    OBVIOUS
  <1>1. Len(available_connections_) = 0
    BY DEF Init
  <1>2. Fixed \ orphans = {}
    BY <1>1 DEF Init, Fixed, Available, Leases, Counted
  <1>3. Cardinality(Fixed \ orphans) = 0
    BY <1>2, FS_EmptySet
  <1>4. Opening
    BY DEF Init, IdleInit, Opening
  <1>5. QED
    BY <1>3, <1>4 DEF Init, Capacity, Solo, CapacityBound

\* No interleaving of get(), returns, close_all() and an init() that is alone
\* gives the pool more than pool_size_ connections of its current generation.
THEOREM CapacityBounded == Spec => []CapacityBound
  <1>1. IInv => Frames
    BY DEF IInv
  <1>2. Capacity => CapacityBound
    BY DEF Capacity
  <1>3. QED
    BY <1>1, <1>2, CapacityStart, CapacityNext, Inductive, PTL DEF Spec

\* Together with the bound on temporary connections: no interleaving exceeds a
\* limit of the pool's configuration.
THEOREM LimitsAreKept == Spec => []LimitsKept
  <1>1. CapacityBound /\ DynamicBound => LimitsKept
    BY DEF LimitsKept
  <1>2. QED
    BY <1>1, CapacityBounded, DynamicBounded, PTL

-----------------------------------------------------------------------------
(* Where connections leave the pool                                        *)

LEMMA LeaseKeepsFixed ==
  ASSUME Frames, NEW c \in Calls, LeaseStep(c), Open, pool_alive',
         NEW x \in Fixed \ Fixed'
  PROVE  leaked' > leaked \/ (conn[c] = x /\ pc[c] = "discard")
  <1> USE DEF Frames, Typed, Fixed, Leases, Goto, Drop, Counted
  <1>1. CASE GetPop(c)
    <2>1. Available \subseteq Elements(Tail(available_connections_))
                               \cup {Head(available_connections_)}
      <3>1. /\ Len(Tail(available_connections_)) = Len(available_connections_) - 1
            /\ Len(available_connections_) \in Nat \ {0}
            /\ \A k \in 1..Len(available_connections_) - 1 :
                 Tail(available_connections_)[k] = available_connections_[k + 1]
            /\ Head(available_connections_) = available_connections_[1]
        BY <1>1, HeadTailProperties, EmptySeq DEF GetPop
      <3>2. \A k \in 1..Len(available_connections_) :
              k = 1 \/ (k - 1 \in 1..Len(available_connections_) - 1 /\ (k - 1) + 1 = k)
        BY <3>1
      <3> SUFFICES ASSUME NEW y \in Available
                   PROVE  y \in Elements(Tail(available_connections_))
                                  \cup {Head(available_connections_)}
        OBVIOUS
      <3>3. PICK k \in 1..Len(available_connections_) :
              y = available_connections_[k]
        BY DEF Available
      <3>4. CASE k = 1
        BY <3>1, <3>3, <3>4
      <3>5. CASE k # 1
        <4>1. /\ y = Tail(available_connections_)[k - 1]
              /\ k - 1 \in 1..Len(Tail(available_connections_))
          BY <3>1, <3>2, <3>3, <3>5
        <4>2. QED
          BY <4>1 DEF Elements
      <3>6. QED
        BY <3>4, <3>5
    <2>2. Available' = Elements(Tail(available_connections_))
      BY <1>1 DEF GetPop, PopFront, Available, Elements
    <2>3. /\ conn' = [conn EXCEPT ![c] = Head(available_connections_)]
          /\ dynamic' = dynamic /\ c \notin dynamic
          /\ pc' = [pc EXCEPT ![c] = "ping"]
      BY <1>1 DEF GetPop, LeaseInv
    <2>4. \A d \in Leases \ dynamic : d # c /\ d \in Leases' \ dynamic'
      BY <1>1, <2>3 DEF GetPop
    <2>5. c \in Leases' \ dynamic' /\ conn'[c] = Head(available_connections_)
      BY <2>3
    <2>6. Fixed \subseteq Fixed'
      BY <2>1, <2>2, <2>3, <2>4, <2>5
    <2>7. QED
      BY <2>6
  <1>2. CASE GetCancelledCounted(c)
    BY <1>2 DEF GetCancelledCounted
  <1>3. CASE HandOut(c) \/ GiveUp(c) \/ DynamicGiveUp(c) \/ Release(c)
             \/ CreateDynamic(c)
    <2>1. Available' = Available
      BY <1>3 DEF HandOut, GiveUp, DynamicGiveUp, Release, CreateDynamic,
         Move, poolVars, Available
    <2>2. \A d \in Leases \ dynamic :
            \/ d \in Leases' \ dynamic' /\ conn'[d] = conn[d]
            \/ d = c /\ pc[c] = "discard"
      BY <1>3 DEF HandOut, GiveUp, DynamicGiveUp, Release, CreateDynamic, Move,
         poolVars, flags, BackOff, LeaseInv
    <2>3. QED
      BY <2>1, <2>2
  <1>4. CASE ReturnConnection(c)
    <2>1. \A d \in Leases \ dynamic :
            d # c => d \in Leases' \ dynamic' /\ conn'[d] = conn[d]
      BY <1>4 DEF ReturnConnection
    <2>2. CASE c \in dynamic
      <3>1. Available' = Available
        BY <1>4, <2>2 DEF ReturnConnection, Available
      <3>2. QED
        BY <2>1, <2>2, <3>1
    <2>3. CASE c \notin dynamic
      <3>1. conn[c] \in Conn
            /\ available_connections_' = Append(available_connections_, conn[c])
        BY <1>4, <2>3 DEF ReturnConnection, Requeue, LeaseInv
      <3>2. Available' = Available \cup {conn[c]}
        <4>1. /\ Len(available_connections_') = Len(available_connections_) + 1
              /\ Len(available_connections_) \in Nat
              /\ \A k \in 1..Len(available_connections_) :
                   available_connections_'[k] = available_connections_[k]
              /\ available_connections_'[Len(available_connections_) + 1] = conn[c]
          BY <3>1, AppendProperties
        <4>2. QED
          BY <4>1 DEF Available
      <3>3. QED
        BY <2>1, <3>2
    <2>4. QED
      BY <2>2, <2>3
  <1>5. QED
    BY <1>1, <1>2, <1>3, <1>4 DEF LeaseStep

\* While the pool stays open a fixed connection leaves it only through a failed
\* reconnect() or a cancelled get(): no return and no release is lost.
THEOREM OpenPoolKeeps == Spec => OpenPoolKeepsConnections
  <1> DEFINE A ==
        pool_alive' /\ Open /\ Open' /\ ~overlapped =>
          \A x \in Fixed \ Fixed' : \/ leaked' > leaked
                                     \/ \E c \in Calls : /\ conn[c] = x
                                                          /\ pc[c] = "discard"
  <1>1. Frames /\ Capacity /\ [Next]_vars => [A]_vars
    <2> SUFFICES ASSUME Frames, Capacity, [Next]_vars,
                        pool_alive', Open, Open', ~overlapped,
                        NEW x \in Fixed \ Fixed'
                 PROVE  leaked' > leaked
                          \/ \E c \in Calls : conn[c] = x /\ pc[c] = "discard"
      OBVIOUS
    <2> USE DEF Open
    <2>1. ASSUME NEW c \in Calls, QuietStep(c) PROVE FALSE
      <3>1. Fixed' = Fixed
        BY <2>1, QuietStepGoes, FramesQuiet DEF Fixed, Available, poolVars
      <3>2. QED
        BY <3>1
    <2>2. ASSUME NEW c \in Calls, LeaseStep(c)
          PROVE  leaked' > leaked \/ (conn[c] = x /\ pc[c] = "discard")
      BY <2>2, LeaseKeepsFixed
    <2>3. ASSUME NEW i \in Initers, InitStep(i) PROVE FALSE
      <3>1. CASE \E size \in PoolSizes : InitCall(i, size)
        BY <3>1 DEF InitCall
      <3>2. CASE InitAnswer(i)
        <4>1. initer[i].conn # NoConn
          BY <3>2 DEF InitAnswer, InitConnected, InitFailed
        <4>2. QED
          BY <4>1 DEF Capacity, Solo, Opening
      <3>3. QED
        BY <2>3, <3>1, <3>2 DEF InitStep
    <2>4. ASSUME NEW k \in Closers, CloserStep(k) PROVE FALSE
      <3>1. UNCHANGED <<conn, dynamic>> /\ Leases' = Leases
        BY <2>4, FramesClose DEF callVars
      <3>2. UNCHANGED available_connections_
        <4>1. CASE QuietClose(k)
          BY <4>1, QuietCloseMoves DEF CloserMove, poolVars
        <4>2. CASE ~QuietClose(k)
          BY <2>4, <4>2 DEF CloserStep, CloseBegin, CloseFinish
        <4>3. QED
          BY <4>1, <4>2
      <3>3. Fixed' = Fixed
        BY <3>1, <3>2 DEF Fixed, Available
      <3>4. QED
        BY <3>3
    <2>5. CASE DestroyPool
      BY <2>5 DEF DestroyPool
    <2>6. CASE ServerFlips \/ UNCHANGED vars
      <3>1. Fixed' = Fixed
        BY <2>6 DEF ServerFlips, vars, poolVars, callVars, Fixed, Available, Leases
      <3>2. QED
        BY <3>1
    <2>7. QED
      BY NextCases, <2>1, <2>2, <2>3, <2>4, <2>5, <2>6 DEF InitStep
  <1>2. IInv => Frames
    BY DEF IInv
  <1>3. QED
    BY <1>1, <1>2, CapacityStart, CapacityNext, Inductive, PTL
    DEF Spec, OpenPoolKeepsConnections

-----------------------------------------------------------------------------
(* Closed pools                                                            *)

LEMMA ClosedPoolIsEmptyNext ==
  Frames /\ ClosedPoolIsEmpty /\ [Next]_vars => ClosedPoolIsEmpty'
  <1> SUFFICES ASSUME Frames, ClosedPoolIsEmpty, [Next]_vars
               PROVE  ClosedPoolIsEmpty'
    OBVIOUS
  <1> USE DEF poolVars, flags, others
  <1>0. CASE UNCHANGED <<initialized_, initer, available_connections_>>
    BY <1>0 DEF ClosedPoolIsEmpty
  <1>1. ASSUME NEW c \in Calls, QuietStep(c) PROVE ClosedPoolIsEmpty'
    BY <1>0, <1>1, QuietStepGoes
  <1>2. ASSUME NEW c \in Calls, LeaseStep(c) PROVE ClosedPoolIsEmpty'
    <2>1. \/ UNCHANGED <<initialized_, initer, available_connections_>>
          \/ initialized_ /\ UNCHANGED initialized_
      BY <1>2 DEF LeaseStep, GetPop, HandOut, Move, GiveUp, CreateDynamic,
         DynamicGiveUp, Release, ReturnConnection, Requeue, GetCancelledCounted,
         Open
    <2>2. QED
      BY <1>0, <2>1 DEF ClosedPoolIsEmpty
  <1>3. ASSUME NEW i \in Initers, InitStep(i) PROVE ClosedPoolIsEmpty'
    <2>0. initer \in [Initers -> [conn : Conn \cup {NoConn}, count : Nat]]
      BY DEF Frames, Typed
    <2>1. \/ initialized_' \/ available_connections_' = <<>>
          \/ \E new \in Conn, n \in Nat :
               initer' = [initer EXCEPT ![i] = [conn |-> new, count |-> n]]
      <3>1. CASE \E size \in PoolSizes : InitCall(i, size)
        BY <3>1 DEF InitCall
      <3>2. CASE InitConnected(i)
        <4>1. initer[i].count + 1 \in Nat
          BY <2>0
        <4>2. QED
          BY <3>2, <4>1 DEF InitConnected
      <3>3. CASE InitFailed(i)
        BY <3>3 DEF InitFailed
      <3>4. QED
        BY <1>3, <3>1, <3>2, <3>3 DEF InitStep, InitAnswer
    <2>2. ASSUME NEW new \in Conn, NEW n \in Nat,
                 initer' = [initer EXCEPT ![i] = [conn |-> new, count |-> n]]
          PROVE  initer'[i].conn # NoConn
      BY <2>0, <2>2, ConnAssumption
    <2>3. QED
      BY <2>1, <2>2 DEF ClosedPoolIsEmpty
  <1>4. ASSUME NEW k \in Closers, CloserStep(k) PROVE ClosedPoolIsEmpty'
    <2>1. CASE QuietClose(k)
      BY <1>0, <2>1, QuietCloseMoves DEF CloserMove
    <2>2. CASE ~QuietClose(k)
      BY <1>0, <1>4, <2>2
      DEF CloserStep, CloseBegin, CloseFinish, ClosedPoolIsEmpty
    <2>3. QED
      BY <2>1, <2>2
  <1>5. CASE DestroyPool \/ ServerFlips \/ UNCHANGED vars
    BY <1>0, <1>5 DEF DestroyPool, ServerFlips, vars, ClosedPoolIsEmpty
  <1>6. QED
    BY NextCases, <1>1, <1>2, <1>3, <1>4, <1>5 DEF InitStep

\* What comes back to a pool after close_all() is not kept, and neither are the
\* connections of an init() that failed.
THEOREM ClosedIsEmpty == Spec => []ClosedPoolIsEmpty
  <1>1. Init => ClosedPoolIsEmpty
    BY DEF Init, ClosedPoolIsEmpty
  <1>2. IInv => Frames
    BY DEF IInv
  <1>3. QED
    BY <1>1, <1>2, ClosedPoolIsEmptyNext, Inductive, PTL DEF Spec

-----------------------------------------------------------------------------
(* The utilisation                                                         *)

LeakInv == leaked_dynamic <= leaked

LEMMA LeakInvNext == Frames /\ LeakInv /\ [Next]_vars => LeakInv'
  <1> SUFFICES ASSUME Frames, LeakInv, [Next]_vars PROVE LeakInv'
    OBVIOUS
  <1> USE DEF LeakInv, history
  <1>0. leaked \in Nat /\ leaked_dynamic \in Nat
    BY DEF Frames, Typed
  <1>1. ASSUME NEW c \in Calls, QuietStep(c) PROVE LeakInv'
    BY <1>1, QuietStepGoes
  <1>2. ASSUME NEW c \in Calls, LeaseStep(c) PROVE LeakInv'
    BY <1>0, <1>2 DEF LeaseStep, GetPop, HandOut, Move, GiveUp, CreateDynamic,
       DynamicGiveUp, Release, ReturnConnection, GetCancelledCounted
  <1>3. ASSUME NEW i \in Initers, InitStep(i) PROVE LeakInv'
    BY <1>3 DEF InitStep, InitCall, InitAnswer, InitConnected, InitFailed
  <1>4. ASSUME NEW k \in Closers, CloserStep(k) PROVE LeakInv'
    BY <1>4, FramesClose
  <1>5. CASE DestroyPool \/ ServerFlips \/ UNCHANGED vars
    BY <1>5 DEF DestroyPool, ServerFlips, vars
  <1>6. QED
    BY NextCases, <1>1, <1>2, <1>3, <1>4, <1>5 DEF InitStep

\* The leases on fixed connections are as many as these connections.
LEMMA LeasesFitFixed ==
  ASSUME Frames, ExclusiveOwnership
  PROVE  Cardinality(Leases) <= Cardinality(Fixed) + Cardinality(dynamic)
  <1> DEFINE L == Leases \ dynamic
             f == [c \in L |-> conn[c]]
  <1>1. f \in Injection(L, Fixed)
    <2>1. \A c \in L : conn[c] \in Fixed /\ conn[c] # NoConn /\ c \in Calls
      BY DEF Fixed, Frames, LeaseInv, Leases
    <2>2. \A c, d \in L : conn[c] = conn[d] => c = d
      BY <2>1 DEF ExclusiveOwnership
    <2>3. QED
      BY <2>1, <2>2 DEF Injection, IsInjective
  <1>2. Cardinality(L) <= Cardinality(Fixed)
    BY <1>1, FixedFinite, FS_Injection
  <1>3. /\ IsFiniteSet(L) /\ Cardinality(L) \in Nat
        /\ IsFiniteSet(dynamic) /\ Cardinality(dynamic) \in Nat
        /\ Cardinality(Fixed) \in Nat
    BY SetsFinite, FixedFinite, FS_Subset, FS_CardinalityType
  <1>4. Leases = L \cup dynamic /\ L \cap dynamic = {}
    BY DEF Frames, LeaseInv
  <1> HIDE DEF L, f
  <1>5. Cardinality(Leases) = Cardinality(L) + Cardinality(dynamic)
    <2>1. Cardinality(L \cup dynamic) =
            Cardinality(L) + Cardinality(dynamic) - Cardinality(L \cap dynamic)
      BY <1>3, FS_Union
    <2>2. Cardinality(L \cap dynamic) = 0
      BY <1>4, FS_EmptySet
    <2>3. QED
      BY <1>3, <1>4, <2>1, <2>2
  <1>6. QED
    BY <1>2, <1>3, <1>5

LEMMA PercentOfLess ==
  ASSUME NEW a \in Nat, NEW b \in Nat, a <= b, b # 0
  PROVE  (a * 100) \div b <= 100
  <1> DEFINE q == (a * 100) \div b
             r == (a * 100) % b
  <1>1. q \in Int /\ r \in 0..b-1 /\ a * 100 = b * q + r
    OBVIOUS
  <1>2. a * 100 <= b * 100
    OBVIOUS
  <1>3. ASSUME q >= 101 PROVE FALSE
    <2>1. PICK n \in Nat : q = 101 + n
      <3>1. q - 101 \in Nat /\ q = 101 + (q - 101)
        BY <1>1, <1>3
      <3>2. QED
        BY <3>1
    <2> HIDE DEF q, r
    <2>2. b * q = b * 101 + b * n /\ b * n >= 0
      BY <2>1
    <2>3. QED
      BY <1>1, <1>2, <2>2
  <1> HIDE DEF q
  <1>4. q <= 100
    BY <1>1, <1>3
  <1>5. QED
    BY <1>4 DEF q

\* get_status_string() prints at most 100% while every connection that is
\* counted belongs to the current generation of the pool.
THEOREM UtilizationIsBounded == Spec => []UtilizationBounded
  <1>1. IInv /\ ExclusiveOwnership /\ Capacity /\ LeakInv => UtilizationBounded
    <2> SUFFICES ASSUME IInv, ExclusiveOwnership, Capacity, LeakInv,
                        pool_alive, leaked = 0, ~overlapped,
                        Fixed \cap orphans = {}
                 PROVE  Utilization <= 100
      BY DEF UtilizationBounded
    <2>1. Frames /\ pool_size_ \in Nat /\ leaked_dynamic \in Nat
      BY DEF IInv, Frames, Typed
    <2>2. leaked_dynamic = 0
      BY <2>1 DEF LeakInv
    <2>3. Cardinality(Leases) \in Nat /\ Cardinality(dynamic) \in Nat
      BY <2>1, SetsFinite
    <2>4. /\ in_use_count_ = Cardinality(Leases)
          /\ dynamic_connection_count_ = Cardinality(dynamic)
      BY <2>2, <2>3 DEF IInv, Counting, Accounting
    <2>5. Fixed \ orphans = Fixed
      OBVIOUS
    <2>6. Cardinality(Fixed) <= pool_size_ /\ Cardinality(Fixed) \in Nat
      BY <2>1, <2>5, FixedFinite DEF Capacity, CapacityBound
    <2>7. Cardinality(Leases) <= Cardinality(Fixed) + Cardinality(dynamic)
      BY <2>1, LeasesFitFixed
    <2>8. in_use_count_ <= pool_size_ + dynamic_connection_count_
      BY <2>1, <2>3, <2>4, <2>6, <2>7
    <2>9. /\ in_use_count_ \in Nat
          /\ pool_size_ + dynamic_connection_count_ \in Nat
      BY <2>1, <2>3, <2>4
    <2>10. CASE pool_size_ + dynamic_connection_count_ = 0
      BY <2>10 DEF Utilization
    <2>11. CASE pool_size_ + dynamic_connection_count_ # 0
      <3>1. (in_use_count_ * 100) \div (pool_size_ + dynamic_connection_count_) <= 100
        BY <2>8, <2>9, <2>11, PercentOfLess
      <3>2. QED
        BY <3>1, <2>11 DEF Utilization
    <2>12. QED
      BY <2>10, <2>11
  <1>2. Init => LeakInv
    BY DEF Init, LeakInv
  <1>3. IInv => Frames
    BY DEF IInv
  <1>4. QED
    BY <1>1, <1>2, <1>3, LeakInvNext, CapacityStart, CapacityNext,
       OwnershipIsExclusive, Inductive, PTL DEF Spec

-----------------------------------------------------------------------------
(***************************************************************************)
(* SafeAdapter: a coroutine of another library that awaits one of these.   *)
(*                                                                         *)
(* One co_await is one token: it is handed from the strand's queue to a    *)
(* handler, to the Asio coroutine, back to the queue and to the executor,  *)
(* and is used up by handle.resume().  OneToken says that it is never in   *)
(* two places; Outcome and Cancellation say what travels with it.          *)
(***************************************************************************)
Handlers == {"start", "complete", "resume", "cancel"}

In(s, h) == \E k \in 1..Len(s) : s[k] = h

\* The queue holds the token, and no other.
Carries(s) == \E k \in 1..Len(s) : s[k] # "cancel"

Alone(s) == \A j, k \in 1..Len(s) : s[j] # "cancel" /\ s[k] # "cancel" => j = k

Handled == running \in {"spawn", "resume"}

Scheduled == task \in {"scheduled", "checked"}

InFlight == Carries(strand) \/ Handled \/ work = "running" \/ Scheduled

OneToken ==
  /\ Alone(strand)
  /\ Carries(strand) => ~Handled /\ work # "running" /\ ~Scheduled
  /\ Handled => work # "running" /\ ~Scheduled
  /\ work = "running" => ~Scheduled
  /\ resumes > 0 => resumes = 1 /\ ~InFlight
  /\ parent \in {"built", "suspending"} => resumes = 0
  /\ parent \in {"built", "suspending", "resumed", "over"} => ~InFlight

\* A resumption on its way finds the parent alive, or its owner began to
\* destroy it after should_resume() was asked.
Destruction ==
  /\ abandoned /\ (running = "resume" \/ task = "checked") => cut_in
  /\ dead_resume => abandoned /\ cut_in

\* Once the operation has ended it has left a value or an exception.
Outcome ==
  /\ ResumeFindsOutcome
  /\ \/ In(strand, "complete") \/ In(strand, "resume")
     \/ running = "resume" \/ Scheduled
     => result \/ exception

\* A cancellation is recorded, or on its way, for as long as it can matter.
Cancellation ==
  /\ light => ~pending_cancellation /\ ~abandoned
  /\ InFlight => await_started \/ light
  /\ \/ parent \in {"built", "suspending"}
     \/ In(strand, "start") \/ running = "spawn" \/ work = "running"
     => ~finished
  /\ running = "spawn" /\ parent = "destroyed" =>
       pending_cancellation \/ In(strand, "cancel") \/ unsent
  /\ CancellationNotLost

AdapterInv == AdapterTypeOK /\ OneToken /\ Destruction /\ Outcome /\ Cancellation

-----------------------------------------------------------------------------
(* The queue                                                               *)

\* What is known of the queue t that s becomes when h is posted, ...
Pushed(s, h, t) ==
  /\ t \in Seq(Handlers)
  /\ \A x : In(t, x) <=> In(s, x) \/ x = h
  /\ Carries(t) <=> Carries(s) \/ h # "cancel"
  /\ Alone(s) /\ (h = "cancel" \/ ~Carries(s)) => Alone(t)

\* ... and when its front h is taken.
Taken(s, h, t) ==
  /\ t \in Seq(Handlers)
  /\ \A x : In(s, x) <=> In(t, x) \/ x = h
  /\ Carries(s) <=> Carries(t) \/ h # "cancel"
  /\ Alone(s) => Alone(t) /\ (h = "cancel" \/ ~Carries(t))

LEMMA Posting ==
  ASSUME NEW s \in Seq(Handlers), NEW h \in Handlers
  PROVE  Pushed(s, h, Append(s, h))
  <1> DEFINE t == Append(s, h)
  <1>1. /\ t \in Seq(Handlers) /\ Len(t) = Len(s) + 1 /\ Len(s) \in Nat
        /\ \A k \in 1..Len(s) : t[k] = s[k]
        /\ t[Len(s) + 1] = h
    BY AppendProperties, LenProperties
  <1>2. \A k : k \in 1..Len(t) <=> k \in 1..Len(s) \/ k = Len(s) + 1
    BY <1>1
  <1> HIDE DEF t
  <1>3. \A x : In(t, x) <=> In(s, x) \/ x = h
    BY <1>1, <1>2 DEF In
  <1>4. Carries(t) <=> Carries(s) \/ h # "cancel"
    BY <1>1, <1>2 DEF Carries
  <1>5. Alone(s) /\ (h = "cancel" \/ ~Carries(s)) => Alone(t)
    BY <1>1, <1>2 DEF Alone, Carries
  <1>6. QED
    BY <1>1, <1>3, <1>4, <1>5 DEF t, Pushed

LEMMA Handling ==
  ASSUME NEW s \in Seq(Handlers), s # <<>>
  PROVE  Taken(s, Head(s), Tail(s))
  <1> DEFINE t == Tail(s)
  <1>1. /\ t \in Seq(Handlers) /\ Len(s) \in Nat \ {0} /\ Len(t) = Len(s) - 1
        /\ \A k \in 1..Len(t) : t[k] = s[k + 1]
        /\ Head(s) = s[1] /\ Head(s) \in Handlers
    BY HeadTailProperties, EmptySeq, LenProperties
  <1>2. \A k \in 1..Len(s) : k = 1 \/ (k - 1 \in 1..Len(t) /\ t[k - 1] = s[k])
    BY <1>1
  <1>3. 1 \in 1..Len(s) /\ \A k \in 1..Len(t) : k + 1 \in 1..Len(s) /\ k + 1 # 1
    BY <1>1
  <1> HIDE DEF t
  <1>4. \A x : In(s, x) <=> In(t, x) \/ x = Head(s)
    BY <1>1, <1>2, <1>3 DEF In
  <1>5. Carries(s) <=> Carries(t) \/ Head(s) # "cancel"
    BY <1>1, <1>2, <1>3 DEF Carries
  <1>6. ASSUME Alone(s)
        PROVE  Alone(t) /\ (Head(s) = "cancel" \/ ~Carries(t))
    <2>1. Alone(t)
      <3> SUFFICES ASSUME NEW j \in 1..Len(t), NEW k \in 1..Len(t),
                          t[j] # "cancel", t[k] # "cancel"
                   PROVE  j = k
        BY DEF Alone
      <3>1. j + 1 = k + 1
        BY <1>1, <1>3, <1>6 DEF Alone
      <3>2. QED
        BY <3>1, <1>1
    <2>2. Head(s) = "cancel" \/ ~Carries(t)
      BY <1>1, <1>3, <1>6 DEF Alone, Carries
    <2>3. QED
      BY <2>1, <2>2
  <1>7. QED
    BY <1>1, <1>4, <1>5, <1>6 DEF t, Taken

LEMMA EmptyQueue ==
  /\ <<>> \in Seq(Handlers)
  /\ Alone(<<>>) /\ ~Carries(<<>>)
  /\ \A x : ~In(<<>>, x)
  <1>1. <<>> \in Seq(Handlers) /\ Len(<<>>) = 0
    BY EmptySeq
  <1>2. QED
    BY <1>1 DEF Alone, Carries, In

LEMMA TokenPosted ==
  ASSUME NEW s \in Seq(Handlers), NEW h \in Handlers \ {"cancel"}, In(s, h)
  PROVE  Carries(s)
  BY DEF In, Carries, Handlers

LEMMA PostedIn ==
  ASSUME NEW h
  PROVE  (Posted(h) <=> In(strand, h)) /\ (Posted(h)' <=> In(strand', h))
  BY DEF Posted, In

LEMMA AwaitSuspendKeeps ==
  ASSUME AdapterInv, ~light, (light' = light), AwaitSuspend
  PROVE  AdapterInv'
  <1> USE DEF AdapterInv, AdapterTypeOK, Handlers, atomics, outcome, signal, observed,
          AwaitSuspend
  <1>1. AdapterTypeOK'
    BY  DEF Places
  <1>2. OneToken'
    BY TokenPosted DEF OneToken, Handled, Scheduled, InFlight
  <1>3. Destruction'
    BY TokenPosted DEF Destruction, OneToken, InFlight, Scheduled, Handled
  <1>4. Outcome'
    BY TokenPosted DEF Outcome, OneToken, ResumeFindsOutcome, InFlight, Scheduled,
       Handled
  <1>5. Cancellation'
    BY TokenPosted, PostedIn DEF Cancellation, CancellationNotLost, OneToken, InFlight,
       Handled, Scheduled
  <1>6. QED
    BY <1>1, <1>2, <1>3, <1>4, <1>5

LEMMA SuspendPostsKeeps ==
  ASSUME AdapterInv, ~light, (light' = light), SuspendPosts
  PROVE  AdapterInv'
  <1> USE DEF AdapterInv, AdapterTypeOK, Handlers, atomics, outcome, signal, observed,
          SuspendPosts
  <1>1. Pushed(strand, "start", Append(strand, "start"))
    BY Posting
  <1>2. AdapterTypeOK'
    BY <1>1 DEF Places, Pushed
  <1>3. OneToken'
    BY <1>1, TokenPosted DEF OneToken, Handled, Scheduled, InFlight, Pushed
  <1>4. Destruction'
    BY <1>1, TokenPosted DEF Destruction, OneToken, InFlight, Scheduled, Handled, Pushed
  <1>5. Outcome'
    BY <1>1, TokenPosted DEF Outcome, OneToken, ResumeFindsOutcome, InFlight,
       Scheduled, Handled, Pushed
  <1>6. Cancellation'
    BY <1>1, TokenPosted, PostedIn DEF Cancellation, CancellationNotLost, OneToken,
       InFlight, Handled, Scheduled, Pushed
  <1>7. QED
    BY <1>2, <1>3, <1>4, <1>5, <1>6

LEMMA SuspendFailsKeeps ==
  ASSUME AdapterInv, ~light, (light' = light), SuspendFails
  PROVE  AdapterInv'
  <1> USE DEF AdapterInv, AdapterTypeOK, Handlers, atomics, outcome, signal, observed,
          SuspendFails
  <1>1. AdapterTypeOK'
    BY  DEF Places
  <1>2. OneToken'
    BY TokenPosted DEF OneToken, Handled, Scheduled, InFlight
  <1>3. Destruction'
    BY TokenPosted DEF Destruction, OneToken, InFlight, Scheduled, Handled
  <1>4. Outcome'
    BY TokenPosted DEF Outcome, OneToken, ResumeFindsOutcome, InFlight, Scheduled,
       Handled
  <1>5. Cancellation'
    BY TokenPosted, PostedIn DEF Cancellation, CancellationNotLost, OneToken, InFlight,
       Handled, Scheduled
  <1>6. QED
    BY <1>1, <1>2, <1>3, <1>4, <1>5

LEMMA AwaitResumeKeeps ==
  ASSUME AdapterInv, ~light, (light' = light), AwaitResume
  PROVE  AdapterInv'
  <1> USE DEF AdapterInv, AdapterTypeOK, Handlers, atomics, outcome, signal, observed,
          AwaitResume
  <1>1. AdapterTypeOK'
    BY  DEF Places
  <1>2. OneToken'
    BY TokenPosted DEF OneToken, Handled, Scheduled, InFlight
  <1>3. Destruction'
    BY TokenPosted DEF Destruction, OneToken, InFlight, Scheduled, Handled
  <1>4. Outcome'
    BY TokenPosted DEF Outcome, OneToken, ResumeFindsOutcome, InFlight, Scheduled,
       Handled
  <1>5. Cancellation'
    BY TokenPosted, PostedIn DEF Cancellation, CancellationNotLost, OneToken, InFlight,
       Handled, Scheduled
  <1>6. QED
    BY <1>1, <1>2, <1>3, <1>4, <1>5

LEMMA AbandonKeeps ==
  ASSUME AdapterInv, ~light, (light' = light), Abandon
  PROVE  AdapterInv'
  <1> USE DEF AdapterInv, AdapterTypeOK, Handlers, atomics, outcome, signal, observed,
          Abandon
  <1>1. AdapterTypeOK'
    BY  DEF Places
  <1>2. OneToken'
    BY TokenPosted DEF OneToken, Handled, Scheduled, InFlight
  <1>3. Destruction'
    BY TokenPosted DEF Destruction, OneToken, InFlight, Scheduled, Handled
  <1>4. Outcome'
    BY TokenPosted DEF Outcome, OneToken, ResumeFindsOutcome, InFlight, Scheduled,
       Handled
  <1>5. Cancellation'
    BY TokenPosted, PostedIn DEF Cancellation, CancellationNotLost, OneToken, InFlight,
       Handled, Scheduled
  <1>6. QED
    BY <1>1, <1>2, <1>3, <1>4, <1>5

LEMMA AbandonEndsKeeps ==
  ASSUME AdapterInv, ~light, (light' = light), AbandonEnds
  PROVE  AdapterInv'
  <1> USE DEF AdapterInv, AdapterTypeOK, Handlers, atomics, outcome, signal, observed,
          AbandonEnds, AbandonCancels
  <1>1. Pushed(strand, "cancel", Append(strand, "cancel"))
    BY Posting
  <1>2. AdapterTypeOK'
    BY <1>1 DEF Places, Pushed
  <1>3. OneToken'
    BY <1>1, TokenPosted DEF OneToken, Handled, Scheduled, InFlight, Pushed
  <1>4. Destruction'
    BY <1>1, TokenPosted DEF Destruction, OneToken, InFlight, Scheduled, Handled, Pushed
  <1>5. Outcome'
    BY <1>1, TokenPosted DEF Outcome, OneToken, ResumeFindsOutcome, InFlight,
       Scheduled, Handled, Pushed
  <1>6. Cancellation'
    BY <1>1, TokenPosted, PostedIn DEF Cancellation, CancellationNotLost, OneToken,
       InFlight, Handled, Scheduled, Pushed
  <1>7. QED
    BY <1>2, <1>3, <1>4, <1>5, <1>6

LEMMA CancelKeeps ==
  ASSUME AdapterInv, ~light, (light' = light), Cancel
  PROVE  AdapterInv'
  <1> USE DEF AdapterInv, AdapterTypeOK, Handlers, atomics, outcome, signal, observed,
          Cancel
  <1>1. Pushed(strand, "cancel", Append(strand, "cancel"))
    BY Posting
  <1>2. AdapterTypeOK'
    BY <1>1, AdapterAssumption DEF Places, Pushed
  <1>3. OneToken'
    BY <1>1, TokenPosted DEF OneToken, Handled, Scheduled, InFlight, Pushed
  <1>4. Destruction'
    BY <1>1, TokenPosted DEF Destruction, OneToken, InFlight, Scheduled, Handled, Pushed
  <1>5. Outcome'
    BY <1>1, TokenPosted DEF Outcome, OneToken, ResumeFindsOutcome, InFlight,
       Scheduled, Handled, Pushed
  <1>6. Cancellation'
    BY <1>1, TokenPosted, PostedIn DEF Cancellation, CancellationNotLost, OneToken,
       InFlight, Handled, Scheduled, Pushed
  <1>7. QED
    BY <1>2, <1>3, <1>4, <1>5, <1>6

LEMMA StartKeeps ==
  ASSUME AdapterInv, ~light, (light' = light), Start
  PROVE  AdapterInv'
  <1> USE DEF AdapterInv, AdapterTypeOK, Handlers, atomics, outcome, signal, observed,
          Start, Handles
  <1>1. Taken(strand, Head(strand), Tail(strand))
    BY Handling
  <1>2. AdapterTypeOK'
    BY <1>1 DEF Places, Taken
  <1>3. OneToken'
    BY <1>1, TokenPosted DEF OneToken, Handled, Scheduled, InFlight, Taken
  <1>4. Destruction'
    BY <1>1, TokenPosted DEF Destruction, OneToken, InFlight, Scheduled, Handled, Taken
  <1>5. Outcome'
    BY <1>1, TokenPosted DEF Outcome, OneToken, ResumeFindsOutcome, InFlight,
       Scheduled, Handled, Taken
  <1>6. Cancellation'
    BY <1>1, TokenPosted, PostedIn DEF Cancellation, CancellationNotLost, OneToken,
       InFlight, Handled, Scheduled, Taken
  <1>7. QED
    BY <1>2, <1>3, <1>4, <1>5, <1>6

LEMMA SpawnKeeps ==
  ASSUME AdapterInv, ~light, (light' = light), Spawn
  PROVE  AdapterInv'
  <1> USE DEF AdapterInv, AdapterTypeOK, Handlers, atomics, outcome, signal, observed,
          Spawn, Reemitted
  <1>1. AdapterTypeOK'
    BY  DEF Places
  <1>2. OneToken'
    BY TokenPosted DEF OneToken, Handled, Scheduled, InFlight
  <1>3. Destruction'
    BY TokenPosted DEF Destruction, OneToken, InFlight, Scheduled, Handled
  <1>4. Outcome'
    BY TokenPosted DEF Outcome, OneToken, ResumeFindsOutcome, InFlight, Scheduled,
       Handled
  <1>5. Cancellation'
    BY TokenPosted, PostedIn DEF Cancellation, CancellationNotLost, OneToken, InFlight,
       Handled, Scheduled
  <1>6. QED
    BY <1>1, <1>2, <1>3, <1>4, <1>5

LEMMA SpawnFailsKeeps ==
  ASSUME AdapterInv, ~light, (light' = light), SpawnFails
  PROVE  AdapterInv'
  <1> USE DEF AdapterInv, AdapterTypeOK, Handlers, atomics, outcome, signal, observed,
          SpawnFails, PostResume
  <1>1. Pushed(strand, "resume", Append(strand, "resume"))
    BY Posting
  <1>2. AdapterTypeOK'
    BY <1>1 DEF Places, Pushed
  <1>3. OneToken'
    BY <1>1, TokenPosted DEF OneToken, Handled, Scheduled, InFlight, Pushed
  <1>4. Destruction'
    BY <1>1, TokenPosted DEF Destruction, OneToken, InFlight, Scheduled, Handled, Pushed
  <1>5. Outcome'
    BY <1>1, TokenPosted DEF Outcome, OneToken, ResumeFindsOutcome, InFlight,
       Scheduled, Handled, Pushed
  <1>6. Cancellation'
    BY <1>1, TokenPosted, PostedIn DEF Cancellation, CancellationNotLost, OneToken,
       InFlight, Handled, Scheduled, Pushed
  <1>7. QED
    BY <1>2, <1>3, <1>4, <1>5, <1>6

LEMMA WorkEndsKeeps ==
  ASSUME AdapterInv, ~light, (light' = light), WorkEnds
  PROVE  AdapterInv'
  <1> USE DEF AdapterInv, AdapterTypeOK, Handlers, atomics, outcome, signal, observed,
          WorkEnds, Keep
  <1>1. Pushed(strand, "complete", Append(strand, "complete"))
    BY Posting
  <1>2. AdapterTypeOK'
    BY <1>1 DEF Places, Pushed
  <1>3. OneToken'
    BY <1>1, TokenPosted DEF OneToken, Handled, Scheduled, InFlight, Pushed
  <1>4. Destruction'
    BY <1>1, TokenPosted DEF Destruction, OneToken, InFlight, Scheduled, Handled, Pushed
  <1>5. Outcome'
    <2>1. result' \/ exception'
      <3>1. PICK ok \in BOOLEAN : result' = ok /\ exception' = ~ok
        OBVIOUS
      <3>2. QED
        BY <3>1
    <2>2. ~In(strand',
            "resume") /\ running # "resume" /\ ~Scheduled' /\ parent # "resumed"
      BY <1>1, TokenPosted DEF OneToken, InFlight, Scheduled, Handled, Pushed
    <2>3. QED
      BY <2>1, <2>2 DEF Outcome, ResumeFindsOutcome
  <1>6. Cancellation'
    BY <1>1, TokenPosted, PostedIn DEF Cancellation, CancellationNotLost, OneToken,
       InFlight, Handled, Scheduled, Pushed
  <1>7. QED
    BY <1>2, <1>3, <1>4, <1>5, <1>6

LEMMA CompleteKeeps ==
  ASSUME AdapterInv, ~light, (light' = light), Complete
  PROVE  AdapterInv'
  <1> USE DEF AdapterInv, AdapterTypeOK, Handlers, atomics, outcome, signal, observed,
          Complete, Handles, PostResume
  <1>1. Taken(strand, Head(strand), Tail(strand))
    BY Handling
  <1>2. Pushed(Tail(strand), "resume", Append(Tail(strand), "resume"))
    BY <1>1, Posting DEF Taken
  <1>3. AdapterTypeOK'
    BY <1>1, <1>2 DEF Places, Taken, Pushed
  <1>4. OneToken'
    BY <1>1, <1>2, TokenPosted DEF OneToken, Handled, Scheduled, InFlight, Taken, Pushed
  <1>5. Destruction'
    BY <1>1, <1>2, TokenPosted DEF Destruction, OneToken, InFlight, Scheduled, Handled,
       Taken, Pushed
  <1>6. Outcome'
    BY <1>1, <1>2, TokenPosted DEF Outcome, OneToken, ResumeFindsOutcome, InFlight,
       Scheduled, Handled, Taken, Pushed
  <1>7. Cancellation'
    BY <1>1, <1>2, TokenPosted, PostedIn DEF Cancellation, CancellationNotLost,
       OneToken, InFlight, Handled, Scheduled, Taken, Pushed
  <1>8. QED
    BY <1>3, <1>4, <1>5, <1>6, <1>7

LEMMA ResumeParentKeeps ==
  ASSUME AdapterInv, ~light, (light' = light), ResumeParent
  PROVE  AdapterInv'
  <1> USE DEF AdapterInv, AdapterTypeOK, Handlers, atomics, outcome, signal, observed,
          ResumeParent, Handles, should_resume, ScheduleOrResume
  <1>1. Taken(strand, Head(strand), Tail(strand))
    BY Handling
  <1>2. AdapterTypeOK'
    BY <1>1 DEF Places, Taken
  <1>3. OneToken'
    BY <1>1, TokenPosted DEF OneToken, Handled, Scheduled, InFlight, Taken
  <1>4. Destruction'
    BY <1>1, TokenPosted DEF Destruction, OneToken, InFlight, Scheduled, Handled, Taken
  <1>5. Outcome'
    BY <1>1, TokenPosted DEF Outcome, OneToken, ResumeFindsOutcome, InFlight,
       Scheduled, Handled, Taken
  <1>6. Cancellation'
    BY <1>1, TokenPosted, PostedIn DEF Cancellation, CancellationNotLost, OneToken,
       InFlight, Handled, Scheduled, Taken
  <1>7. QED
    BY <1>2, <1>3, <1>4, <1>5, <1>6

LEMMA CancelHandlerKeeps ==
  ASSUME AdapterInv, ~light, (light' = light), CancelHandler
  PROVE  AdapterInv'
  <1> USE DEF AdapterInv, AdapterTypeOK, Handlers, atomics, outcome, signal, observed,
          CancelHandler, Handles
  <1>1. Taken(strand, Head(strand), Tail(strand))
    BY Handling
  <1>2. AdapterTypeOK'
    BY <1>1 DEF Places, Taken
  <1>3. OneToken'
    BY <1>1, TokenPosted DEF OneToken, Handled, Scheduled, InFlight, Taken
  <1>4. Destruction'
    BY <1>1, TokenPosted DEF Destruction, OneToken, InFlight, Scheduled, Handled, Taken
  <1>5. Outcome'
    BY <1>1, TokenPosted DEF Outcome, OneToken, ResumeFindsOutcome, InFlight,
       Scheduled, Handled, Taken
  <1>6. Cancellation'
    BY <1>1, TokenPosted, PostedIn DEF Cancellation, CancellationNotLost, OneToken,
       InFlight, Handled, Scheduled, Taken
  <1>7. QED
    BY <1>2, <1>3, <1>4, <1>5, <1>6

LEMMA StrandResumesKeeps ==
  ASSUME AdapterInv, (light' = light), StrandResumes
  PROVE  AdapterInv'
  <1> USE DEF AdapterInv, AdapterTypeOK, Handlers, atomics, outcome, signal, observed,
          StrandResumes, Resume
  <1>1. AdapterTypeOK'
    BY  DEF Places
  <1>2. OneToken'
    BY TokenPosted DEF OneToken, Handled, Scheduled, InFlight
  <1>3. Destruction'
    BY TokenPosted DEF Destruction, OneToken, InFlight, Scheduled, Handled, Cancellation
  <1>4. Outcome'
    BY TokenPosted DEF Outcome, OneToken, ResumeFindsOutcome, InFlight, Scheduled,
       Handled
  <1>5. Cancellation'
    BY TokenPosted, PostedIn DEF Cancellation, CancellationNotLost, OneToken, InFlight,
       Handled, Scheduled
  <1>6. QED
    BY <1>1, <1>2, <1>3, <1>4, <1>5

LEMMA TaskChecksKeeps ==
  ASSUME AdapterInv, (light' = light), TaskChecks
  PROVE  AdapterInv'
  <1> USE DEF AdapterInv, AdapterTypeOK, Handlers, atomics, outcome, signal, observed,
          TaskChecks, should_resume
  <1>1. AdapterTypeOK'
    BY  DEF Places
  <1>2. OneToken'
    BY TokenPosted DEF OneToken, Handled, Scheduled, InFlight
  <1>3. Destruction'
    BY TokenPosted DEF Destruction, OneToken, InFlight, Scheduled, Handled
  <1>4. Outcome'
    BY TokenPosted DEF Outcome, OneToken, ResumeFindsOutcome, InFlight, Scheduled,
       Handled
  <1>5. Cancellation'
    BY TokenPosted, PostedIn DEF Cancellation, CancellationNotLost, OneToken, InFlight,
       Handled, Scheduled
  <1>6. QED
    BY <1>1, <1>2, <1>3, <1>4, <1>5

LEMMA TaskResumesKeeps ==
  ASSUME AdapterInv, (light' = light), TaskResumes
  PROVE  AdapterInv'
  <1> USE DEF AdapterInv, AdapterTypeOK, Handlers, atomics, outcome, signal, observed,
          TaskResumes, Resume
  <1>1. AdapterTypeOK'
    BY  DEF Places
  <1>2. OneToken'
    BY TokenPosted DEF OneToken, Handled, Scheduled, InFlight
  <1>3. Destruction'
    BY TokenPosted DEF Destruction, OneToken, InFlight, Scheduled, Handled
  <1>4. Outcome'
    BY TokenPosted DEF Outcome, OneToken, ResumeFindsOutcome, InFlight, Scheduled,
       Handled
  <1>5. Cancellation'
    BY TokenPosted, PostedIn DEF Cancellation, CancellationNotLost, OneToken, InFlight,
       Handled, Scheduled
  <1>6. QED
    BY <1>1, <1>2, <1>3, <1>4, <1>5

LEMMA LightSuspendKeeps ==
  ASSUME AdapterInv, light, (light' = light), LightSuspend
  PROVE  AdapterInv'
  <1> USE DEF AdapterInv, AdapterTypeOK, Handlers, atomics, outcome, signal, observed,
          LightSuspend
  <1>1. Pushed(strand, "start", Append(strand, "start"))
    BY Posting
  <1>2. AdapterTypeOK'
    BY <1>1 DEF Places, Pushed
  <1>3. OneToken'
    <2>1. CASE strand' = Append(strand, "start") /\ parent' = "suspended"
      BY <1>1, <2>1, TokenPosted DEF OneToken, Handled, Scheduled, InFlight, Pushed
    <2>2. CASE strand' = strand /\ parent' = "resumed"
      BY <2>2 DEF OneToken, Handled, Scheduled, InFlight
    <2>3. QED
      BY <2>1, <2>2
  <1>4. Destruction'
    BY <1>1, TokenPosted DEF Destruction, OneToken, InFlight, Scheduled, Handled,
       Pushed, Cancellation
  <1>5. Outcome'
    BY <1>1, TokenPosted DEF Outcome, OneToken, ResumeFindsOutcome, InFlight,
       Scheduled, Handled, Pushed
  <1>6. Cancellation'
    BY <1>1, TokenPosted, PostedIn DEF Cancellation, CancellationNotLost, OneToken,
       InFlight, Handled, Scheduled, Pushed
  <1>7. QED
    BY <1>2, <1>3, <1>4, <1>5, <1>6

LEMMA LightAwaitResumeKeeps ==
  ASSUME AdapterInv, light, (light' = light), LightAwaitResume
  PROVE  AdapterInv'
  <1> USE DEF AdapterInv, AdapterTypeOK, Handlers, atomics, outcome, signal, observed,
          LightAwaitResume
  <1>1. AdapterTypeOK'
    BY  DEF Places
  <1>2. OneToken'
    BY TokenPosted DEF OneToken, Handled, Scheduled, InFlight
  <1>3. Destruction'
    BY TokenPosted DEF Destruction, OneToken, InFlight, Scheduled, Handled, Cancellation
  <1>4. Outcome'
    BY TokenPosted DEF Outcome, OneToken, ResumeFindsOutcome, InFlight, Scheduled,
       Handled
  <1>5. Cancellation'
    BY TokenPosted, PostedIn DEF Cancellation, CancellationNotLost, OneToken, InFlight,
       Handled, Scheduled
  <1>6. QED
    BY <1>1, <1>2, <1>3, <1>4, <1>5

LEMMA LightStartKeeps ==
  ASSUME AdapterInv, light, (light' = light), LightStart
  PROVE  AdapterInv'
  <1> USE DEF AdapterInv, AdapterTypeOK, Handlers, atomics, outcome, signal, observed,
          LightStart, Handles, LightPostResume
  <1>1. Taken(strand, Head(strand), Tail(strand))
    BY Handling
  <1>2. Pushed(Tail(strand), "resume", Append(Tail(strand), "resume"))
    BY <1>1, Posting DEF Taken
  <1>3. AdapterTypeOK'
    BY <1>1, <1>2 DEF Places, Taken, Pushed
  <1>4. OneToken'
    BY <1>1, <1>2, TokenPosted DEF OneToken, Handled, Scheduled, InFlight, Taken, Pushed
  <1>5. Destruction'
    BY <1>1, <1>2, TokenPosted DEF Destruction, OneToken, InFlight, Scheduled, Handled,
       Taken, Pushed, Cancellation
  <1>6. Outcome'
    BY <1>1, <1>2, TokenPosted DEF Outcome, OneToken, ResumeFindsOutcome, InFlight,
       Scheduled, Handled, Taken, Pushed
  <1>7. Cancellation'
    BY <1>1, <1>2, TokenPosted, PostedIn DEF Cancellation, CancellationNotLost,
       OneToken, InFlight, Handled, Scheduled, Taken, Pushed
  <1>8. QED
    BY <1>3, <1>4, <1>5, <1>6, <1>7

LEMMA LightWorkEndsKeeps ==
  ASSUME AdapterInv, light, (light' = light), LightWorkEnds
  PROVE  AdapterInv'
  <1> USE DEF AdapterInv, AdapterTypeOK, Handlers, atomics, outcome, signal, observed,
          LightWorkEnds, LightPostResume
  <1>1. Pushed(strand, "resume", Append(strand, "resume"))
    BY Posting
  <1>2. AdapterTypeOK'
    BY <1>1 DEF Places, Pushed
  <1>3. OneToken'
    BY <1>1, TokenPosted DEF OneToken, Handled, Scheduled, InFlight, Pushed
  <1>4. Destruction'
    BY <1>1, TokenPosted DEF Destruction, OneToken, InFlight, Scheduled, Handled,
       Pushed, Cancellation
  <1>5. Outcome'
    <2>1. result' \/ exception'
      <3>1. PICK ok \in BOOLEAN : result' = ok /\ (exception' = ~ok \/ exception' = TRUE)
        OBVIOUS
      <3>2. QED
        BY <3>1
    <2>2. QED
      BY <2>1 DEF Outcome, ResumeFindsOutcome
  <1>6. Cancellation'
    BY <1>1, TokenPosted, PostedIn DEF Cancellation, CancellationNotLost, OneToken,
       InFlight, Handled, Scheduled, Pushed
  <1>7. QED
    BY <1>2, <1>3, <1>4, <1>5, <1>6

LEMMA LightResumesKeeps ==
  ASSUME AdapterInv, light, (light' = light), LightResumes
  PROVE  AdapterInv'
  <1> USE DEF AdapterInv, AdapterTypeOK, Handlers, atomics, outcome, signal, observed,
          LightResumes, Handles
  <1>1. Taken(strand, Head(strand), Tail(strand))
    BY Handling
  <1>2. AdapterTypeOK'
    BY <1>1 DEF Places, Taken
  <1>3. OneToken'
    BY <1>1, TokenPosted DEF OneToken, Handled, Scheduled, InFlight, Taken
  <1>4. Destruction'
    BY <1>1, TokenPosted DEF Destruction, OneToken, InFlight, Scheduled, Handled,
       Taken, Cancellation
  <1>5. Outcome'
    BY <1>1, TokenPosted DEF Outcome, OneToken, ResumeFindsOutcome, InFlight,
       Scheduled, Handled, Taken
  <1>6. Cancellation'
    BY <1>1, TokenPosted, PostedIn DEF Cancellation, CancellationNotLost, OneToken,
       InFlight, Handled, Scheduled, Taken
  <1>7. QED
    BY <1>2, <1>3, <1>4, <1>5, <1>6

-----------------------------------------------------------------------------
(* The theorems                                                            *)

LEMMA AdapterInvInit == AdapterInit => AdapterInv
  <1> SUFFICES ASSUME AdapterInit PROVE AdapterInv
    OBVIOUS
  <1> USE DEF AdapterInit
  <1>1. /\ strand \in Seq(Handlers) /\ Alone(strand) /\ ~Carries(strand)
        /\ \A x : ~In(strand, x)
    BY EmptyQueue
  <1>2. AdapterTypeOK
    <2>1. {await_started, abandoned, resume_observed, finished, result, exception,
           pending_cancellation, emitted, dead_resume, cut_in, unsent} \subseteq BOOLEAN
      OBVIOUS
    <2>2. cancels \in 0..MaxCancels /\ resumes \in Nat
      BY AdapterAssumption
    <2>3. QED
      BY <1>1, <2>1, <2>2 DEF AdapterTypeOK, Places, Handlers
  <1>3. OneToken
    BY <1>1 DEF OneToken, InFlight, Handled, Scheduled
  <1>4. Destruction /\ Outcome
    BY <1>1 DEF Destruction, Outcome, ResumeFindsOutcome, Scheduled
  <1>5. Cancellation
    BY <1>1 DEF Cancellation, CancellationNotLost, InFlight, Handled, Scheduled
  <1>6. QED
    BY <1>2, <1>3, <1>4, <1>5 DEF AdapterInv

LEMMA AdapterInvUnchanged == AdapterInv /\ UNCHANGED adapterVars => AdapterInv'
  BY DEF AdapterInv, adapterVars, atomics, outcome, signal, observed, AdapterTypeOK,
     OneToken, InFlight,
     Handled, Scheduled, Destruction, Outcome, ResumeFindsOutcome, Cancellation,
     CancellationNotLost, Posted

LEMMA AdapterInvNext == AdapterInv /\ [AdapterNext]_adapterVars => AdapterInv'
  <1> SUFFICES ASSUME AdapterInv, [AdapterNext]_adapterVars PROVE AdapterInv'
    OBVIOUS
  <1>1. CASE light /\ ParentStep /\ UNCHANGED light
    BY <1>1, LightSuspendKeeps, LightAwaitResumeKeeps DEF ParentStep
  <1>2. CASE ~light /\ ParentStep /\ UNCHANGED light
    BY <1>2, AwaitSuspendKeeps, SuspendPostsKeeps, SuspendFailsKeeps, AwaitResumeKeeps,
       AbandonEndsKeeps DEF ParentStep
  <1>3. CASE OwnerActs /\ UNCHANGED light
    BY <1>3, AbandonKeeps, CancelKeeps DEF OwnerActs
  <1>4. CASE light /\ Handler /\ UNCHANGED light
    BY <1>4, LightStartKeeps, LightResumesKeeps, StrandResumesKeeps DEF Handler
  <1>5. CASE ~light /\ Handler /\ UNCHANGED light
    BY <1>5, StartKeeps, SpawnKeeps, SpawnFailsKeeps, CompleteKeeps, ResumeParentKeeps,
       CancelHandlerKeeps, StrandResumesKeeps DEF Handler
  <1>6. CASE OperationEnds /\ UNCHANGED light
    BY <1>6, LightWorkEndsKeeps, WorkEndsKeeps DEF OperationEnds
  <1>7. CASE TaskStep /\ UNCHANGED light
    BY <1>7, TaskChecksKeeps, TaskResumesKeeps DEF TaskStep
  <1>8. CASE Terminated \/ UNCHANGED adapterVars
    BY <1>8, AdapterInvUnchanged DEF Terminated
  <1>9. QED
    BY <1>1, <1>2, <1>3, <1>4, <1>5, <1>6, <1>7, <1>8 DEF AdapterNext

LEMMA AdapterInductive == AdapterSpec => []AdapterInv
  BY AdapterInvInit, AdapterInvNext, PTL DEF AdapterSpec

\* The flags that the threads share always tell where the parent is, in
\* whatever order the handlers, the executor and the owner run.
THEOREM AdapterTypeCorrect == AdapterSpec => []AdapterTypeOK
  <1>1. AdapterInv => AdapterTypeOK
    BY DEF AdapterInv
  <1>2. QED
    BY <1>1, AdapterInductive, PTL

\* handle.resume() is called at most once, and for a parent that is destroyed
\* only when its owner came between should_resume() and the call.
THEOREM IsResumedAtMostOnce == AdapterSpec => []ResumedAtMostOnce
  <1>1. AdapterInv => ResumedAtMostOnce
    BY DEF AdapterInv, AdapterTypeOK, OneToken, Destruction, ResumedAtMostOnce
  <1>2. QED
    BY <1>1, AdapterInductive, PTL

\* await_resume() never throws "missing safe asio result".
THEOREM OutcomeIsThere == AdapterSpec => []ResumeFindsOutcome
  <1>1. AdapterInv => ResumeFindsOutcome
    BY DEF AdapterInv, Outcome
  <1>2. QED
    BY <1>1, AdapterInductive, PTL

\* However often cancel() is called, and whenever: a requested cancellation
\* reaches the coroutine, and the operation of a destroyed parent is cancelled.
THEOREM CancellationIsKept == AdapterSpec => []CancellationNotLost
  <1>1. AdapterInv => CancellationNotLost
    BY DEF AdapterInv, Cancellation
  <1>2. QED
    BY <1>1, AdapterInductive, PTL
=============================================================================
