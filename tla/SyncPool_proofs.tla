---------------------------- MODULE SyncPool_proofs ----------------------------
(***************************************************************************)
(* Proofs about SyncPool for any number of threads and connections and any *)
(* size of the pool.                                                       *)
(*                                                                         *)
(* The once_flag makes init() the work of one thread (Once); what it       *)
(* pushed, what callers hold and what was lost adds up (Counting); every   *)
(* connection has one owner (Ownership).  When no one calls get() before   *)
(* init() has returned, there are at least as many wake-ups under way as   *)
(* idle connections for as long as a thread waits (Wakeups).               *)
(***************************************************************************)
EXTENDS SyncPool, FiniteSetTheorems, SequenceTheorems, TLAPS

InInit == {"init", "pushing"}

Once ==
  /\ \A t, u \in Threads : pc[t] \in InInit /\ pc[u] \in InInit => t = u
  /\ \A t \in Threads : pc[t] \in InInit => flag_ = "running"
  /\ \A t \in Threads : pc[t] = "pushing" => filled < MaxSize

Counting ==
  /\ flag_ = "unset" => Total + lost = leftover
  /\ \A t \in Threads : /\ pc[t] = "init" => Total + lost = leftover + filled
                        /\ pc[t] = "pushing" => Total + lost = leftover + filled + 1
  /\ Conservation

Elements(s) == {s[k] : k \in 1..Len(s)}

NoRepeat(s) == \A j, k \in 1..Len(s) : s[j] = s[k] => j = k

Ownership ==
  /\ NoRepeat(pool_)
  /\ \A t, u \in Threads : conn[t] = conn[u] /\ conn[t] # NoConn => t = u
  /\ \A t \in Threads : conn[t] \notin Elements(pool_)

\* A wake-up is under way: notify_one() is about to be called, or woke someone.
Bringing == {t \in Threads : pc[t] \in {"notifying", "notified"}}

Wakeups ==
  /\ \A t \in Threads : pc[t] \in {"idle"} \cup InInit \/ flag_ = "set"
  /\ missed \/ Waiting = {} \/ Len(pool_) <= Cardinality(Bringing)

IInv == TypeOK /\ Once /\ Counting /\ Ownership

-----------------------------------------------------------------------------
(* Types: a thread has a connection in hand exactly where the code does.   *)

LEMMA TypeOKInit == Init => TypeOK
  <1> SUFFICES ASSUME Init PROVE TypeOK
    OBVIOUS
  <1>1. Holding = {t \in Threads : pc[t] \in {"pushing", "popped", "creating", "using"}}
    BY DEF Init, Holding
  <1>2. filled \in 0..MaxSize /\ leftover \in Nat /\ lost \in Nat
    BY PoolAssumption DEF Init
  <1>3. {server_up, missed, raced} \subseteq BOOLEAN
    BY DEF Init
  <1>4. QED
    BY <1>1, <1>2, <1>3 DEF Init, TypeOK, Places

\* What the loop of get() does to the pool.
LEMMA TypeOKTake ==
  ASSUME TypeOK, NEW t \in Threads, pc[t] \in {"idle", "notified"}, TakeOrWait(t)
  PROVE  TypeOK'
  <1> USE PoolAssumption DEF TypeOK, Places, TakeOrWait, Goto, UsesPool
  <1>1. CASE pool_ = <<>> /\ Goto(t, "waiting") /\ UNCHANGED <<pool_, conn>>
    BY <1>1 DEF Holding
  <1>2. CASE pool_ # <<>> /\ Goto(t, "popped") /\ PopFront(t)
    <2>1. Head(pool_) \in Conn /\ Tail(pool_) \in Seq(Conn)
      BY <1>2, HeadTailProperties
    <2>2. QED
      BY <1>2, <2>1 DEF PopFront, Hold, Holding
  <1>3. QED
    BY <1>1, <1>2

LEMMA TypeOKNext == TypeOK /\ Once /\ [Next]_vars => TypeOK'
  <1> SUFFICES ASSUME TypeOK, Once, [Next]_vars PROVE TypeOK'
    OBVIOUS
  <1> USE PoolAssumption
      DEF TypeOK, Places, Holding, Goto, Hold, pool, history
  <1>1. ASSUME NEW t \in Threads, InitCall(t) PROVE TypeOK'
    BY <1>1 DEF InitCall
  <1>2. ASSUME NEW t \in Threads, InitConnects(t) PROVE TypeOK'
    BY <1>2 DEF InitConnects, Closed
  <1>3. ASSUME NEW t \in Threads, InitPush(t) PROVE TypeOK'
    <2>1. conn[t] \in Conn
      BY <1>3 DEF InitPush
    <2>2. Append(pool_, conn[t]) \in Seq(Conn)
      BY <2>1, AppendProperties
    <2>3. QED
      BY <1>3, <2>1, <2>2 DEF InitPush, Once
  <1>4. ASSUME NEW t \in Threads, InitThrows(t) PROVE TypeOK'
    BY <1>4 DEF InitThrows
  <1>5. ASSUME NEW t \in Threads, InitReturns(t) PROVE TypeOK'
    BY <1>5 DEF InitReturns
  <1>6. ASSUME NEW t \in Threads, TimesOut(t) PROVE TypeOK'
    BY <1>6 DEF TimesOut
  <1>7. ASSUME NEW t \in Threads, TimesOutNotified(t) PROVE TypeOK'
    BY <1>7 DEF TimesOutNotified
  <1>8. ASSUME NEW t \in Threads, HandsOut(t) PROVE TypeOK'
    BY <1>8 DEF HandsOut
  <1>9. ASSUME NEW t \in Threads, Refuses(t) PROVE TypeOK'
    BY <1>9 DEF Refuses
  <1>10. ASSUME NEW t \in Threads, Creates(t) PROVE TypeOK'
    BY <1>10 DEF Creates, Closed
  <1>11. ASSUME NEW t \in Threads, CreateFails(t) PROVE TypeOK'
    BY <1>11 DEF CreateFails
  <1>12. ASSUME NEW t \in Threads, Returns(t) PROVE TypeOK'
    <2>1. conn[t] \in Conn
      BY <1>12 DEF Returns
    <2>2. Append(pool_, conn[t]) \in Seq(Conn)
      BY <2>1, AppendProperties
    <2>3. QED
      BY <1>12, <2>1, <2>2 DEF Returns, UsesPool, PushBack
  <1>13. ASSUME NEW t \in Threads, Notifies(t) PROVE TypeOK'
    BY <1>13 DEF Notifies, NotifyOne, Waiting
  <1>14. ASSUME NEW t \in Threads, Get(t) \/ Wakes(t) PROVE TypeOK'
    BY <1>14, TypeOKTake DEF Get, Wakes
  <1>15. CASE ServerFlips \/ UNCHANGED vars
    BY <1>15 DEF ServerFlips, vars
  <1>16. QED
    BY <1>1, <1>2, <1>3, <1>4, <1>5, <1>6, <1>7, <1>8, <1>9, <1>10, <1>11, <1>12, <1>13, <1>14, <1>15
    DEF Next, InitStep, GetStep, ReturnStep

-----------------------------------------------------------------------------
(* init() runs in one thread at a time.                                    *)

\* What get() and the deleter leave alone.
LEMMA LeavesInit ==
  ASSUME TypeOK, NEW t \in Threads, Get(t) \/ GetStep(t) \/ ReturnStep(t)
  PROVE  /\ UNCHANGED <<flag_, filled, leftover, server_up>>
         /\ \A u \in Threads : pc'[u] \in InInit <=> pc[u] \in InInit
         /\ \A u \in Threads : pc[u] \in InInit => pc'[u] = pc[u]
  <1> USE DEF TypeOK, InInit, Goto, pool, history
  <1>1. UNCHANGED <<flag_, filled, leftover, server_up>>
    BY DEF Get, GetStep, ReturnStep, Wakes, TakeOrWait, TimesOut, TimesOutNotified,
       HandsOut, Refuses, Creates, CreateFails, Returns, Notifies
  <1>2. /\ \A u \in Threads : pc'[u] \in InInit <=> pc[u] \in InInit
        /\ \A u \in Threads : pc[u] \in InInit => pc'[u] = pc[u]
    <2>1. CASE Get(t) \/ Wakes(t)
      BY <2>1 DEF Get, Wakes, TakeOrWait
    <2>2. CASE Notifies(t)
      BY <2>2 DEF Notifies, NotifyOne, Waiting
    <2>3. CASE TimesOut(t) \/ TimesOutNotified(t) \/ HandsOut(t) \/ Refuses(t)
               \/ Creates(t) \/ CreateFails(t) \/ Returns(t)
      BY <2>3 DEF TimesOut, TimesOutNotified, HandsOut, Refuses, Creates, CreateFails,
         Returns
    <2>4. QED
      BY <2>1, <2>2, <2>3 DEF GetStep, ReturnStep
  <1>3. QED
    BY <1>1, <1>2

LEMMA OnceNext == TypeOK /\ Once /\ [Next]_vars => Once'
  <1> SUFFICES ASSUME TypeOK, Once, [Next]_vars PROVE Once'
    OBVIOUS
  <1> USE PoolAssumption DEF TypeOK, Once, InInit, Goto, pool
  <1>1. ASSUME NEW t \in Threads, InitCall(t) PROVE Once'
    BY <1>1 DEF InitCall
  <1>2. ASSUME NEW t \in Threads, InitStep(t) PROVE Once'
    BY <1>2 DEF InitStep, InitConnects, InitPush, InitThrows, InitReturns
  <1>3. ASSUME NEW t \in Threads, Get(t) \/ GetStep(t) \/ ReturnStep(t)
        PROVE  Once'
    BY <1>3, LeavesInit
  <1>4. CASE ServerFlips \/ UNCHANGED vars
    BY <1>4 DEF ServerFlips, vars
  <1>5. QED
    BY <1>1, <1>2, <1>3, <1>4 DEF Next

-----------------------------------------------------------------------------
(* Counting                                                                *)

LEMMA HoldingFinite ==
  ASSUME TypeOK
  PROVE  /\ IsFiniteSet(Holding) /\ Cardinality(Holding) \in Nat
         /\ Len(pool_) \in Nat /\ Total \in Nat
  <1>1. IsFiniteSet(Holding)
    BY PoolAssumption, FS_Subset DEF Holding
  <1>2. Cardinality(Holding) \in Nat
    BY <1>1, FS_CardinalityType
  <1>3. Len(pool_) \in Nat
    BY LenProperties DEF TypeOK
  <1>4. QED
    BY <1>1, <1>2, <1>3 DEF Total

\* A connection enters a thread's hands, ...
LEMMA HoldingGains ==
  ASSUME TypeOK, NEW t \in Threads, conn[t] = NoConn,
         NEW c \in Conn, Hold(t, c)
  PROVE  Cardinality(Holding') = Cardinality(Holding) + 1
  <1>1. Holding' = Holding \cup {t} /\ t \notin Holding
    BY PoolAssumption DEF Holding, Hold, TypeOK
  <1>2. QED
    BY <1>1, HoldingFinite, FS_AddElement

\* ... leaves them, ...
LEMMA HoldingLoses ==
  ASSUME TypeOK, NEW t \in Threads, conn[t] # NoConn, Hold(t, NoConn)
  PROVE  Cardinality(Holding') = Cardinality(Holding) - 1
  <1>1. Holding' = Holding \ {t} /\ t \in Holding
    BY PoolAssumption DEF Holding, Hold, TypeOK
  <1>2. QED
    BY <1>1, HoldingFinite, FS_RemoveElement

\* ... or is replaced there.
LEMMA HoldingKeeps ==
  ASSUME TypeOK, NEW t \in Threads, conn[t] # NoConn,
         NEW c \in Conn, Hold(t, c)
  PROVE  Holding' = Holding
  BY PoolAssumption DEF Holding, Hold, TypeOK

LEMMA PushLength ==
  ASSUME TypeOK, NEW c \in Conn
  PROVE  Len(Append(pool_, c)) = Len(pool_) + 1
  BY AppendProperties DEF TypeOK

LEMMA PopLength ==
  ASSUME TypeOK, pool_ # <<>>
  PROVE  /\ Head(pool_) \in Conn
         /\ Len(Tail(pool_)) = Len(pool_) - 1
         /\ Len(pool_) > 0
  BY HeadTailProperties, EmptySeq DEF TypeOK

\* Between init()s the sum of Total and lost does not change.
LEMMA Conserved ==
  ASSUME TypeOK, NEW t \in Threads, Get(t) \/ GetStep(t) \/ ReturnStep(t)
  PROVE  Total' + lost' = Total + lost
  <1> USE PoolAssumption, HoldingFinite DEF pool, history
  <1>1. CASE Get(t) \/ Wakes(t)
    <2>1. TakeOrWait(t) /\ pc[t] \in {"idle", "notified"}
      BY <1>1 DEF Get, Wakes
    <2>2. CASE pool_ = <<>> /\ UNCHANGED <<pool_, conn>>
      BY <2>1, <2>2 DEF TakeOrWait, Total, Holding
    <2>3. CASE pool_ # <<>> /\ PopFront(t)
      <3>1. conn[t] = NoConn
        BY <2>1 DEF TypeOK, Holding
      <3>2. Cardinality(Holding') = Cardinality(Holding) + 1
        BY <2>3, <3>1, PopLength, HoldingGains DEF PopFront
      <3>3. Len(pool_') = Len(pool_) - 1 /\ lost' = lost
        BY <2>1, <2>3, PopLength DEF PopFront, TakeOrWait
      <3>4. QED
        BY <3>2, <3>3 DEF Total, TypeOK
    <2>4. QED
      BY <2>1, <2>2, <2>3 DEF TakeOrWait
  <1>2. CASE Creates(t)
    <2>1. conn[t] # NoConn /\ \E c \in Conn : Hold(t, c)
      BY <1>2 DEF Creates, Closed, TypeOK, Holding
    <2>2. Holding' = Holding
      BY <2>1, HoldingKeeps
    <2>3. QED
      BY <1>2, <2>2 DEF Creates, Total
  <1>3. CASE CreateFails(t)
    <2>1. conn[t] # NoConn
      BY <1>3 DEF CreateFails, TypeOK, Holding
    <2>2. Cardinality(Holding') = Cardinality(Holding) - 1
      BY <1>3, <2>1, HoldingLoses DEF CreateFails
    <2>3. QED
      BY <1>3, <2>2 DEF CreateFails, Total, TypeOK
  <1>4. CASE Returns(t)
    <2>1. conn[t] # NoConn /\ conn[t] \in Conn
      BY <1>4 DEF Returns, TypeOK, Holding
    <2>2. Cardinality(Holding') = Cardinality(Holding) - 1
      BY <1>4, <2>1, HoldingLoses DEF Returns
    <2>3. Len(pool_') = Len(pool_) + 1
      BY <1>4, <2>1, PushLength DEF Returns, PushBack
    <2>4. QED
      BY <1>4, <2>2, <2>3 DEF Returns, Total, TypeOK
  <1>5. CASE TimesOut(t) \/ TimesOutNotified(t) \/ HandsOut(t) \/ Refuses(t) \/ Notifies(t)
    BY <1>5 DEF TimesOut, TimesOutNotified, HandsOut, Refuses, Notifies, Total, Holding
  <1>6. QED
    BY <1>1, <1>2, <1>3, <1>4, <1>5 DEF GetStep, ReturnStep

LEMMA CountingInit == Init => Counting
  <1> SUFFICES ASSUME Init PROVE Counting
    OBVIOUS
  <1>1. Holding = {} /\ Len(pool_) = 0
    BY EmptySeq DEF Init, Holding
  <1>2. Total = 0
    BY <1>1, FS_EmptySet DEF Total
  <1>3. QED
    BY <1>2 DEF Init, Counting, Conservation

LEMMA CountingNext == TypeOK /\ Once /\ Counting /\ [Next]_vars => Counting'
  <1> SUFFICES ASSUME TypeOK, Once, Counting, [Next]_vars PROVE Counting'
    OBVIOUS
  <1> USE HoldingFinite DEF Counting, Conservation, InInit, Once, Goto, pool, history
  <1>1. ASSUME NEW t \in Threads, InitCall(t) PROVE Counting'
    <2>1. Total' = Total
      BY <1>1 DEF InitCall, Total, Holding
    <2>2. QED
      BY <1>1, <2>1 DEF InitCall, TypeOK
  <1>2. ASSUME NEW t \in Threads, InitConnects(t) PROVE Counting'
    <2>1. Cardinality(Holding') = Cardinality(Holding) + 1
      <3>1. conn[t] = NoConn /\ \E c \in Conn : Hold(t, c)
        BY <1>2 DEF InitConnects, Closed, TypeOK, Holding
      <3>2. QED
        BY <3>1, HoldingGains
    <2>2. Total' = Total + 1
      BY <1>2, <2>1 DEF InitConnects, Total
    <2>3. QED
      BY <1>2, <2>2 DEF InitConnects, TypeOK
  <1>3. ASSUME NEW t \in Threads, InitPush(t) PROVE Counting'
    <2>1. conn[t] # NoConn /\ conn[t] \in Conn
      BY <1>3 DEF InitPush, TypeOK, Holding
    <2>2. Cardinality(Holding') = Cardinality(Holding) - 1
      BY <1>3, <2>1, HoldingLoses DEF InitPush
    <2>3. Len(pool_') = Len(pool_) + 1
      BY <1>3, <2>1, PushLength DEF InitPush
    <2>4. Total' = Total
      BY <2>2, <2>3 DEF Total
    <2>5. QED
      BY <1>3, <2>4 DEF InitPush, TypeOK
  <1>4. ASSUME NEW t \in Threads, InitThrows(t) \/ InitReturns(t) PROVE Counting'
    <2>1. Total' = Total
      BY <1>4 DEF InitThrows, InitReturns, Total, Holding
    <2>2. QED
      BY <1>4, <2>1 DEF InitThrows, InitReturns, TypeOK
  <1>5. ASSUME NEW t \in Threads, Get(t) \/ GetStep(t) \/ ReturnStep(t)
        PROVE  Counting'
    BY <1>5, LeavesInit, Conserved
  <1>6. CASE ServerFlips \/ UNCHANGED vars
    BY <1>6 DEF ServerFlips, vars, Total, Holding
  <1>7. QED
    BY <1>1, <1>2, <1>3, <1>4, <1>5, <1>6 DEF Next, InitStep

-----------------------------------------------------------------------------
(* Ownership                                                               *)

LEMMA FrontPopped ==
  ASSUME NEW s \in Seq(Conn), s # <<>>, NoRepeat(s)
  PROVE  /\ NoRepeat(Tail(s))
         /\ Elements(Tail(s)) = Elements(s) \ {Head(s)}
         /\ Head(s) \in Elements(s) /\ Head(s) \in Conn
  <1>1. /\ Len(Tail(s)) = Len(s) - 1 /\ Len(s) \in Nat \ {0}
        /\ \A k \in 1..Len(s) - 1 : Tail(s)[k] = s[k + 1]
        /\ Head(s) = s[1] /\ s[1] \in Conn
    BY HeadTailProperties, EmptySeq
  <1>2. NoRepeat(Tail(s)) /\ Head(s) \in Elements(s)
    BY <1>1 DEF NoRepeat, Elements
  <1>3. ASSUME NEW x \in Elements(Tail(s)) PROVE x \in Elements(s) \ {Head(s)}
    BY <1>1, <1>3 DEF Elements, NoRepeat
  <1>4. ASSUME NEW x \in Elements(s), x # Head(s) PROVE x \in Elements(Tail(s))
    <2>1. PICK k \in 1..Len(s) : s[k] = x
      BY DEF Elements
    <2>2. k - 1 \in 1..Len(s) - 1 /\ Tail(s)[k - 1] = x
      BY <1>1, <1>4, <2>1
    <2>3. QED
      BY <1>1, <2>2 DEF Elements
  <1>5. QED
    BY <1>1, <1>2, <1>3, <1>4

LEMMA BackPushed ==
  ASSUME NEW s \in Seq(Conn), NEW x \in Conn, NoRepeat(s), x \notin Elements(s)
  PROVE  /\ NoRepeat(Append(s, x))
         /\ Elements(Append(s, x)) = Elements(s) \cup {x}
  <1>1. /\ Len(Append(s, x)) = Len(s) + 1 /\ Len(s) \in Nat
        /\ \A k \in 1..Len(s) : Append(s, x)[k] = s[k]
        /\ Append(s, x)[Len(s) + 1] = x
    BY AppendProperties
  <1>2. NoRepeat(Append(s, x))
    BY <1>1 DEF NoRepeat, Elements
  <1>3. Elements(Append(s, x)) = Elements(s) \cup {x}
    BY <1>1 DEF Elements
  <1>4. QED
    BY <1>2, <1>3

LEMMA PoolElements ==
  ASSUME TypeOK
  PROVE  /\ ToSet(pool_) = Elements(pool_)
         /\ Elements(pool_) \subseteq Conn
         /\ Open = Elements(pool_) \cup {conn[t] : t \in Holding}
  <1>1. DOMAIN pool_ = 1..Len(pool_) /\ \A k \in 1..Len(pool_) : pool_[k] \in Conn
    BY LenProperties, ElementOfSeq DEF TypeOK
  <1>2. ToSet(pool_) = Elements(pool_)
    BY <1>1 DEF ToSet, Elements
  <1>3. QED
    BY <1>1, <1>2 DEF Open, Holding, Elements

\* A thread that is given a connection no one has.
LEMMA OwnsNew ==
  ASSUME TypeOK, Ownership, NEW t \in Threads, NEW c \in Closed, Hold(t, c),
         UNCHANGED pool_
  PROVE  Ownership'
  <1>1. c \in Conn /\ c \notin Elements(pool_) /\ \A u \in Threads : conn[u] # c
    BY PoolElements, PoolAssumption DEF Closed, Holding
  <1>2. QED
    BY <1>1 DEF Ownership, Hold, TypeOK

\* A thread that puts its connection into the pool.
LEMMA OwnsPush ==
  ASSUME TypeOK, Ownership, NEW t \in Threads, conn[t] # NoConn, Hold(t, NoConn),
         pool_' = Append(pool_, conn[t])
  PROVE  Ownership'
  <1>1. conn[t] \in Conn /\ conn[t] \notin Elements(pool_)
    BY DEF TypeOK, Ownership
  <1>2. /\ NoRepeat(pool_')
        /\ Elements(pool_') = Elements(pool_) \cup {conn[t]}
    BY <1>1, BackPushed DEF TypeOK, Ownership
  <1>3. NoConn \notin Elements(pool_')
    BY <1>1, <1>2, PoolElements, PoolAssumption
  <1>4. QED
    BY <1>2, <1>3 DEF Ownership, Hold, TypeOK

LEMMA OwnsPop ==
  ASSUME TypeOK, Ownership, NEW t \in Threads, conn[t] = NoConn, pool_ # <<>>,
         PopFront(t)
  PROVE  Ownership'
  <1>1. /\ NoRepeat(pool_')
        /\ Elements(pool_') = Elements(pool_) \ {Head(pool_)}
        /\ Head(pool_) \in Elements(pool_)
    BY FrontPopped DEF TypeOK, Ownership, PopFront
  <1>2. QED
    BY <1>1 DEF Ownership, PopFront, Hold, TypeOK

LEMMA OwnershipInit == Init => Ownership
  BY EmptySeq DEF Init, Ownership, NoRepeat, Elements

LEMMA OwnershipNext == TypeOK /\ Ownership /\ [Next]_vars => Ownership'
  <1> SUFFICES ASSUME TypeOK, Ownership, [Next]_vars PROVE Ownership'
    OBVIOUS
  <1>1. ASSUME NEW t \in Threads, InitConnects(t) \/ Creates(t) PROVE Ownership'
    <2>1. UNCHANGED pool_ /\ \E c \in Closed : Hold(t, c)
      BY <1>1 DEF InitConnects, Creates, pool
    <2>2. QED
      BY <2>1, OwnsNew
  <1>2. ASSUME NEW t \in Threads, InitPush(t) \/ Returns(t) PROVE Ownership'
    <2>1. conn[t] # NoConn /\ Hold(t, NoConn) /\ pool_' = Append(pool_, conn[t])
      BY <1>2 DEF InitPush, Returns, PushBack, TypeOK, Holding
    <2>2. QED
      BY <2>1, OwnsPush
  <1>3. ASSUME NEW t \in Threads, Get(t) \/ Wakes(t) PROVE Ownership'
    <2>1. TakeOrWait(t) /\ pc[t] \in {"idle", "notified"} /\ conn[t] = NoConn
      BY <1>3 DEF Get, Wakes, TypeOK, Holding
    <2>2. CASE UNCHANGED <<pool_, conn>>
      BY <2>2 DEF Ownership
    <2>3. CASE pool_ # <<>> /\ PopFront(t)
      BY <2>1, <2>3, OwnsPop
    <2>4. QED
      BY <2>1, <2>2, <2>3 DEF TakeOrWait
  <1>4. ASSUME NEW t \in Threads, CreateFails(t) PROVE Ownership'
    <2>1. UNCHANGED pool_ /\ Hold(t, NoConn)
      BY <1>4 DEF CreateFails, pool
    <2>2. NoConn \notin Elements(pool_)
      BY PoolElements, PoolAssumption
    <2>3. QED
      BY <2>1, <2>2 DEF Ownership, Hold, TypeOK
  <1>5. ASSUME NEW t \in Threads,
               \/ InitCall(t) \/ InitThrows(t) \/ InitReturns(t) \/ TimesOut(t)
               \/ TimesOutNotified(t) \/ HandsOut(t) \/ Refuses(t) \/ Notifies(t)
        PROVE  UNCHANGED <<pool_, conn>>
    BY <1>5 DEF InitCall, InitThrows, InitReturns, TimesOut, TimesOutNotified, HandsOut,
       Refuses, Notifies, pool
  <1>6. CASE ServerFlips \/ UNCHANGED vars
    BY <1>6 DEF ServerFlips, vars, pool, Ownership
  <1>7. UNCHANGED <<pool_, conn>> => Ownership'
    BY DEF Ownership
  <1>8. QED
    BY <1>1, <1>2, <1>3, <1>4, <1>5, <1>6, <1>7 DEF Next, InitStep, GetStep, ReturnStep

-----------------------------------------------------------------------------
(* Wake-ups                                                                *)

LEMMA BringingFinite ==
  ASSUME TypeOK
  PROVE  IsFiniteSet(Bringing) /\ Cardinality(Bringing) \in Nat
  BY PoolAssumption, FS_Subset, FS_CardinalityType DEF Bringing

LEMMA WakeupsInit == Init => Wakeups
  BY DEF Init, Wakeups, Waiting

\* The pool is set up before any thread can wait for it.
LEMMA WakeupsInitStep ==
  ASSUME TypeOK, Once, Wakeups, NEW t \in Threads, InitCall(t) \/ InitStep(t)
  PROVE  Wakeups'
  <1> USE DEF TypeOK, Once, InInit, Goto, pool, history, InitCall, InitStep,
              InitConnects, InitPush, InitThrows, InitReturns
  <1>1. flag_ # "set" /\ pc'[t] \in {"idle"} \cup InInit
    OBVIOUS
  <1>2. \A u \in Threads : pc'[u] \in {"idle"} \cup InInit
    BY <1>1 DEF Wakeups
  <1>3. QED
    BY <1>2 DEF Wakeups, Waiting

LEMMA WakeupsTake ==
  ASSUME TypeOK, Wakeups, NEW t \in Threads, flag_ = "set",
         pc[t] \in {"idle", "notified"}, TakeOrWait(t)
  PROVE  Wakeups'
  <1> USE BringingFinite DEF TakeOrWait, Goto
  <1>1. flag_' = "set" /\ missed' = missed
    OBVIOUS
  <1>2. CASE pool_ = <<>> /\ UNCHANGED pool_
    <2>1. IsFiniteSet(Bringing') /\ Cardinality(Bringing') \in Nat /\ Len(pool_') = 0
      <3>1. Bringing' \subseteq Threads
        BY DEF Bringing
      <3>2. QED
        BY <1>2, <3>1, PoolAssumption, FS_Subset, FS_CardinalityType, EmptySeq
    <2>2. QED
      BY <1>1, <2>1 DEF Wakeups
  <1>3. CASE pool_ # <<>> /\ Goto(t, "popped") /\ PopFront(t)
    <2>1. Len(pool_') = Len(pool_) - 1 /\ Len(pool_) \in Nat
      BY <1>3, PopLength, HoldingFinite DEF PopFront
    <2>2. Waiting' = Waiting /\ Bringing' = Bringing \ {t}
      BY <1>3 DEF TypeOK, Waiting, Bringing
    <2>3. Cardinality(Bringing') \in Nat
          /\ Cardinality(Bringing') >= Cardinality(Bringing) - 1
      <3>1. CASE t \in Bringing
        <4>1. /\ IsFiniteSet(Bringing \ {t})
              /\ Cardinality(Bringing \ {t}) = Cardinality(Bringing) - 1
          BY <3>1, FS_RemoveElement
        <4>2. Cardinality(Bringing \ {t}) \in Nat
          BY <4>1, FS_CardinalityType
        <4>3. QED
          BY <2>2, <4>1, <4>2
      <3>2. CASE t \notin Bringing
        <4>1. Bringing' = Bringing
          BY <3>2, <2>2
        <4>2. QED
          BY <4>1
      <3>3. QED
        BY <3>1, <3>2
    <2>4. missed' \/ Waiting' = {} \/ Len(pool_') <= Cardinality(Bringing')
      BY <1>1, <2>1, <2>2, <2>3 DEF Wakeups
    <2>5. QED
      BY <1>1, <2>4 DEF Wakeups
  <1>4. QED
    BY <1>2, <1>3

LEMMA WakeupsNotify ==
  ASSUME TypeOK, Wakeups, NEW t \in Threads, Notifies(t)
  PROVE  Wakeups'
  <1> USE BringingFinite DEF Notifies, NotifyOne, Goto, pool, history
  <1>1. UNCHANGED <<pool_, flag_, missed>>
    OBVIOUS
  <1>2. CASE Waiting = {} /\ Goto(t, "idle")
    <2>1. Waiting' = {}
      BY <1>2 DEF Waiting, TypeOK
    <2>2. QED
      BY <1>1, <1>2, <2>1 DEF Wakeups, TypeOK
  <1>3. ASSUME NEW u \in Waiting, pc' = [pc EXCEPT ![t] = "idle", ![u] = "notified"]
        PROVE  Wakeups'
    <2>1. /\ t \in Bringing /\ u \in Threads /\ u \notin Bringing
          /\ Bringing' = (Bringing \ {t}) \cup {u}
      BY <1>3 DEF Waiting, Bringing, TypeOK
    <2>2. IsFiniteSet(Bringing \ {t}) /\ Cardinality(Bringing \ {t}) = Cardinality(Bringing) - 1
      BY <2>1, FS_RemoveElement
    <2>3. Cardinality(Bringing') = Cardinality(Bringing)
      <3> DEFINE rest == Bringing \ {t}
      <3>1. IsFiniteSet(rest) /\ u \notin rest /\ Bringing' = rest \cup {u}
        BY <2>1, <2>2
      <3>2. Cardinality(rest \cup {u}) = Cardinality(rest) + 1
        BY <3>1, FS_AddElement
      <3>3. QED
        BY <2>2, <3>1, <3>2
    <2>4. \A v \in Threads : pc'[v] \in {"idle"} \cup InInit \/ flag_' = "set"
      BY <1>1, <1>3 DEF Wakeups, TypeOK, InInit, Waiting
    <2>5. missed' \/ Waiting' = {} \/ Len(pool_') <= Cardinality(Bringing')
      BY <1>1, <1>3, <2>3 DEF Wakeups
    <2>6. QED
      BY <2>4, <2>5 DEF Wakeups
  <1>4. QED
    BY <1>2, <1>3

LEMMA WakeupsReturn ==
  ASSUME TypeOK, Wakeups, NEW t \in Threads, Returns(t)
  PROVE  Wakeups'
  <1> USE BringingFinite DEF Returns, PushBack, Goto
  <1>1. Len(pool_') = Len(pool_) + 1 /\ Len(pool_) \in Nat
    <2>1. conn[t] \in Conn
      BY DEF TypeOK, Holding
    <2>2. QED
      BY <2>1, PushLength, HoldingFinite
  <1>2. Waiting' = Waiting /\ Bringing' = Bringing \cup {t} /\ t \notin Bringing
    BY DEF Waiting, Bringing, TypeOK
  <1>3. Cardinality(Bringing') = Cardinality(Bringing) + 1
    BY <1>2, FS_AddElement
  <1>4. QED
    BY <1>1, <1>2, <1>3 DEF Wakeups, TypeOK, InInit

LEMMA WakeupsNext ==
  ASSUME InitFirst
  PROVE  TypeOK /\ Once /\ Wakeups /\ [Next]_vars => Wakeups'
  <1> SUFFICES ASSUME TypeOK, Once, Wakeups, [Next]_vars PROVE Wakeups'
    OBVIOUS
  <1>1. ASSUME NEW t \in Threads, InitCall(t) \/ InitStep(t) PROVE Wakeups'
    BY <1>1, WakeupsInitStep
  <1>2. ASSUME NEW t \in Threads, Get(t) \/ Wakes(t) PROVE Wakeups'
    <2>1. flag_ = "set" /\ pc[t] \in {"idle", "notified"} /\ TakeOrWait(t)
      BY <1>2 DEF Get, Wakes, Wakeups, InInit
    <2>2. QED
      BY <2>1, WakeupsTake
  <1>3. ASSUME NEW t \in Threads, ReturnStep(t) PROVE Wakeups'
    BY <1>3, WakeupsReturn, WakeupsNotify DEF ReturnStep
  <1>4. ASSUME NEW t \in Threads, TimesOutNotified(t) PROVE Wakeups'
    BY <1>4 DEF TimesOutNotified, Goto, pool, Wakeups, TypeOK, InInit
  <1>5. ASSUME NEW t \in Threads,
               TimesOut(t) \/ HandsOut(t) \/ Refuses(t) \/ Creates(t) \/ CreateFails(t)
        PROVE  Wakeups'
    <2>1. UNCHANGED <<pool_, flag_, missed>>
      BY <1>5 DEF TimesOut, HandsOut, Refuses, Creates, CreateFails, pool, history
    <2>2. /\ Waiting' \subseteq Waiting /\ Bringing' = Bringing
          /\ \A u \in Threads : u # t => pc'[u] = pc[u]
          /\ pc[t] \notin {"idle"} \cup InInit
      BY <1>5 DEF TimesOut, HandsOut, Refuses, Creates, CreateFails, Goto, Waiting,
         Bringing, TypeOK, InInit
    <2>3. QED
      BY <2>1, <2>2 DEF Wakeups
  <1>6. CASE ServerFlips \/ UNCHANGED vars
    BY <1>6 DEF ServerFlips, vars, pool, history, Wakeups, Waiting, Bringing
  <1>7. QED
    BY <1>1, <1>2, <1>3, <1>4, <1>5, <1>6 DEF Next, GetStep

-----------------------------------------------------------------------------
(* The theorems                                                            *)

LEMMA Inductive == Spec => []IInv
  <1>1. Init => IInv
    BY TypeOKInit, CountingInit, OwnershipInit DEF Init, IInv, Once, InInit
  <1>2. IInv /\ [Next]_vars => IInv'
    BY TypeOKNext, OnceNext, CountingNext, OwnershipNext DEF IInv
  <1>3. QED
    BY <1>1, <1>2, PTL DEF Spec

\* A thread has a connection in hand exactly where the code of get(), the
\* deleter and init_impl() keeps one.
THEOREM TypeCorrect == Spec => []TypeOK
  <1>1. IInv => TypeOK
    BY DEF IInv
  <1>2. QED
    BY <1>1, Inductive, PTL

\* What init() pushed is idle, in the hands of a thread, or was lost for a
\* replacement that could not be opened: no other path of get() and of the
\* deleter drops or adds a connection.
THEOREM ConnectionsAreConserved == Spec => []Conservation
  <1>1. IInv => Conservation
    BY DEF IInv, Counting
  <1>2. QED
    BY <1>1, Inductive, PTL

\* Once init() has returned before the first get(), no thread sleeps beside an
\* idle connection with no wake-up on its way, unless a late timeout swallowed
\* one.
THEOREM NoWakeupIsLost == ASSUME InitFirst PROVE Spec => []WakeupNotLost
  <1>1. Spec => []Wakeups
    <2>1. IInv => TypeOK /\ Once
      BY DEF IInv
    <2>2. QED
      BY <2>1, WakeupsInit, WakeupsNext, Inductive, PTL DEF Spec
  <1>2. TypeOK /\ Wakeups => WakeupNotLost
    <2> SUFFICES ASSUME TypeOK, Wakeups, pool_ # <<>>, Waiting # {}, ~missed
                 PROVE  \E t \in Threads : pc[t] \in {"notifying", "notified"}
      BY DEF WakeupNotLost
    <2>1. Cardinality(Bringing) # 0
      BY PopLength, BringingFinite, HoldingFinite DEF Wakeups
    <2>2. Bringing # {}
      BY <2>1, BringingFinite, FS_EmptySet
    <2>3. QED
      BY <2>2 DEF Bringing
  <1>3. QED
    BY <1>1, <1>2, TypeCorrect, PTL

-----------------------------------------------------------------------------
(* The promise                                                             *)

seen == <<Kept, LentTo>>

\* A connection has one owner, so those that are lent are not kept, and one
\* that no one has is fresh.
LEMMA LentApart ==
  ASSUME TypeOK, Ownership
  PROVE  /\ \A t \in Users : conn[t] \in Conn /\ conn[t] \notin Kept
         /\ \A x \in Conn :
              x \notin Elements(pool_) /\ (\A t \in Users \cup Checking : conn[t] # x)
                => x \in Promise!Fresh
  <1> USE PoolAssumption
  <1>1. Kept = Elements(pool_) \cup {conn[t] : t \in Checking}
    BY PoolElements DEF Kept
  <1>2. \A t \in Users : conn[t] \in Conn /\ conn[t] \notin Kept
    BY <1>1 DEF TypeOK, Holding, Ownership, Users, Checking
  <1>3. ASSUME NEW x \in Conn, x \notin Elements(pool_),
               \A t \in Users \cup Checking : conn[t] # x
        PROVE  x \in Promise!Fresh
    BY <1>1, <1>3 DEF Promise!Fresh, Promise!Lent, LentTo
  <1>4. QED
    BY <1>2, <1>3

LEMMA PromiseInit == Init => Promise!Init
  <1> SUFFICES ASSUME Init PROVE Promise!Init
    OBVIOUS
  <1>1. ToSet(pool_) = {} /\ Checking = {} /\ Users = {}
    BY EmptySeq DEF Init, ToSet, Checking, Users
  <1>2. QED
    BY <1>1 DEF Promise!Init, Kept, LentTo

\* A thread that is not checking a connection, nor using one, puts one into the
\* pool that is fresh.
LEMMA PromisePush ==
  ASSUME TypeOK, Ownership, NEW t \in Threads, InitPush(t)
  PROVE  Promise!Fill
  <1>1. conn[t] \in Conn /\ conn[t] \notin Elements(pool_)
    BY DEF InitPush, TypeOK, Holding, Ownership
  <1>2. ToSet(pool_') = ToSet(pool_) \cup {conn[t]}
    <2>1. pool_' \in Seq(Conn) /\ pool_' = Append(pool_, conn[t])
      BY <1>1, AppendProperties DEF InitPush, TypeOK
    <2>2. Elements(pool_') = Elements(pool_) \cup {conn[t]}
      BY <1>1, <2>1, BackPushed DEF Ownership, TypeOK
    <2>3. ToSet(pool_') = Elements(pool_')
      BY <2>1, LenProperties DEF ToSet, Elements
    <2>4. QED
      BY <2>2, <2>3, PoolElements
  <1>3. /\ Checking' = Checking /\ Users' = Users /\ t \notin Checking \cup Users
        /\ \A u \in Threads : u # t => conn'[u] = conn[u]
    BY DEF InitPush, Goto, Hold, Checking, Users, TypeOK
  <1>4. Kept' = Kept \cup {conn[t]}
    BY <1>2, <1>3 DEF Kept, Checking
  <1>5. LentTo' = LentTo
    BY <1>3 DEF LentTo, Users
  <1>6. \A u \in Users \cup Checking : conn[u] # conn[t]
    BY <1>1, <1>3, PoolAssumption DEF Ownership, Users, Checking
  <1>7. conn[t] \in Promise!Fresh
    BY <1>1, <1>6, LentApart
  <1>8. QED
    BY <1>4, <1>5, <1>7 DEF Promise!Fill

\* The loop of get() takes a connection that stays the pool's until ping() has
\* answered.
LEMMA PromiseTake ==
  ASSUME TypeOK, Ownership, NEW t \in Threads, Get(t) \/ Wakes(t)
  PROVE  UNCHANGED seen
  <1>1. TakeOrWait(t) /\ pc[t] \in {"idle", "notified"} /\ conn[t] = NoConn
    BY DEF Get, Wakes, TypeOK, Holding
  <1>2. CASE Goto(t, "waiting") /\ UNCHANGED <<pool_, conn>>
    BY <1>1, <1>2 DEF Goto, seen, Kept, LentTo, Checking, Users, TypeOK
  <1>3. CASE pool_ # <<>> /\ Goto(t, "popped") /\ PopFront(t)
    <2>1. /\ Elements(pool_') = Elements(pool_) \ {Head(pool_)}
          /\ Head(pool_) \in Elements(pool_)
      BY <1>3, FrontPopped DEF Ownership, TypeOK, PopFront
    <2>2. ToSet(pool_') = Elements(pool_')
      BY <1>3, HeadTailProperties, LenProperties DEF TypeOK, PopFront, ToSet, Elements
    <2>3. /\ Checking' = Checking \cup {t} /\ Users' = Users
          /\ t \notin Checking \cup Users
          /\ \A u \in Threads : u # t => conn'[u] = conn[u]
          /\ conn'[t] = Head(pool_)
      BY <1>1, <1>3 DEF Goto, PopFront, Hold, Checking, Users, TypeOK
    <2>4. {conn'[u] : u \in Checking'} = {conn[u] : u \in Checking} \cup {Head(pool_)}
      BY <2>3 DEF Checking
    <2>5. Kept' = Kept
      BY <2>1, <2>2, <2>4, PoolElements DEF Kept
    <2>6. LentTo' = LentTo
      BY <2>3 DEF LentTo, Users
    <2>7. QED
      BY <2>5, <2>6 DEF seen
  <1>4. QED
    BY <1>1, <1>2, <1>3 DEF TakeOrWait

LEMMA PromiseLend ==
  ASSUME TypeOK, Ownership, NEW t \in Threads, HandsOut(t) \/ Creates(t)
  PROVE  Promise!Next
  <1>1. /\ t \in Checking /\ t \notin Users /\ conn[t] \in Conn
        /\ Users' = Users \cup {t} /\ Checking' = Checking \ {t}
        /\ \A u \in Threads : u # t => conn'[u] = conn[u]
        /\ conn'[t] \in Conn /\ pool_' = pool_
    BY PoolAssumption
    DEF HandsOut, Creates, Goto, Hold, Closed, pool, Checking, Users, TypeOK, Holding
  <1>2. LentTo' = [LentTo EXCEPT ![t] = conn'[t]] /\ LentTo[t] = NoConn
    BY <1>1 DEF LentTo, Users
  <1>3. Kept' = Kept \ {conn[t]} /\ conn[t] \in Kept
    <2>1. \A u \in Checking : u # t => conn[u] # conn[t]
      BY <1>1, PoolAssumption DEF Ownership, Checking
    <2>2. conn[t] \notin ToSet(pool_)
      BY <1>1, PoolElements DEF Ownership, Checking
    <2>3. {conn'[u] : u \in Checking'} = {conn[u] : u \in Checking} \ {conn[t]}
      BY <1>1, <2>1 DEF Checking
    <2>4. QED
      BY <1>1, <2>2, <2>3 DEF Kept
  <1>4. conn'[t] = conn[t] \/ conn'[t] \in Promise!Fresh
    <2>1. CASE HandsOut(t)
      BY <2>1 DEF HandsOut
    <2>2. CASE Creates(t)
      <3>1. conn'[t] \notin Open
        BY <2>2 DEF Creates, Hold, Closed, TypeOK
      <3>2. conn'[t] \notin Elements(pool_) /\ \A u \in Users \cup Checking : conn[u] # conn'[t]
        BY <3>1, PoolElements DEF Users, Checking, TypeOK, Holding
      <3>3. QED
        BY <1>1, <3>2, LentApart
    <2>3. QED
      BY <2>1, <2>2
  <1>5. Promise!Lend(t, conn'[t])
    BY <1>2, <1>3, <1>4 DEF Promise!Lend
  <1>6. QED
    BY <1>1, <1>5 DEF Promise!Next

LEMMA PromiseReturn ==
  ASSUME TypeOK, Ownership, NEW t \in Threads, Returns(t)
  PROVE  Promise!TakeBack(t)
  <1>1. /\ t \in Users /\ t \notin Checking /\ conn[t] \in Conn
        /\ conn[t] # NoConn /\ conn[t] \notin Elements(pool_)
        /\ Users' = Users \ {t} /\ Checking' = Checking
        /\ \A u \in Threads : u # t => conn'[u] = conn[u]
        /\ pool_' = Append(pool_, conn[t])
    BY DEF Returns, PushBack, Goto, Hold, Checking, Users, TypeOK, Holding, Ownership
  <1>2. ToSet(pool_') = ToSet(pool_) \cup {conn[t]}
    <2>1. pool_' \in Seq(Conn)
      BY <1>1, AppendProperties DEF TypeOK
    <2>2. Elements(pool_') = Elements(pool_) \cup {conn[t]}
      BY <1>1, BackPushed DEF Ownership, TypeOK
    <2>3. ToSet(pool_') = Elements(pool_')
      BY <2>1, LenProperties DEF ToSet, Elements
    <2>4. QED
      BY <2>2, <2>3, PoolElements
  <1>3. Kept' = Kept \cup {conn[t]}
    BY <1>1, <1>2 DEF Kept, Checking
  <1>4. LentTo' = [LentTo EXCEPT ![t] = NoConn] /\ LentTo[t] = conn[t]
    BY <1>1 DEF LentTo, Users
  <1>5. QED
    BY <1>1, <1>3, <1>4 DEF Promise!TakeBack

LEMMA PromiseLost ==
  ASSUME TypeOK, Ownership, NEW t \in Threads, CreateFails(t)
  PROVE  Promise!Shrink
  <1>1. /\ Users' = Users /\ Checking' = Checking \ {t} /\ t \notin Users
        /\ \A u \in Threads : u # t => conn'[u] = conn[u]
        /\ pool_' = pool_
    BY DEF CreateFails, Goto, Hold, pool, Checking, Users, TypeOK
  <1>2. Kept' \subseteq Kept
    BY <1>1 DEF Kept, Checking
  <1>3. LentTo' = LentTo
    BY <1>1 DEF LentTo, Users
  <1>4. QED
    BY <1>2, <1>3 DEF Promise!Shrink

\* The other steps do not show.
LEMMA PromiseQuiet ==
  ASSUME TypeOK, NEW t \in Threads,
         \/ InitCall(t) \/ InitConnects(t) \/ InitThrows(t) \/ InitReturns(t)
         \/ TimesOut(t) \/ TimesOutNotified(t) \/ Refuses(t) \/ Notifies(t)
  PROVE  UNCHANGED seen
  <1>1. /\ pool_' = pool_ /\ Users' = Users /\ Checking' = Checking
        /\ \A u \in Users \cup Checking : conn'[u] = conn[u]
    <2>1. CASE Notifies(t)
      BY <2>1 DEF Notifies, NotifyOne, Waiting, Goto, pool, Users, Checking, TypeOK
    <2>2. CASE ~Notifies(t)
      BY <2>2 DEF InitCall, InitConnects, InitThrows, InitReturns, TimesOut,
         TimesOutNotified, Refuses, Goto, Hold, pool, Users, Checking, TypeOK
    <2>3. QED
      BY <2>1, <2>2
  <1>2. {conn'[u] : u \in Checking'} = {conn[u] : u \in Checking}
    BY <1>1
  <1>3. Kept' = Kept
    BY <1>1, <1>2 DEF Kept
  <1>4. LentTo' = LentTo
    BY <1>1 DEF LentTo
  <1>5. QED
    BY <1>3, <1>4 DEF seen

LEMMA PromiseStep == TypeOK /\ Ownership /\ [Next]_vars => [Promise!Next]_seen
  <1> SUFFICES ASSUME TypeOK, Ownership, [Next]_vars PROVE [Promise!Next]_seen
    OBVIOUS
  <1>1. ASSUME NEW t \in Threads, InitCall(t) \/ InitStep(t) PROVE [Promise!Next]_seen
    BY <1>1, PromisePush, PromiseQuiet DEF InitStep, Promise!Next
  <1>2. ASSUME NEW t \in Threads, Get(t) \/ GetStep(t) PROVE [Promise!Next]_seen
    BY <1>2, PromiseTake, PromiseLend, PromiseLost, PromiseQuiet
    DEF GetStep, Promise!Next
  <1>3. ASSUME NEW t \in Threads, ReturnStep(t) PROVE [Promise!Next]_seen
    BY <1>3, PromiseReturn, PromiseQuiet DEF ReturnStep, Promise!Next
  <1>4. CASE ServerFlips \/ UNCHANGED vars
    BY <1>4 DEF ServerFlips, vars, pool, seen, Kept, LentTo, Users, Checking
  <1>5. QED
    BY <1>1, <1>2, <1>3, <1>4 DEF Next

\* The blocking pool keeps the promise of ConnectionPool for any number of
\* threads and connections, even when get() is called while init() still runs:
\* each step of init(), get() and the deleter is a step the promise allows, or
\* one the callers do not see.
THEOREM PoolKeepsPromise == Spec => ImplementsPool
  <1>1. IInv => TypeOK /\ Ownership
    BY DEF IInv
  <1>2. TypeOK /\ Ownership /\ [Next]_vars => [Promise!Next]_(Promise!vars)
    BY PromiseStep DEF Promise!vars, seen
  <1>3. QED
    BY <1>1, <1>2, PromiseInit, Inductive, PTL DEF Spec, ImplementsPool, Promise!Spec
=============================================================================
