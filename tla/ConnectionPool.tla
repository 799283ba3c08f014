---------------------------- MODULE ConnectionPool ----------------------------
(***************************************************************************)
(* What a pool of connections promises its callers, whichever of           *)
(* src/ormpp/async_connection_pool.hpp and src/ormpp/connection_pool.hpp    *)
(* keeps it: a connection is lent to one caller at a time, only while the  *)
(* pool is open, and one that is given back to an open pool is there for   *)
(* the next caller, unless it was temporary.                               *)
(*                                                                         *)
(* How a connection is checked before it is lent, who waits for whom and   *)
(* how the pool counts is left to the pools: AsyncPool and SyncPool are    *)
(* each shown to implement this module.                                    *)
(***************************************************************************)
CONSTANTS Callers, Conn, NoConn

VARIABLES
  open,      \* the pool hands out connections
  idle,      \* the connections the pool keeps, those it is checking included
  lent,      \* the connection each caller has, NoConn if none
  temporary  \* the callers whose connection will not be kept

vars == <<open, idle, lent, temporary>>

Lent == {lent[c] : c \in Callers} \ {NoConn}

Fresh == Conn \ (idle \cup Lent)

Init ==
  /\ open \in BOOLEAN
  /\ idle = {}
  /\ lent = [c \in Callers |-> NoConn]
  /\ temporary = {}

-----------------------------------------------------------------------------
\* The pool opens a connection, or begins to hand them out, or both.
Fill ==
  /\ idle' = idle \/ \E x \in Fresh : idle' = idle \cup {x}
  /\ open => open'
  /\ UNCHANGED <<lent, temporary>>

\* Connections are closed, because they are dead or because the pool is closed.
Shrink ==
  /\ idle' \subseteq idle
  /\ open' => open
  /\ UNCHANGED <<lent, temporary>>

\* A caller gets the connection x: one of those the pool keeps, one opened for
\* this caller only, or one opened in place of a kept one that was dead.
Lend(c, x) ==
  /\ open
  /\ lent[c] = NoConn
  /\ lent' = [lent EXCEPT ![c] = x]
  /\ \/ /\ x \in idle
        /\ idle' = idle \ {x}
        /\ UNCHANGED temporary
     \/ /\ x \in Fresh
        /\ UNCHANGED idle
        /\ temporary' = temporary \cup {c}
     \/ /\ x \in Fresh
        /\ \E dead \in idle : idle' = idle \ {dead}
        /\ UNCHANGED temporary
  /\ UNCHANGED open

\* A caller gives its connection back.
TakeBack(c) ==
  /\ lent[c] # NoConn
  /\ lent' = [lent EXCEPT ![c] = NoConn]
  /\ idle' = IF open /\ c \notin temporary THEN idle \cup {lent[c]} ELSE idle
  /\ temporary' = temporary \ {c}
  /\ UNCHANGED open

Next ==
  \/ Fill
  \/ Shrink
  \/ \E c \in Callers : TakeBack(c) \/ \E x \in Conn : Lend(c, x)

Spec == Init /\ [][Next]_vars
=============================================================================
