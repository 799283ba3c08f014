---------------------------- MODULE QueryRead_proofs ----------------------------
(***************************************************************************)
(* Proofs about QueryRead for any number of connections, any set of        *)
(* drivers and types of fields, and results of any size.                   *)
(*                                                                         *)
(* The invariant follows one call through its places (Course): what        *)
(* has_error_ is worth at each of them as long as no other connection has  *)
(* written it (Flag), and where the rows read so far have their values     *)
(* from (Own).  A step of one connection can disturb the others only in    *)
(* the two ways FlagStep and Loses name.                                   *)
(***************************************************************************)
EXTENDS QueryRead, SequenceTheorems, TLAPS

Values == {"own", "earlier", "undefined", "shifted", "taken"}

Types == /\ TypeOK
         /\ call \in [Threads -> Calls]
         /\ answer \in [Threads -> Seq(Values)]

\* The places before the first row.
Before == {"start", "prepared", "prepare", "exec"}

\* Where a call may be, and what it then has.
Course(t) ==
  /\ pc[t] \in Before => answer[t] = <<>>
  /\ kept[t] => pc[t] = "fetch" /\ answer[t] # <<>>
  /\ pc[t] \in Before \cup {"fetch"} => cause[t] = "none"
  /\ pc[t] = "prepare" => driver = "mysql"
  /\ pc[t] = "close" =>
       \/ driver = "sqlite" /\ cause[t] \in {"none", "fetch"}
       \/ driver = "mysql" /\ cause[t] \in {"none", "fetch", "prepare", "execute", "lost"}
       \/ driver = "postgresql" /\ cause[t] \in {"none", "execute"}

\* What has_error_ says while a call runs, if no other connection wrote it since
\* this one did: the guard has reset it before the rows are fetched, and at the
\* end of its scope mysql has reported what postgresql and sqlite still have to.
Flag(t) ==
  ~stirred[t] =>
    /\ pc[t] \in {"prepare", "fetch"} /\ driver # "mysql_async" => ~has_error_[t]
    /\ pc[t] = "close" /\ cause[t] = "none" => ~has_error_[t]
    /\ pc[t] = "close" /\ driver = "mysql" /\ cause[t] \in {"prepare", "execute", "lost"}
         => has_error_[t]

\* ErrorTellsFailure and RowsAreOwn of one connection.
Told(t) ==
  pc[t] = "returned" /\ ~stirred[t] =>
    /\ cause[t] # "none" /\ <<driver, cause[t]>> \notin Unreported => has_error_[t]
    /\ has_error_[t] /\ driver # "mysql_async" =>
         cause[t] # "none" \/ link[t] # "up"

Own(t) == \A i \in 1..Len(answer[t]) : answer[t][i] \in {"own"} \cup Admitted(t, i)

ThreadInv(t) == Course(t) /\ Flag(t) /\ Told(t) /\ Own(t)

IInv == Types /\ \A t \in Threads : ThreadInv(t)

-----------------------------------------------------------------------------
(* What a step of one connection does to the others                        *)

\* The error members change, and then the others know it, or stay.
FlagStep(t) ==
  /\ has_error_' \in [Threads -> BOOLEAN] /\ stirred' \in [Threads -> BOOLEAN]
  /\ \A u \in Threads \ {t} :
       stirred'[u] \/ (has_error_'[u] = has_error_[u] /\ stirred'[u] = stirred[u])

LEMMA ReportFacts ==
  ASSUME Types, NEW t \in Threads, NEW error \in BOOLEAN, Report(t, error)
  PROVE  FlagStep(t) /\ has_error_'[t] = error /\ stirred'[t] = FALSE
  <1>1. has_error_ \in [Threads -> BOOLEAN] /\ stirred \in [Threads -> BOOLEAN]
    BY DEF Types, TypeOK
  <1>2. /\ has_error_' = [u \in Threads |-> IF u \in Sharing(t) THEN error ELSE has_error_[u]]
        /\ stirred' = [u \in Threads |-> u # t /\ (stirred[u] \/ u \in Sharing(t))]
    BY DEF Report
  <1>3. t \in Sharing(t)
    BY DEF Sharing
  <1>4. has_error_' \in [Threads -> BOOLEAN] /\ stirred' \in [Threads -> BOOLEAN]
    BY <1>1, <1>2
  <1>5. ASSUME NEW u \in Threads \ {t}
        PROVE  stirred'[u] \/ (has_error_'[u] = has_error_[u] /\ stirred'[u] = stirred[u])
    <2>1. CASE u \in Sharing(t)
      BY <1>2, <2>1
    <2>2. CASE u \notin Sharing(t)
      <3>1. has_error_'[u] = has_error_[u]
        BY <1>2, <2>2
      <3>2. stirred'[u] = stirred[u]
        BY <1>1, <1>2, <2>2
      <3>3. QED
        BY <3>1, <3>2
    <2>3. QED
      BY <2>1, <2>2
  <1>6. QED
    BY <1>2, <1>3, <1>4, <1>5 DEF FlagStep

LEMMA FlagKept ==
  ASSUME Types, NEW t \in Threads, UNCHANGED flag
  PROVE  FlagStep(t) /\ has_error_'[t] = has_error_[t] /\ stirred'[t] = stirred[t]
  BY DEF Types, TypeOK, FlagStep, flag

LinkStep(t) == /\ link' \in [Threads -> {"up", "cut", "down"}]
               /\ \A u \in Threads \ {t} : link'[u] = link[u]

LEMMA LinkKept == ASSUME Types, NEW t \in Threads, UNCHANGED link PROVE LinkStep(t)
  BY DEF Types, TypeOK, LinkStep

LEMMA NoticeFacts == ASSUME Types, NEW t \in Threads, Notice(t) PROVE LinkStep(t)
  BY DEF Types, TypeOK, LinkStep, Notice

\* Views of another connection lose their text.
Loses(u) ==
  /\ Len(answer'[u]) = Len(answer[u])
  /\ \A i \in 1..Len(answer[u]) :
       answer'[u][i] = answer[u][i] \/ (call[u].field = "view" /\ answer'[u][i] = "taken")

\* The rest of a step of t that ends at a place.
Moves(t, place) ==
  /\ driver' = driver
  /\ pc' = [pc EXCEPT ![t] = place]
  /\ call' \in [Threads -> Calls] /\ cause' \in [Threads -> Causes]
  /\ kept' \in [Threads -> BOOLEAN] /\ answer' \in [Threads -> Seq(Values)]
  /\ Len(answer'[t]) <= MaxRows /\ (~Reads(t)' => answer'[t] = <<>>)
  /\ \A u \in Threads \ {t} :
       call'[u] = call[u] /\ cause'[u] = cause[u] /\ kept'[u] = kept[u] /\ Loses(u)

LEMMA EmptyOrNot == ASSUME NEW s \in Seq(Values) PROVE s = <<>> <=> Len(s) = 0
  OBVIOUS

LEMMA OthersKeep ==
  ASSUME IInv, NEW t \in Threads, NEW place \in Places,
         FlagStep(t), LinkStep(t), Moves(t, place)
  PROVE  Types' /\ \A u \in Threads \ {t} : ThreadInv(u)'
  <1>1. /\ driver' = driver /\ pc' \in [Threads -> Places]
        /\ \A u \in Threads \ {t} : pc'[u] = pc[u]
    BY DEF Moves, IInv, Types, TypeOK
  <1>2. ASSUME NEW u \in Threads \ {t}
        PROVE  /\ call'[u] = call[u] /\ cause'[u] = cause[u] /\ kept'[u] = kept[u]
               /\ link'[u] = link[u] /\ pc'[u] = pc[u]
               /\ Len(answer'[u]) = Len(answer[u]) /\ Len(answer[u]) \in Nat
               /\ answer'[u] = <<>> <=> answer[u] = <<>>
               /\ Len(answer[u]) <= MaxRows /\ (~Reads(u) => answer[u] = <<>>)
    <2>1. answer[u] \in Seq(Values) /\ answer'[u] \in Seq(Values)
      BY DEF Moves, IInv, Types
    <2>2. Len(answer'[u]) = Len(answer[u])
      BY DEF Moves, Loses
    <2>3. Len(answer[u]) \in Nat
      BY <2>1
    <2>4. answer'[u] = <<>> <=> answer[u] = <<>>
      BY <2>1, <2>2, EmptyOrNot
    <2>5. call'[u] = call[u] /\ cause'[u] = cause[u] /\ kept'[u] = kept[u]
      BY DEF Moves
    <2>6. link'[u] = link[u] /\ pc'[u] = pc[u]
      BY <1>1 DEF LinkStep
    <2>7. Len(answer[u]) <= MaxRows /\ (~Reads(u) => answer[u] = <<>>)
      BY DEF IInv, Types, TypeOK
    <2>8. QED
      BY <2>2, <2>3, <2>4, <2>5, <2>6, <2>7
  <1>3. Types'
    <2>1. ASSUME NEW u \in Threads
          PROVE  call'[u] \in Calls /\ Len(answer'[u]) <= MaxRows
                 /\ (~Reads(u)' => answer'[u] = <<>>)
      <3>1. call'[u] \in Calls
        BY DEF Moves
      <3>2. CASE u = t
        BY <3>1, <3>2 DEF Moves
      <3>3. CASE u # t
        BY <3>1, <3>3, <1>2 DEF Reads
      <3>4. QED
        BY <3>2, <3>3
    <2>2. TypeOK'
      BY <1>1, <2>1 DEF TypeOK, Moves, LinkStep, FlagStep, IInv, Types
    <2>3. QED
      BY <2>2 DEF Types, Moves
  <1>4. ASSUME NEW u \in Threads \ {t}
        PROVE  ThreadInv(u)'
    <2>0. Course(u) /\ Flag(u) /\ Told(u) /\ Own(u)
      BY DEF IInv, ThreadInv
    <2>1. Course(u)'
      BY <1>1, <1>2, <2>0 DEF Course
    <2>2. stirred'[u] \/ (has_error_'[u] = has_error_[u] /\ stirred'[u] = stirred[u])
      BY DEF FlagStep
    <2>3. Flag(u)'
      BY <1>1, <1>2, <2>0, <2>2 DEF Flag
    <2>4. Told(u)'
      BY <1>1, <1>2, <2>0, <2>2 DEF Told, Unreported
    <2>5. Own(u)'
      <3> SUFFICES ASSUME NEW i \in 1..Len(answer[u])
                   PROVE  answer'[u][i] \in {"own"} \cup Admitted(u, i)'
        BY <1>2 DEF Own
      <3>1. Admitted(u, i)' = Admitted(u, i)
        BY <1>1, <1>2 DEF Admitted
      <3>2. call[u].field = "view" => "taken" \in Admitted(u, i)
        BY DEF Admitted
      <3>3. answer[u][i] \in {"own"} \cup Admitted(u, i)
        BY <2>0 DEF Own
      <3>4. answer'[u][i] = answer[u][i] \/ (call[u].field = "view" /\ answer'[u][i] = "taken")
        BY DEF Moves, Loses
      <3>5. QED
        BY <3>1, <3>2, <3>3, <3>4
    <2>6. QED
      BY <2>1, <2>3, <2>4, <2>5 DEF ThreadInv
  <1>5. QED
    BY <1>3, <1>4

\* A step of t keeps the invariant if it keeps what is said of t.
LEMMA StepKeeps ==
  ASSUME IInv, NEW t \in Threads, NEW place \in Places,
         FlagStep(t), LinkStep(t), Moves(t, place),
         ThreadInv(t)'
  PROVE  IInv'
  BY OthersKeep DEF IInv

-----------------------------------------------------------------------------
(* How a step ends                                                         *)

LEMMA CallFacts ==
  ASSUME NEW c \in Calls
  PROVE  LET d == [c EXCEPT !.args = "none"]
         IN  d \in Calls /\ d.field = c.field /\ d.reads = c.reads
  <1>1. CASE c \in [reads : {TRUE}, args : {"none", "bound", "spliced"}, field : Fields]
    BY <1>1 DEF Calls
  <1>2. CASE c \in [reads : {FALSE}, args : {"none", "bound"}, field : {"plain"}]
    BY <1>2 DEF Calls
  <1>3. QED
    BY <1>1, <1>2 DEF Calls

LEMMA CallPassed ==
  ASSUME Types, NEW t \in Threads, call' = [call EXCEPT ![t].args = "none"]
  PROVE  /\ call' \in [Threads -> Calls]
         /\ call'[t].field = call[t].field /\ Reads(t)' = Reads(t)
         /\ \A u \in Threads \ {t} : call'[u] = call[u]
  <1> DEFINE d == [call[t] EXCEPT !.args = "none"]
  <1>1. call \in [Threads -> Calls] /\ call[t] \in Calls
    BY DEF Types
  <1>2. d \in Calls /\ d.field = call[t].field /\ d.reads = call[t].reads
    BY <1>1, CallFacts
  <1>3. call' = [call EXCEPT ![t] = d]
    OBVIOUS
  <1> HIDE DEF d
  <1>4. /\ call' \in [Threads -> Calls] /\ call'[t] = d
        /\ \A u \in Threads \ {t} : call'[u] = call[u]
    BY <1>1, <1>2, <1>3
  <1>5. QED
    BY <1>2, <1>4 DEF Reads

LEMMA RowsStay ==
  ASSUME Types, NEW u \in Threads, answer'[u] = answer[u]
  PROVE  Loses(u)
  BY DEF Loses

LEMMA ContinueFacts ==
  ASSUME IInv, NEW t \in Threads, NEW place \in Places, Continue(t, place)
  PROVE  /\ Moves(t, place) /\ LinkStep(t) /\ link' = link
         /\ pc'[t] = place /\ call'[t].field = call[t].field
         /\ answer' = answer /\ kept' = kept /\ cause' = cause /\ driver' = driver
  <1>1. /\ pc' = [pc EXCEPT ![t] = place]
        /\ call' = [call EXCEPT ![t].args = "none"]
        /\ UNCHANGED <<driver, link, cause, kept, answer>>
    BY DEF Continue, Goto, reading
  <1>2. Types
    BY DEF IInv
  <1>3. /\ call' \in [Threads -> Calls]
        /\ call'[t].field = call[t].field /\ Reads(t)' = Reads(t)
        /\ \A u \in Threads \ {t} : call'[u] = call[u]
    BY <1>1, <1>2, CallPassed
  <1>4. LinkStep(t) /\ \A u \in Threads : Loses(u)
    BY <1>1, <1>2, LinkKept, RowsStay
  <1>5. pc'[t] = place
    BY <1>1, <1>2 DEF Types, TypeOK
  <1>6. Moves(t, place)
    BY <1>1, <1>2, <1>3, <1>4 DEF Moves, Types, TypeOK
  <1>7. QED
    BY <1>1, <1>3, <1>4, <1>5, <1>6

LEMMA LeaveFacts ==
  ASSUME IInv, NEW t \in Threads, NEW place \in Places, NEW why \in Causes,
         Leave(t, place, why)
  PROVE  /\ Moves(t, place)
         /\ pc'[t] = place /\ call'[t].field = call[t].field /\ driver' = driver
         /\ cause'[t] = why /\ kept'[t] = FALSE
         /\ answer'[t] = IF why \in {"none", "fetch"} THEN answer[t] ELSE <<>>
  <1> DEFINE rows == IF why \in {"none", "fetch"} THEN answer[t] ELSE <<>>
  <1>1. /\ pc' = [pc EXCEPT ![t] = place]
        /\ cause' = [cause EXCEPT ![t] = why]
        /\ answer' = [answer EXCEPT ![t] = rows]
        /\ kept' = [kept EXCEPT ![t] = FALSE]
        /\ call' = [call EXCEPT ![t].args = "none"]
        /\ driver' = driver
    BY DEF Leave, Goto
  <1>2. /\ Types /\ pc \in [Threads -> Places] /\ cause \in [Threads -> Causes]
        /\ answer \in [Threads -> Seq(Values)] /\ kept \in [Threads -> BOOLEAN]
        /\ Len(answer[t]) <= MaxRows /\ (~Reads(t) => answer[t] = <<>>)
    BY DEF IInv, Types, TypeOK
  <1>3. /\ call' \in [Threads -> Calls]
        /\ call'[t].field = call[t].field /\ Reads(t)' = Reads(t)
        /\ \A u \in Threads \ {t} : call'[u] = call[u]
    BY <1>1, <1>2, CallPassed
  <1>4. rows \in Seq(Values) /\ Len(rows) <= MaxRows /\ (~Reads(t) => rows = <<>>)
    <2>1. <<>> \in Seq(Values) /\ Len(<<>>) = 0 /\ 0 <= MaxRows
      BY QueryAssumption
    <2>2. answer[t] \in Seq(Values)
      BY <1>2
    <2>3. QED
      BY <1>2, <2>1, <2>2
  <1> HIDE DEF rows
  <1>5. answer' \in [Threads -> Seq(Values)] /\ answer'[t] = rows
        /\ \A u \in Threads \ {t} : answer'[u] = answer[u]
    BY <1>1, <1>2, <1>4
  <1>6. \A u \in Threads \ {t} : Loses(u)
    BY <1>2, <1>5, RowsStay
  <1>7. /\ cause' \in [Threads -> Causes] /\ kept' \in [Threads -> BOOLEAN]
        /\ cause'[t] = why /\ kept'[t] = FALSE /\ pc'[t] = place
        /\ \A u \in Threads \ {t} : cause'[u] = cause[u] /\ kept'[u] = kept[u]
    BY <1>1, <1>2
  <1>8. Moves(t, place)
    BY <1>1, <1>3, <1>4, <1>5, <1>6, <1>7 DEF Moves
  <1>9. QED
    BY <1>1, <1>3, <1>5, <1>7, <1>8 DEF rows

\* What is said of the rows of t holds of those it keeps, and of none.
LEMMA OwnStays ==
  ASSUME IInv, NEW t \in Threads, driver' = driver,
         call'[t].field = call[t].field, answer'[t] \in {answer[t], <<>>}
  PROVE  Own(t)'
  <1>1. CASE answer'[t] = <<>>
    BY <1>1 DEF Own
  <1>2. CASE answer'[t] = answer[t]
    <2>1. \A i \in 1..Len(answer[t]) : Admitted(t, i)' = Admitted(t, i)
      BY <1>2 DEF Admitted
    <2>2. Own(t)
      BY DEF IInv, ThreadInv
    <2>3. QED
      BY <1>2, <2>1, <2>2 DEF Own
  <1>3. QED
    BY <1>1, <1>2

\* What is left to show of a step that goes on, and of one that leaves.
LEMMA ContinueKeeps ==
  ASSUME IInv, NEW t \in Threads, NEW place \in Places, Continue(t, place),
         FlagStep(t), Course(t)', Flag(t)', Told(t)'
  PROVE  IInv'
  BY ContinueFacts, OwnStays, StepKeeps DEF ThreadInv

LEMMA LeaveKeeps ==
  ASSUME IInv, NEW t \in Threads, NEW place \in Places, NEW why \in Causes,
         Leave(t, place, why),
         FlagStep(t), LinkStep(t), Course(t)', Flag(t)', Told(t)'
  PROVE  IInv'
  <1>1. Moves(t, place) /\ driver' = driver /\ call'[t].field = call[t].field
        /\ answer'[t] \in {answer[t], <<>>}
    BY LeaveFacts
  <1>2. Own(t)'
    BY <1>1, OwnStays
  <1>3. QED
    BY <1>1, <1>2, StepKeeps DEF ThreadInv

LEMMA ThreadFacts ==
  ASSUME IInv, NEW t \in Threads
  PROVE  /\ Types /\ Course(t) /\ Flag(t) /\ Told(t) /\ Own(t)
         /\ driver \in {"sqlite", "mysql", "postgresql", "mysql_async"}
         /\ has_error_[t] \in BOOLEAN /\ stirred[t] \in BOOLEAN
         /\ link[t] \in {"up", "cut", "down"} /\ cause[t] \in Causes /\ pc[t] \in Places
         /\ call[t] \in Calls /\ answer[t] \in Seq(Values)
  BY QueryAssumption DEF IInv, ThreadInv, Types, TypeOK

\* An empty answer, once the call has left.
LEMMA LeftEmpty ==
  ASSUME IInv, NEW t \in Threads, NEW place \in {"returned", "close"},
         NEW why \in Causes, Leave(t, place, why),
         place = "close" =>
           \/ driver = "sqlite" /\ why \in {"none", "fetch"}
           \/ driver = "mysql" /\ why \in {"none", "fetch", "prepare", "execute", "lost"}
           \/ driver = "postgresql" /\ why \in {"none", "execute"}
  PROVE  Course(t)'
  <1>1. /\ pc'[t] = place /\ driver' = driver /\ cause'[t] = why /\ kept'[t] = FALSE
    BY LeaveFacts DEF Places
  <1>2. QED
    BY <1>1 DEF Course, Before

-----------------------------------------------------------------------------
(* The steps                                                               *)

LEMMA MiscountsKeeps == ASSUME IInv, NEW t \in Threads, Miscounts(t) PROVE IInv'
  <1>1. /\ Leave(t, "returned", "mismatch") /\ UNCHANGED link
        /\ "returned" \in Places /\ "mismatch" \in Causes
    BY DEF Miscounts, Places, Causes
  <1>2. Types
    BY DEF IInv
  <1>3. FlagStep(t) /\ (driver \in {"mysql", "mysql_async"} => has_error_'[t] = TRUE)
    <2>1. CASE driver \in {"mysql", "mysql_async"}
      BY <1>2, <2>1, ReportFacts DEF Miscounts
    <2>2. CASE driver \notin {"mysql", "mysql_async"}
      BY <1>2, <2>2, FlagKept DEF Miscounts
    <2>3. QED
      BY <2>1, <2>2
  <1>4. pc'[t] = "returned" /\ cause'[t] = "mismatch" /\ driver' = driver
    BY <1>1, LeaveFacts
  <1>5. LinkStep(t)
    BY <1>1, <1>2, LinkKept
  <1>6. Course(t)' /\ Flag(t)'
    BY <1>1, <1>4, LeftEmpty DEF Flag
  <1>7. Told(t)'
    <2>1. driver \in {"sqlite", "mysql", "postgresql", "mysql_async"}
      BY ThreadFacts
    <2>2. driver \in {"sqlite", "postgresql"} => <<driver, "mismatch">> \in Unreported
      BY DEF Unreported
    <2>3. QED
      BY <1>3, <1>4, <2>1, <2>2 DEF Told, Unreported
  <1>8. QED
    BY <1>1, <1>3, <1>5, <1>6, <1>7, LeaveKeeps

LEMMA SqlitePreparesKeeps == ASSUME IInv, NEW t \in Threads, SqlitePrepares(t) PROVE IInv'
  <1>1. /\ pc[t] = "start" /\ driver = "sqlite"
        /\ {"returned", "prepared"} \subseteq Places /\ "prepare" \in Causes
    BY DEF SqlitePrepares, Places, Causes
  <1>2. Types
    BY DEF IInv
  <1>3. CASE Report(t, TRUE) /\ Leave(t, "returned", "prepare") /\ UNCHANGED link
    <2>1. FlagStep(t) /\ has_error_'[t] = TRUE /\ LinkStep(t)
      BY <1>2, <1>3, ReportFacts, LinkKept
    <2>2. pc'[t] = "returned" /\ cause'[t] = "prepare"
      BY <1>1, <1>3, LeaveFacts
    <2>3. Course(t)' /\ Flag(t)' /\ Told(t)'
      BY <1>1, <1>3, <2>1, <2>2, LeftEmpty DEF Flag, Told
    <2>4. QED
      BY <1>1, <1>3, <2>1, <2>3, LeaveKeeps
  <1>4. CASE UNCHANGED flag /\ Continue(t, "prepared")
    <2>1. FlagStep(t)
      BY <1>2, <1>4, FlagKept
    <2>2. /\ pc'[t] = "prepared" /\ driver' = driver
          /\ answer' = answer /\ kept' = kept /\ cause' = cause
      BY <1>1, <1>4, ContinueFacts
    <2>3. Course(t)' /\ Flag(t)' /\ Told(t)'
      BY <1>1, <2>2, ThreadFacts DEF Course, Flag, Told, Before
    <2>4. QED
      BY <1>1, <1>4, <2>1, <2>3, ContinueKeeps
  <1>5. QED
    BY <1>3, <1>4 DEF SqlitePrepares

\* After the guard's reset the error says nothing until the next report.
LEMMA GuardKeeps ==
  ASSUME IInv, NEW t \in Threads, NEW place \in {"fetch", "prepare", "exec"},
         Guard(t, place), pc[t] \in Before, place = "prepare" => driver = "mysql"
  PROVE  IInv'
  <1>1. Report(t, FALSE) /\ Continue(t, place) /\ place \in Places
    BY DEF Guard, Places
  <1>2. FlagStep(t) /\ has_error_'[t] = FALSE
    BY <1>1, ReportFacts DEF IInv
  <1>3. /\ pc'[t] = place /\ driver' = driver
        /\ answer' = answer /\ kept' = kept /\ cause' = cause
    BY <1>1, ContinueFacts
  <1>4. answer[t] = <<>> /\ kept[t] = FALSE /\ cause[t] = "none"
    BY ThreadFacts DEF Course, Before, Types, TypeOK
  <1>5. Course(t)' /\ Flag(t)' /\ Told(t)'
    BY <1>2, <1>3, <1>4 DEF Course, Flag, Told, Before
  <1>6. QED
    BY <1>1, <1>2, <1>5, ContinueKeeps

LEMMA SqliteGuardsKeeps == ASSUME IInv, NEW t \in Threads, SqliteGuards(t) PROVE IInv'
  BY GuardKeeps DEF SqliteGuards, Before

LEMMA SqliteStepFailsKeeps ==
  ASSUME IInv, NEW t \in Threads, SqliteStepFails(t)
  PROVE  IInv'
  <1>1. /\ driver = "sqlite" /\ Leave(t, "close", "fetch") /\ UNCHANGED link
        /\ "close" \in Places /\ "fetch" \in Causes
    BY DEF SqliteStepFails, Places, Causes
  <1>2. FlagStep(t) /\ LinkStep(t)
    BY <1>1, ReportFacts, FlagKept, LinkKept DEF SqliteStepFails, IInv
  <1>3. pc'[t] = "close" /\ cause'[t] = "fetch" /\ driver' = driver
    BY <1>1, LeaveFacts
  <1>4. Course(t)' /\ Flag(t)' /\ Told(t)'
    BY <1>1, <1>3, LeftEmpty DEF Flag, Told
  <1>5. QED
    BY <1>1, <1>2, <1>4, LeaveKeeps

\* The end of a guard's scope, of which only the flag is left to know.
LEMMA ClosingKeeps ==
  ASSUME IInv, NEW t \in Threads, pc[t] = "close", Continue(t, "returned"),
         FlagStep(t),
         stirred'[t] = FALSE =>
           /\ cause[t] # "none" /\ <<driver, cause[t]>> \notin Unreported => has_error_'[t]
           /\ has_error_'[t] => cause[t] # "none" \/ link[t] # "up"
  PROVE  IInv'
  <1>1. "returned" \in Places
    BY DEF Places
  <1>2. /\ pc'[t] = "returned" /\ driver' = driver
        /\ answer' = answer /\ kept' = kept /\ cause' = cause /\ link' = link
    BY <1>1, ContinueFacts
  <1>3. kept[t] = FALSE
    BY ThreadFacts DEF Course, Types, TypeOK
  <1>4. stirred'[t] \in BOOLEAN
    BY DEF FlagStep
  <1>5. Course(t)' /\ Flag(t)' /\ Told(t)'
    BY <1>2, <1>3, <1>4 DEF Course, Flag, Told, Before, Unreported
  <1>6. QED
    BY <1>1, <1>5, ContinueKeeps

LEMMA SqliteClosesKeeps == ASSUME IInv, NEW t \in Threads, SqliteCloses(t) PROVE IInv'
  <1>1. pc[t] = "close" /\ driver = "sqlite" /\ Continue(t, "returned")
    BY DEF SqliteCloses, Finalizes
  <1>2. Course(t) /\ Flag(t) /\ Types
    BY ThreadFacts
  <1>3. CASE cause[t] = "fetch"
    <2>1. FlagStep(t) /\ has_error_'[t] = TRUE
      BY <1>2, <1>3, ReportFacts DEF SqliteCloses, Finalizes
    <2>2. QED
      BY <1>1, <1>3, <2>1, ClosingKeeps
  <1>4. CASE cause[t] # "fetch"
    <2>1. FlagStep(t) /\ has_error_'[t] = has_error_[t] /\ stirred'[t] = stirred[t]
      BY <1>2, <1>4, FlagKept DEF SqliteCloses, Finalizes
    <2>2. cause[t] = "none"
      BY <1>1, <1>2, <1>4 DEF Course
    <2>3. stirred[t] = FALSE => ~has_error_[t]
      BY <1>1, <1>2, <2>2 DEF Flag
    <2>4. QED
      BY <1>1, <2>1, <2>2, <2>3, ClosingKeeps
  <1>5. QED
    BY <1>3, <1>4

LEMMA MysqlGuardsKeeps == ASSUME IInv, NEW t \in Threads, MysqlGuards(t) PROVE IInv'
  BY GuardKeeps DEF MysqlGuards, Before

LEMMA MysqlRunsKeeps == ASSUME IInv, NEW t \in Threads, MysqlRuns(t) PROVE IInv'
  <1>1. /\ pc[t] = "prepare" /\ driver = "mysql"
        /\ {"close", "fetch"} \subseteq Places /\ {"lost", "prepare", "execute"} \subseteq Causes
    BY DEF MysqlRuns, Places, Causes
  <1>2. Types /\ Course(t) /\ Flag(t)
    BY ThreadFacts
  <1>3. ASSUME NEW why \in {"lost", "prepare", "execute"}, Leave(t, "close", why),
               Report(t, TRUE), Notice(t)
        PROVE  IInv'
    <2>1. FlagStep(t) /\ has_error_'[t] = TRUE /\ LinkStep(t)
      BY <1>2, <1>3, ReportFacts, NoticeFacts
    <2>2. pc'[t] = "close" /\ cause'[t] = why /\ driver' = driver
      BY <1>1, <1>3, LeaveFacts
    <2>3. Course(t)' /\ Flag(t)' /\ Told(t)'
      BY <1>1, <1>3, <2>1, <2>2, LeftEmpty DEF Flag, Told
    <2>4. QED
      BY <1>1, <1>3, <2>1, <2>3, LeaveKeeps
  <1>4. CASE UNCHANGED flag /\ Continue(t, "fetch")
    <2>1. FlagStep(t) /\ has_error_'[t] = has_error_[t] /\ stirred'[t] = stirred[t]
      BY <1>2, <1>4, FlagKept
    <2>2. /\ pc'[t] = "fetch" /\ driver' = driver
          /\ answer' = answer /\ kept' = kept /\ cause' = cause
      BY <1>1, <1>4, ContinueFacts
    <2>3. Course(t)' /\ Flag(t)' /\ Told(t)'
      BY <1>1, <1>2, <2>1, <2>2 DEF Course, Flag, Told, Before
    <2>4. QED
      BY <1>1, <1>4, <2>1, <2>3, ContinueKeeps
  <1>5. QED
    BY <1>3, <1>4 DEF MysqlRuns

LEMMA MysqlFetchFailsKeeps ==
  ASSUME IInv, NEW t \in Threads, MysqlFetchFails(t)
  PROVE  IInv'
  <1>1. /\ driver = "mysql" /\ Leave(t, "close", "fetch")
        /\ "close" \in Places /\ "fetch" \in Causes
    BY DEF MysqlFetchFails, Places, Causes
  <1>2. FlagStep(t) /\ LinkStep(t)
    BY FlagKept, NoticeFacts DEF MysqlFetchFails, IInv
  <1>3. pc'[t] = "close" /\ cause'[t] = "fetch" /\ driver' = driver
    BY <1>1, LeaveFacts
  <1>4. Course(t)' /\ Flag(t)' /\ Told(t)'
    BY <1>1, <1>3, LeftEmpty DEF Flag, Told
  <1>5. QED
    BY <1>1, <1>2, <1>4, LeaveKeeps

LEMMA MysqlClosesKeeps == ASSUME IInv, NEW t \in Threads, MysqlCloses(t) PROVE IInv'
  <1>1. pc[t] = "close" /\ driver = "mysql" /\ Continue(t, "returned")
    BY DEF MysqlCloses
  <1>2. Course(t) /\ Flag(t) /\ Types
    BY ThreadFacts
  <1>3. CASE link[t] # "up" /\ Report(t, TRUE)
    <2>1. FlagStep(t) /\ has_error_'[t] = TRUE
      BY <1>2, <1>3, ReportFacts
    <2>2. QED
      BY <1>1, <1>3, <2>1, ClosingKeeps
  <1>4. CASE UNCHANGED flag
    <2>1. FlagStep(t) /\ has_error_'[t] = has_error_[t] /\ stirred'[t] = stirred[t]
      BY <1>2, <1>4, FlagKept
    <2>2. cause[t] \in {"none", "fetch", "prepare", "execute", "lost"}
      BY <1>1, <1>2 DEF Course
    <2>3. <<driver, "fetch">> \in Unreported
      BY <1>1 DEF Unreported
    <2>4. stirred[t] = FALSE =>
            /\ cause[t] = "none" => ~has_error_[t]
            /\ cause[t] \in {"prepare", "execute", "lost"} => has_error_[t]
      BY <1>1, <1>2 DEF Flag
    <2>5. stirred'[t] = FALSE =>
            /\ cause[t] # "none" /\ <<driver, cause[t]>> \notin Unreported => has_error_'[t]
            /\ has_error_'[t] => cause[t] # "none" \/ link[t] # "up"
      BY <2>1, <2>2, <2>3, <2>4
    <2>6. QED
      BY <1>1, <2>1, <2>5, ClosingKeeps
  <1>5. QED
    BY <1>3, <1>4 DEF MysqlCloses

LEMMA PgNothingKeeps == ASSUME IInv, NEW t \in Threads, PgNothing(t) PROVE IInv'
  <1>1. /\ driver = "postgresql" /\ Leave(t, "returned", "gone") /\ UNCHANGED link
        /\ "returned" \in Places /\ "gone" \in Causes /\ Report(t, FALSE)
    BY DEF PgNothing, Places, Causes
  <1>2. FlagStep(t) /\ LinkStep(t)
    BY <1>1, ReportFacts, LinkKept DEF IInv
  <1>3. pc'[t] = "returned" /\ cause'[t] = "gone" /\ driver' = driver
    BY <1>1, LeaveFacts
  <1>4. <<driver, "gone">> \in Unreported
    BY <1>1 DEF Unreported
  <1>5. Course(t)' /\ Flag(t)' /\ Told(t)'
    BY <1>1, <1>3, <1>4, LeftEmpty DEF Flag, Told, Unreported
  <1>6. QED
    BY <1>1, <1>2, <1>5, LeaveKeeps

LEMMA PgPreparesKeeps == ASSUME IInv, NEW t \in Threads, PgPrepares(t) PROVE IInv'
  <1>1. /\ pc[t] = "start" /\ driver = "postgresql"
        /\ {"returned", "exec"} \subseteq Places /\ "prepare" \in Causes
    BY DEF PgPrepares, Places, Causes
  <1>2. Types /\ Course(t)
    BY ThreadFacts
  <1>3. CASE UNCHANGED flag /\ Continue(t, "exec")
    <2>1. FlagStep(t)
      BY <1>2, <1>3, FlagKept
    <2>2. /\ pc'[t] = "exec" /\ driver' = driver
          /\ answer' = answer /\ kept' = kept /\ cause' = cause
      BY <1>1, <1>3, ContinueFacts
    <2>3. Course(t)' /\ Flag(t)' /\ Told(t)'
      BY <1>1, <1>2, <2>2 DEF Course, Flag, Told, Before
    <2>4. QED
      BY <1>1, <1>3, <2>1, <2>3, ContinueKeeps
  <1>4. CASE Guard(t, "exec")
    BY <1>1, <1>4, GuardKeeps DEF Before
  <1>5. CASE Report(t, TRUE) /\ Leave(t, "returned", "prepare") /\ Notice(t)
    <2>1. FlagStep(t) /\ has_error_'[t] = TRUE /\ LinkStep(t)
      BY <1>2, <1>5, ReportFacts, NoticeFacts
    <2>2. pc'[t] = "returned" /\ cause'[t] = "prepare"
      BY <1>1, <1>5, LeaveFacts
    <2>3. Course(t)' /\ Flag(t)' /\ Told(t)'
      BY <1>1, <1>5, <2>1, <2>2, LeftEmpty DEF Flag, Told
    <2>4. QED
      BY <1>1, <1>5, <2>1, <2>3, LeaveKeeps
  <1>6. QED
    BY <1>3, <1>4, <1>5 DEF PgPrepares

LEMMA PgExecutesKeeps == ASSUME IInv, NEW t \in Threads, PgExecutes(t) PROVE IInv'
  <1>1. /\ pc[t] = "exec" /\ driver = "postgresql"
        /\ "close" \in Places /\ "execute" \in Causes
    BY DEF PgExecutes, Places, Causes
  <1>2. CASE Guard(t, "fetch")
    BY <1>1, <1>2, GuardKeeps DEF Before
  <1>3. CASE Report(t, FALSE) /\ Leave(t, "close", "execute") /\ Notice(t)
    <2>1. FlagStep(t) /\ LinkStep(t)
      BY <1>3, ReportFacts, NoticeFacts DEF IInv
    <2>2. pc'[t] = "close" /\ cause'[t] = "execute" /\ driver' = driver
      BY <1>1, <1>3, LeaveFacts
    <2>3. Course(t)' /\ Flag(t)' /\ Told(t)'
      BY <1>1, <1>3, <2>2, LeftEmpty DEF Flag, Told
    <2>4. QED
      BY <1>1, <1>3, <2>1, <2>3, LeaveKeeps
  <1>4. QED
    BY <1>2, <1>3 DEF PgExecutes

LEMMA PgClosesKeeps == ASSUME IInv, NEW t \in Threads, PgCloses(t) PROVE IInv'
  <1>1. pc[t] = "close" /\ driver = "postgresql" /\ Continue(t, "returned")
    BY DEF PgCloses
  <1>2. Course(t) /\ Flag(t) /\ Types
    BY ThreadFacts
  <1>3. CASE cause[t] = "execute"
    <2>1. FlagStep(t) /\ has_error_'[t] = TRUE
      BY <1>2, <1>3, ReportFacts DEF PgCloses
    <2>2. QED
      BY <1>1, <1>3, <2>1, ClosingKeeps
  <1>4. CASE cause[t] # "execute"
    <2>1. FlagStep(t) /\ has_error_'[t] = has_error_[t] /\ stirred'[t] = stirred[t]
      BY <1>2, <1>4, FlagKept DEF PgCloses
    <2>2. cause[t] = "none"
      BY <1>1, <1>2, <1>4 DEF Course
    <2>3. stirred[t] = FALSE => ~has_error_[t]
      BY <1>1, <1>2, <2>2 DEF Flag
    <2>4. QED
      BY <1>1, <2>1, <2>2, <2>3, ClosingKeeps
  <1>5. QED
    BY <1>3, <1>4

LEMMA AsyncFailsKeeps == ASSUME IInv, NEW t \in Threads, AsyncFails(t) PROVE IInv'
  <1> DEFINE why == IF Unsent(t) THEN "lost" ELSE "execute"
  <1>1. /\ driver = "mysql_async" /\ Leave(t, "returned", why)
        /\ "returned" \in Places /\ why \in Causes /\ why # "none"
        /\ Report(t, TRUE) /\ Notice(t)
    BY DEF AsyncFails, Places, Causes
  <1> HIDE DEF why
  <1>2. FlagStep(t) /\ has_error_'[t] = TRUE /\ LinkStep(t)
    BY <1>1, ReportFacts, NoticeFacts DEF IInv
  <1>3. pc'[t] = "returned" /\ cause'[t] = why /\ driver' = driver
    BY <1>1, LeaveFacts
  <1>4. Course(t)' /\ Flag(t)' /\ Told(t)'
    BY <1>1, <1>2, <1>3, LeftEmpty DEF Flag, Told
  <1>5. QED
    BY <1>1, <1>2, <1>4, LeaveKeeps

LEMMA FetchEndsKeeps == ASSUME IInv, NEW t \in Threads, FetchEnds(t) PROVE IInv'
  <1> DEFINE place == IF driver = "mysql_async" THEN "returned" ELSE "close"
  <1>1. /\ pc[t] = "fetch" /\ Leave(t, place, "none") /\ UNCHANGED <<flag, link>>
        /\ place \in {"returned", "close"} /\ place \in Places /\ "none" \in Causes
        /\ place = "returned" <=> driver = "mysql_async"
    BY DEF FetchEnds, Places, Causes
  <1> HIDE DEF place
  <1>2. /\ FlagStep(t) /\ LinkStep(t)
        /\ has_error_'[t] = has_error_[t] /\ stirred'[t] = stirred[t]
    BY <1>1, FlagKept, LinkKept DEF IInv
  <1>3. pc'[t] = place /\ cause'[t] = "none" /\ driver' = driver
    BY <1>1, LeaveFacts
  <1>4. /\ driver \in {"sqlite", "mysql", "postgresql", "mysql_async"}
        /\ Flag(t)
    BY ThreadFacts
  <1>5. Course(t)'
    BY <1>1, <1>4, LeftEmpty
  <1>6. Flag(t)' /\ Told(t)'
    BY <1>1, <1>2, <1>3, <1>4 DEF Flag, Told
  <1>7. QED
    BY <1>1, <1>2, <1>5, <1>6, LeaveKeeps

-----------------------------------------------------------------------------
(* Calls begin, rows arrive, and the link changes                          *)

LEMMA BeginKeeps == ASSUME IInv, NEW t \in Threads, NEW c \in Calls, Begin(t, c) PROVE IInv'
  <1>1. /\ pc[t] \in {"idle", "returned"} /\ "start" \in Places /\ "none" \in Causes
        /\ pc' = [pc EXCEPT ![t] = "start"]
        /\ call' = [call EXCEPT ![t] = c]
        /\ answer' = [answer EXCEPT ![t] = <<>>]
        /\ cause' = [cause EXCEPT ![t] = "none"]
        /\ UNCHANGED <<driver, flag, link, kept>>
    BY DEF Begin, Goto, Places, Causes
  <1>2. /\ Types /\ pc \in [Threads -> Places] /\ cause \in [Threads -> Causes]
        /\ call \in [Threads -> Calls] /\ answer \in [Threads -> Seq(Values)]
        /\ kept \in [Threads -> BOOLEAN]
    BY DEF IInv, Types, TypeOK
  <1>3. FlagStep(t) /\ LinkStep(t)
    BY <1>1, <1>2, FlagKept, LinkKept
  <1>4. <<>> \in Seq(Values) /\ Len(<<>>) = 0 /\ 0 <= MaxRows
    BY QueryAssumption
  <1>5. /\ pc'[t] = "start" /\ answer'[t] = <<>> /\ cause'[t] = "none" /\ kept' = kept
        /\ answer' \in [Threads -> Seq(Values)] /\ call' \in [Threads -> Calls]
        /\ cause' \in [Threads -> Causes]
        /\ \A u \in Threads \ {t} :
             call'[u] = call[u] /\ cause'[u] = cause[u] /\ answer'[u] = answer[u]
    BY <1>1, <1>2, <1>4
  <1>6. \A u \in Threads \ {t} : Loses(u)
    BY <1>2, <1>5, RowsStay
  <1>7. Moves(t, "start")
    BY <1>1, <1>2, <1>4, <1>5, <1>6 DEF Moves
  <1>8. kept[t] = FALSE
    BY <1>1, <1>2, ThreadFacts DEF Course
  <1>9. ThreadInv(t)'
    BY <1>4, <1>5, <1>8 DEF ThreadInv, Course, Flag, Told, Own, Before
  <1>10. QED
    BY <1>1, <1>3, <1>7, <1>9, StepKeeps

LEMMA ConnectKeeps == ASSUME IInv, NEW t \in Threads, Connect(t) PROVE IInv'
  <1>1. /\ pc[t] \in {"idle", "returned"} /\ "idle" \in Places
        /\ pc' = [pc EXCEPT ![t] = "idle"] /\ link' = [link EXCEPT ![t] = "up"]
        /\ Report(t, FALSE)
        /\ UNCHANGED <<driver, call, cause, kept, answer>>
    BY DEF Connect, Goto, Places, reading
  <1>2. /\ Types /\ pc \in [Threads -> Places] /\ cause \in [Threads -> Causes]
        /\ call \in [Threads -> Calls] /\ answer \in [Threads -> Seq(Values)]
        /\ kept \in [Threads -> BOOLEAN] /\ link \in [Threads -> {"up", "cut", "down"}]
        /\ Len(answer[t]) <= MaxRows /\ (~Reads(t) => answer[t] = <<>>)
    BY DEF IInv, Types, TypeOK
  <1>3. FlagStep(t) /\ LinkStep(t)
    BY <1>1, <1>2, ReportFacts DEF LinkStep
  <1>4. \A u \in Threads : Loses(u)
    BY <1>1, <1>2, RowsStay
  <1>5. Moves(t, "idle")
    BY <1>1, <1>2, <1>4 DEF Moves, Reads
  <1>6. pc'[t] = "idle"
    BY <1>1, <1>2
  <1>7. Own(t)'
    BY <1>1, OwnStays
  <1>8. Course(t)' /\ Flag(t)' /\ Told(t)'
    BY <1>1, <1>2, <1>6, ThreadFacts DEF Course, Flag, Told, Before
  <1>9. QED
    BY <1>1, <1>3, <1>5, <1>7, <1>8, StepKeeps DEF ThreadInv

LEMMA LinkCutKeeps == ASSUME IInv, NEW t \in Threads, LinkCut(t) PROVE IInv'
  <1> DEFINE place == pc[t]
  <1>1. /\ link' = [link EXCEPT ![t] = "cut"]
        /\ UNCHANGED <<driver, flag, pc, call, cause, kept, answer>>
    BY DEF LinkCut, reading
  <1>2. /\ Types /\ pc \in [Threads -> Places] /\ cause \in [Threads -> Causes]
        /\ call \in [Threads -> Calls] /\ answer \in [Threads -> Seq(Values)]
        /\ kept \in [Threads -> BOOLEAN] /\ link \in [Threads -> {"up", "cut", "down"}]
        /\ Len(answer[t]) <= MaxRows /\ (~Reads(t) => answer[t] = <<>>)
    BY DEF IInv, Types, TypeOK
  <1>3. place \in Places /\ pc' = [pc EXCEPT ![t] = place]
    BY <1>1, <1>2
  <1> HIDE DEF place
  <1>4. /\ FlagStep(t) /\ LinkStep(t)
        /\ has_error_'[t] = has_error_[t] /\ stirred'[t] = stirred[t]
    BY <1>1, <1>2, FlagKept DEF LinkStep
  <1>5. \A u \in Threads : Loses(u)
    BY <1>1, <1>2, RowsStay
  <1>6. Moves(t, place)
    BY <1>1, <1>2, <1>3, <1>5 DEF Moves, Reads
  <1>7. Own(t)'
    BY <1>1, OwnStays
  <1>8. link'[t] = "cut"
    BY <1>1, <1>2
  <1>9. Course(t)' /\ Flag(t)' /\ Told(t)'
    BY <1>1, <1>4, <1>8, ThreadFacts DEF Course, Flag, Told, Unreported
  <1>10. QED
    BY <1>3, <1>4, <1>6, <1>7, <1>9, StepKeeps DEF ThreadInv

\* Only the text of views is lost.
LEMMA LoseFacts ==
  ASSUME Types, NEW us, NEW outcome \in Values
  PROVE  LET rows == Lose(us, outcome)
         IN  /\ rows \in [Threads -> Seq(Values)]
             /\ \A u \in Threads :
                  /\ Len(rows[u]) = Len(answer[u])
                  /\ \A i \in 1..Len(answer[u]) :
                       \/ rows[u][i] = answer[u][i]
                       \/ u \in us /\ call[u].field = "view" /\ rows[u][i] = outcome
                  /\ u \notin us => rows[u] = answer[u]
  <1> DEFINE rows == Lose(us, outcome)
  <1>1. ASSUME NEW u \in Threads
        PROVE  /\ rows[u] \in Seq(Values) /\ Len(rows[u]) = Len(answer[u])
               /\ \A i \in 1..Len(answer[u]) :
                    \/ rows[u][i] = answer[u][i]
                    \/ u \in us /\ call[u].field = "view" /\ rows[u][i] = outcome
               /\ u \notin us => rows[u] = answer[u]
    <2>1. /\ answer[u] \in Seq(Values) /\ DOMAIN answer[u] = 1..Len(answer[u])
          /\ Len(answer[u]) \in Nat
      BY DEF Types
    <2>2. rows[u] = [i \in 1..Len(answer[u]) |->
                       IF u \in us /\ call[u].field = "view" /\ answer[u][i] = "own"
                         THEN outcome ELSE answer[u][i]]
      BY <2>1 DEF Lose
    <2> HIDE DEF rows
    <2>3. \A i \in 1..Len(answer[u]) : answer[u][i] \in Values
      BY <2>1
    <2>4. rows[u] \in Seq(Values) /\ Len(rows[u]) = Len(answer[u])
      BY <2>1, <2>2, <2>3
    <2>5. \A i \in 1..Len(answer[u]) :
            \/ rows[u][i] = answer[u][i]
            \/ u \in us /\ call[u].field = "view" /\ rows[u][i] = outcome
      BY <2>2
    <2>6. u \notin us => rows[u] = answer[u]
      BY <2>1, <2>2
    <2>7. QED
      BY <2>4, <2>5, <2>6
  <1>2. rows = [u \in Threads |-> rows[u]]
    BY DEF Lose
  <1> HIDE DEF rows
  <1>3. rows \in [Threads -> Seq(Values)]
    BY <1>1, <1>2
  <1>4. QED
    BY <1>1, <1>3 DEF rows

LEMMA AsyncReceivesKeeps == ASSUME IInv, NEW t \in Threads, AsyncReceives(t) PROVE IInv'
  <1> DEFINE rows == Lose(Threads \ {t}, "taken")
  <1>1. /\ pc[t] = "start" /\ driver = "mysql_async" /\ "fetch" \in Places
        /\ pc' = [pc EXCEPT ![t] = "fetch"]
        /\ call' = [call EXCEPT ![t].args = "none"]
        /\ answer' = IF Reads(t) THEN rows ELSE answer
        /\ UNCHANGED <<driver, flag, link, kept, cause>>
    BY DEF AsyncReceives, Goto, Places
  <1>2. /\ Types /\ pc \in [Threads -> Places] /\ cause \in [Threads -> Causes]
        /\ answer \in [Threads -> Seq(Values)] /\ kept \in [Threads -> BOOLEAN]
        /\ Len(answer[t]) <= MaxRows /\ (~Reads(t) => answer[t] = <<>>)
    BY DEF IInv, Types, TypeOK
  <1>3. answer[t] = <<>> /\ kept[t] = FALSE /\ cause[t] = "none"
    BY <1>1, <1>2, ThreadFacts DEF Course, Before
  <1>4. /\ rows \in [Threads -> Seq(Values)] /\ rows[t] = answer[t]
        /\ \A u \in Threads :
             /\ Len(rows[u]) = Len(answer[u])
             /\ \A i \in 1..Len(answer[u]) :
                  rows[u][i] = answer[u][i] \/ (call[u].field = "view" /\ rows[u][i] = "taken")
    <2>1. "taken" \in Values
      BY DEF Values
    <2>2. QED
      BY <1>2, <2>1, LoseFacts
  <1> HIDE DEF rows
  <1>5. /\ answer' \in [Threads -> Seq(Values)] /\ answer'[t] = <<>>
        /\ \A u \in Threads : Loses(u)
    <2>1. CASE Reads(t)
      BY <1>1, <1>3, <1>4, <2>1 DEF Loses
    <2>2. CASE ~Reads(t)
      BY <1>1, <1>2, <1>3, <2>2, RowsStay
    <2>3. QED
      BY <2>1, <2>2
  <1>6. /\ call' \in [Threads -> Calls]
        /\ call'[t].field = call[t].field /\ Reads(t)' = Reads(t)
        /\ \A u \in Threads \ {t} : call'[u] = call[u]
    BY <1>1, <1>2, CallPassed
  <1>7. FlagStep(t) /\ LinkStep(t)
    BY <1>1, <1>2, FlagKept, LinkKept
  <1>8. pc'[t] = "fetch"
    BY <1>1, <1>2
  <1>9. Moves(t, "fetch")
    BY <1>1, <1>2, <1>3, <1>5, <1>6 DEF Moves
  <1>10. Course(t)' /\ Flag(t)' /\ Told(t)'
    BY <1>1, <1>3, <1>5, <1>8 DEF Course, Flag, Told, Before
  <1>11. Own(t)'
    BY <1>1, <1>5, <1>6, OwnStays
  <1>12. QED
    BY <1>1, <1>7, <1>9, <1>10, <1>11, StepKeeps DEF ThreadInv

\* What the next text does to the views that were read before it.
LEMMA OverwrittenFacts ==
  ASSUME Types, NEW t \in Threads, NEW null \in BOOLEAN
  PROVE  LET rows == Overwritten(t, null)
         IN  /\ rows \in [Threads -> Seq(Values)]
             /\ \A u \in Threads :
                  /\ Len(rows[u]) = Len(answer[u])
                  /\ \A i \in 1..Len(answer[u]) :
                       \/ rows[u][i] = answer[u][i]
                       \/ /\ call[u].field = "view"
                          /\ \/ u # t /\ rows[u][i] = "taken"
                             \/ u = t /\ driver # "mysql_async" /\ rows[u][i] = "shifted"
  <1> DEFINE taken == Lose(Threads \ {t}, "taken")
             shifted == Lose({t}, "shifted")
  <1>1. {"taken", "shifted"} \subseteq Values
    BY DEF Values
  <1>2. /\ taken \in [Threads -> Seq(Values)]
        /\ \A u \in Threads \ {t} :
             /\ Len(taken[u]) = Len(answer[u])
             /\ \A i \in 1..Len(answer[u]) :
                  taken[u][i] = answer[u][i] \/ (call[u].field = "view" /\ taken[u][i] = "taken")
    BY <1>1, LoseFacts
  <1>3. /\ shifted \in [Threads -> Seq(Values)]
        /\ Len(shifted[t]) = Len(answer[t])
        /\ \A i \in 1..Len(answer[t]) :
             shifted[t][i] = answer[t][i] \/ (call[t].field = "view" /\ shifted[t][i] = "shifted")
    BY <1>1, LoseFacts
  <1> DEFINE rows == Overwritten(t, null)
  <1>4. rows = IF Assigns(t, null) THEN [taken EXCEPT ![t] = shifted[t]] ELSE answer
    BY DEF Overwritten
  <1> HIDE DEF taken, shifted, rows
  <1>5. CASE Assigns(t, null)
    <2>1. driver # "mysql_async"
      BY <1>5 DEF Assigns
    <2>2. /\ rows \in [Threads -> Seq(Values)] /\ rows[t] = shifted[t]
          /\ \A u \in Threads \ {t} : rows[u] = taken[u]
      BY <1>2, <1>3, <1>4, <1>5
    <2>3. QED
      BY <1>2, <1>3, <2>1, <2>2 DEF rows
  <1>6. CASE ~Assigns(t, null)
    <2>1. rows = answer /\ answer \in [Threads -> Seq(Values)]
      BY <1>4, <1>6 DEF Types
    <2>2. QED
      BY <2>1 DEF rows
  <1>7. QED
    BY <1>5, <1>6

\* A field is read as sent, or as Admitted says of the last row.
LEMMA ReadFacts ==
  ASSUME NEW t \in Threads, NEW null \in BOOLEAN
  PROVE  /\ ReadField(t, null) \in {"own", "earlier", "undefined"}
         /\ ReadField(t, null) = "earlier" =>
              driver = "mysql" /\ call[t].field = "enum" /\ kept[t]
         /\ ReadField(t, null) = "undefined" =>
              driver = "mysql" /\ call[t].field = "optional_enum"
  BY DEF ReadField, FreshObject, BoundObject

LEMMA FetchRowKeeps ==
  ASSUME IInv, NEW t \in Threads, NEW null \in BOOLEAN, FetchRow(t, null)
  PROVE  IInv'
  <1> DEFINE rows == Overwritten(t, null)
             field == ReadField(t, null)
             more == Append(rows[t], field)
             full == call[t].field = "enum" /\ (kept[t] \/ ~null)
  <1>1. /\ pc[t] = "fetch" /\ Reads(t) /\ Len(answer[t]) < MaxRows
        /\ answer' = [rows EXCEPT ![t] = more]
        /\ kept' = [kept EXCEPT ![t] = full]
        /\ UNCHANGED <<driver, flag, link, pc, call, cause>>
    BY DEF FetchRow
  <1>2. /\ Types /\ pc \in [Threads -> Places] /\ cause \in [Threads -> Causes]
        /\ call \in [Threads -> Calls] /\ "fetch" \in Places
        /\ answer \in [Threads -> Seq(Values)] /\ kept \in [Threads -> BOOLEAN]
    BY DEF IInv, Types, TypeOK, Places
  <1>3. /\ Course(t) /\ Flag(t) /\ Own(t)
        /\ driver \in {"sqlite", "mysql", "postgresql", "mysql_async"}
    BY ThreadFacts
  <1>4. full \in BOOLEAN
    OBVIOUS
  <1>5. /\ rows \in [Threads -> Seq(Values)]
        /\ \A u \in Threads :
             /\ Len(rows[u]) = Len(answer[u])
             /\ \A i \in 1..Len(answer[u]) :
                  \/ rows[u][i] = answer[u][i]
                  \/ /\ call[u].field = "view"
                     /\ \/ u # t /\ rows[u][i] = "taken"
                        \/ u = t /\ driver # "mysql_async" /\ rows[u][i] = "shifted"
    BY <1>2, OverwrittenFacts
  <1>6. /\ field \in Values
        /\ field \in {"own", "earlier", "undefined"}
        /\ field = "earlier" => driver = "mysql" /\ call[t].field = "enum" /\ kept[t]
        /\ field = "undefined" => driver = "mysql" /\ call[t].field = "optional_enum"
    BY ReadFacts DEF Values
  <1> HIDE DEF rows, field, full
  <1> DEFINE n == Len(answer[t])
  <1>7. n \in Nat /\ rows[t] \in Seq(Values) /\ Len(rows[t]) = n
    BY <1>2, <1>5
  <1>8. /\ more \in Seq(Values) /\ Len(more) = n + 1 /\ more[n + 1] = field
        /\ \A i \in 1..n : more[i] = rows[t][i]
    BY <1>6, <1>7
  <1> HIDE DEF more
  <1>9. /\ answer' \in [Threads -> Seq(Values)] /\ answer'[t] = more
        /\ \A u \in Threads \ {t} : answer'[u] = rows[u]
    BY <1>1, <1>5, <1>8
  <1>10. /\ kept' \in [Threads -> BOOLEAN]
         /\ \A u \in Threads \ {t} : kept'[u] = kept[u]
    BY <1>1, <1>2, <1>4
  <1>11. answer'[t] # <<>>
    BY <1>7, <1>8, <1>9, EmptyOrNot
  <1>12. Moves(t, "fetch")
    <2>1. \A u \in Threads \ {t} : Loses(u)
      BY <1>5, <1>9 DEF Loses
    <2>2. Len(answer'[t]) <= MaxRows
      BY <1>1, <1>7, <1>8, <1>9, QueryAssumption
    <2>3. pc' = [pc EXCEPT ![t] = "fetch"] /\ Reads(t)' = Reads(t)
      BY <1>1, <1>2 DEF Reads
    <2>4. QED
      BY <1>1, <1>2, <1>9, <1>10, <2>1, <2>2, <2>3 DEF Moves
  <1>13. FlagStep(t) /\ LinkStep(t)
    BY <1>1, <1>2, FlagKept, LinkKept
  <1>14. Course(t)'
    BY <1>1, <1>3, <1>11 DEF Course, Before
  <1>15. Flag(t)' /\ Told(t)'
    BY <1>1, <1>3 DEF Flag, Told, flag
  <1>16. Own(t)'
    <2> SUFFICES ASSUME NEW i \in 1..(n + 1)
                 PROVE  more[i] \in {"own"} \cup Admitted(t, i)'
      BY <1>8, <1>9 DEF Own
    <2>1. /\ driver' = driver /\ call' = call /\ Len(answer'[t]) = n + 1 /\ n \in Nat
          /\ i \in Nat /\ i >= 1
      BY <1>1, <1>7, <1>8, <1>9
    <2>2. CASE i \in 1..n
      <3>1. answer[t][i] \in {"own"} \cup Admitted(t, i)
        BY <1>3, <2>2 DEF Own
      <3>2. Admitted(t, i) \subseteq Admitted(t, i)'
        BY <2>1, <2>2 DEF Admitted
      <3>3. CASE more[i] = answer[t][i]
        BY <3>1, <3>2, <3>3
      <3>4. CASE call[t].field = "view" /\ driver # "mysql_async" /\ more[i] = "shifted"
        <4>1. i < n + 1
          BY <2>1, <2>2
        <4>2. Admitted(t, i)' = {"shifted", "taken"}
          BY <2>1, <3>4, <4>1 DEF Admitted
        <4>3. QED
          BY <3>4, <4>2
      <3>5. QED
        BY <1>5, <1>8, <2>2, <3>3, <3>4
    <2>3. CASE i = n + 1
      <3>1. more[i] = field
        BY <1>8, <2>3
      <3>2. kept[t] => i > 1
        BY <1>2, <1>3, <1>7, <2>3, EmptyOrNot DEF Course
      <3>3. field = "earlier" => "earlier" \in Admitted(t, i)'
        BY <1>6, <2>1, <3>2 DEF Admitted
      <3>4. field = "undefined" => "undefined" \in Admitted(t, i)'
        BY <1>6, <2>1 DEF Admitted
      <3>5. QED
        BY <1>6, <3>1, <3>3, <3>4
    <2>4. QED
      BY <1>7, <2>2, <2>3
  <1>17. QED
    BY <1>2, <1>12, <1>13, <1>14, <1>15, <1>16, StepKeeps DEF ThreadInv

-----------------------------------------------------------------------------
(* The theorems                                                            *)

LEMMA InitHolds == Init => IInv
  <1> SUFFICES ASSUME Init PROVE IInv
    OBVIOUS
  <1> DEFINE none == Call(FALSE, "none", "plain")
  <1>1. none \in Calls /\ none.reads = FALSE
    BY DEF Call, Calls
  <1>2. call = [t \in Threads |-> none]
    BY DEF Init
  <1> HIDE DEF none
  <1>3. <<>> \in Seq(Values) /\ Len(<<>>) = 0 /\ 0 <= MaxRows
    BY QueryAssumption
  <1>4. /\ driver \in Drivers
        /\ has_error_ \in [Threads -> BOOLEAN] /\ stirred \in [Threads -> BOOLEAN]
        /\ link \in [Threads -> {"up", "cut", "down"}]
        /\ pc \in [Threads -> Places] /\ cause \in [Threads -> Causes]
        /\ kept \in [Threads -> BOOLEAN]
    BY DEF Init, Places, Causes
  <1>5. answer = [t \in Threads |-> <<>>]
    BY DEF Init
  <1>6. answer \in [Threads -> Seq(Values)] /\ call \in [Threads -> Calls]
    BY <1>1, <1>2, <1>3, <1>5
  <1>7. \A t \in Threads : /\ call[t] \in Calls
                           /\ Len(answer[t]) <= MaxRows
                           /\ ~Reads(t) => answer[t] = <<>>
    BY <1>1, <1>2, <1>3, <1>5
  <1>8. Types
    BY <1>4, <1>6, <1>7 DEF Types, TypeOK
  <1>9. ASSUME NEW t \in Threads PROVE ThreadInv(t)
    <2>1. /\ pc[t] = "idle" /\ has_error_[t] = FALSE /\ kept[t] = FALSE
          /\ answer[t] = <<>>
      BY DEF Init
    <2>2. Course(t) /\ Flag(t) /\ Told(t)
      BY <2>1 DEF Course, Flag, Told, Before
    <2>3. Own(t)
      BY <1>3, <2>1 DEF Own
    <2>4. QED
      BY <2>2, <2>3 DEF ThreadInv
  <1>10. QED
    BY <1>8, <1>9 DEF IInv

LEMMA StutterKeeps == IInv /\ UNCHANGED vars => IInv'
  BY DEF IInv, Types, TypeOK, ThreadInv, Course, Flag, Told, Own, Admitted, Reads,
         Unreported, vars

LEMMA NextKeeps == IInv /\ Next => IInv'
  <1> SUFFICES ASSUME IInv, NEW t \in Threads,
                      \/ \E c \in Calls : Begin(t, c)
                      \/ Miscounts(t)
                      \/ SqliteStep(t) \/ MysqlStep(t) \/ PgStep(t) \/ AsyncStep(t)
                      \/ \E null \in BOOLEAN : FetchRow(t, null)
                      \/ FetchEnds(t)
                      \/ Connect(t) \/ LinkCut(t)
               PROVE  IInv'
    BY DEF Next
  <1>1. CASE \E c \in Calls : Begin(t, c)
    BY <1>1, BeginKeeps
  <1>2. CASE Miscounts(t)
    BY <1>2, MiscountsKeeps
  <1>3. CASE SqliteStep(t)
    BY <1>3, SqlitePreparesKeeps, SqliteGuardsKeeps, SqliteStepFailsKeeps,
       SqliteClosesKeeps DEF SqliteStep
  <1>4. CASE MysqlStep(t)
    BY <1>4, MysqlGuardsKeeps, MysqlRunsKeeps, MysqlFetchFailsKeeps,
       MysqlClosesKeeps DEF MysqlStep
  <1>5. CASE PgStep(t)
    BY <1>5, PgNothingKeeps, PgPreparesKeeps, PgExecutesKeeps, PgClosesKeeps DEF PgStep
  <1>6. CASE AsyncStep(t)
    BY <1>6, AsyncFailsKeeps, AsyncReceivesKeeps DEF AsyncStep
  <1>7. CASE \E null \in BOOLEAN : FetchRow(t, null)
    BY <1>7, FetchRowKeeps
  <1>8. CASE FetchEnds(t)
    BY <1>8, FetchEndsKeeps
  <1>9. CASE Connect(t) \/ LinkCut(t)
    BY <1>9, ConnectKeeps, LinkCutKeeps
  <1>10. QED
    BY <1>1, <1>2, <1>3, <1>4, <1>5, <1>6, <1>7, <1>8, <1>9

LEMMA Invariance == Spec => []IInv
  <1>1. Init => IInv
    BY InitHolds
  <1>2. IInv /\ [Next]_vars => IInv'
    BY NextKeeps, StutterKeeps
  <1>3. QED
    BY <1>1, <1>2, PTL DEF Spec

\* The state of every call is of its type, no answer is longer than the bound on
\* results, and execute() and delete_records_s() collect no rows.
THEOREM TypeCorrect == Spec => []TypeOK
  <1>1. IInv => TypeOK
    BY DEF IInv, Types
  <1>2. QED
    BY <1>1, Invariance, PTL

\* has_error() after query(), query_s(), execute() and delete_records_s(), in
\* each of the four drivers, on any number of connections: what
\* set_last_error(), reset_error() and the ends of the guards leave in it tells
\* whether the call failed, but for the returns in Unreported and a link that
\* was cut after a complete answer, as long as no other connection of a driver
\* that shares the flag has written it.
THEOREM ErrorsAreTold == Spec => []ErrorTellsFailure
  <1>1. IInv => ErrorTellsFailure
    BY DEF IInv, ThreadInv, Told, ErrorTellsFailure, Returned
  <1>2. QED
    BY <1>1, Invariance, PTL

\* The rows query() and query_s() return, in results of any size: each holds
\* what the server sent for it; where the fetch loop of mysql reuses one bound
\* object, or views share one string, what a field may hold instead is what
\* Admitted names for its type and its row, and nothing else.
THEOREM RowsAreTheirOwn == Spec => []RowsAreOwn
  <1>1. IInv => RowsAreOwn
    <2> SUFFICES ASSUME IInv, NEW t \in Threads
                 PROVE  \A i \in DOMAIN answer[t] :
                          answer[t][i] \in {"own"} \cup Admitted(t, i)
      BY DEF RowsAreOwn
    <2>1. answer[t] \in Seq(Values) /\ Own(t)
      BY ThreadFacts
    <2>2. DOMAIN answer[t] = 1..Len(answer[t])
      BY <2>1
    <2>3. QED
      BY <2>1, <2>2 DEF Own
  <1>2. QED
    BY <1>1, Invariance, PTL
=============================================================================
