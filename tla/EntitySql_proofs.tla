--------------------------- MODULE EntitySql_proofs ---------------------------
(***************************************************************************)
(* Proofs about EntitySql, for a struct of any fields, any conflict keys   *)
(* and lists of members, any values and any number of rows.                *)
(*                                                                         *)
(* The column list of a statement is what InOrder finds in the fields, of  *)
(* which there may be any number.  What InOrder returns is proved by       *)
(* induction, from the fact that a set of numbers has a least element.     *)
(***************************************************************************)
EXTENDS EntitySql, FiniteSetTheorems, SequenceTheorems, TLAPS

-----------------------------------------------------------------------------
(* Induction                                                               *)

\* Of the intervals 1..n for the n of a set, one contains no other.
LEMMA LeastNumber ==
  ASSUME NEW S \in SUBSET Nat, S # {}
  PROVE  \E n \in S : \A m \in S : n <= m
  <1>1. PICK T : T = {1..n : n \in S}
    OBVIOUS
  <1>2. T \subseteq FiniteSubsetsOf(Nat) /\ T # {}
    <2>1. \A n \in S : IsFiniteSet(1..n) /\ 1..n \in SUBSET Nat
      BY FS_Interval
    <2>2. QED
      BY <1>1, <2>1 DEF FiniteSubsetsOf
  <1>3. PICK x \in T : \A y \in T : ~(<<y, x>> \in StrictSubsetOrdering(Nat))
    <2>1. IsWellFoundedOn(StrictSubsetOrdering(Nat), FiniteSubsetsOf(Nat))
      BY FS_StrictSubsetOrderingWellFounded
    <2>2. QED
      BY <1>2, <2>1, WFMin, Zenon
  <1>4. PICK n \in S : x = 1..n
    BY <1>1
  <1>5. ASSUME NEW m \in S PROVE n <= m
    <2>1. SUFFICES ASSUME m < n PROVE FALSE
      OBVIOUS
    <2>2. n \in 1..n /\ n \notin 1..m /\ 1..m \subseteq 1..n
      BY <2>1
    <2>3. 1..m \in T
      BY <1>1
    <2>4. 1..m \in SUBSET Nat /\ 1..n \in SUBSET Nat
      OBVIOUS
    <2>5. <<1..m, x>> \in StrictSubsetOrdering(Nat)
      <3>1. 1..m # x /\ 1..m \subseteq x /\ x \in SUBSET Nat
        BY <2>2, <1>4, <2>4
      <3>2. QED
        BY <2>4, <3>1, Zenon DEF StrictSubsetOrdering
    <2>6. QED
      BY <1>3, <2>3, <2>5
  <1>6. QED
    BY <1>5

LEMMA Induction ==
  ASSUME NEW S, 0 \in S, \A n \in S \cap Nat : n + 1 \in S
  PROVE  Nat \subseteq S
  <1>1. SUFFICES ASSUME Nat \ S # {} PROVE FALSE
    OBVIOUS
  <1>2. PICK n \in Nat \ S : \A m \in Nat \ S : n <= m
    BY <1>1, LeastNumber
  <1>3. n # 0 /\ n - 1 \in Nat
    BY <1>2
  <1>4. n - 1 \in S
    BY <1>2, <1>3
  <1>5. n - 1 + 1 \in S
    BY <1>3, <1>4
  <1>6. QED
    BY <1>2, <1>5

IsStep(step, S, N) == step \in [S \X (1..N) -> S]

\* The function begins with e and goes on step by step.
Follows(f, S, e, N, step) ==
  f \in [0..N -> S] /\ f[0] = e /\ \A i \in 1..N : f[i] = step[<<f[i - 1], i>>]

\* There is such a function.
LEMMA Recursion ==
  ASSUME NEW S, NEW e \in S, NEW N \in Nat, NEW step, IsStep(step, S, N)
  PROVE  \E f : Follows(f, S, e, N, step)
  <1> USE DEF IsStep
  <1>1. PICK A : A = {n \in Nat : n <= N => \E f \in [0..n -> S] :
                        f[0] = e /\ \A i \in 1..n : f[i] = step[<<f[i - 1], i>>]}
    OBVIOUS
  <1>2. 0 \in A
    <2>1. PICK g : g = [i \in 0..0 |-> e]
      OBVIOUS
    <2>2. g \in [0..0 -> S] /\ g[0] = e /\ \A i \in 1..0 : g[i] = step[<<g[i - 1], i>>]
      BY <2>1
    <2>3. \E f \in [0..0 -> S] : f[0] = e /\ \A i \in 1..0 : f[i] = step[<<f[i - 1], i>>]
      BY <2>2
    <2>4. QED
      BY <1>1, <2>3
  <1>3. ASSUME NEW n \in A \cap Nat PROVE n + 1 \in A
    <2>1. SUFFICES ASSUME n + 1 <= N
                   PROVE  \E f \in [0..n + 1 -> S] :
                            f[0] = e /\ \A i \in 1..n + 1 : f[i] = step[<<f[i - 1], i>>]
      BY <1>1
    <2>2. PICK f \in [0..n -> S] : f[0] = e /\ \A i \in 1..n : f[i] = step[<<f[i - 1], i>>]
      BY <1>1, <2>1
    <2>3. step[<<f[n], n + 1>>] \in S
      BY <2>1, <2>2
    <2>4. PICK g : g = [i \in 0..n + 1 |-> IF i = n + 1 THEN step[<<f[n], n + 1>>] ELSE f[i]]
      OBVIOUS
    <2>5. g \in [0..n + 1 -> S] /\ g[0] = e
      BY <2>2, <2>3, <2>4
    <2>6. ASSUME NEW i \in 1..n + 1 PROVE g[i] = step[<<g[i - 1], i>>]
      <3>1. CASE i = n + 1
        <4>1. i - 1 = n /\ n \in 0..n + 1 /\ n # n + 1 /\ n + 1 \in 0..n + 1
          BY <3>1
        <4>2. g[n] = f[n] /\ g[n + 1] = step[<<f[n], n + 1>>]
          BY <2>4, <4>1
        <4>3. QED
          BY <3>1, <4>1, <4>2
      <3>2. CASE i # n + 1
        <4>1. i \in 1..n /\ i - 1 \in 0..n /\ i - 1 # n + 1
          BY <3>2
        <4>2. g[i] = f[i] /\ g[i - 1] = f[i - 1]
          BY <2>4, <4>1
        <4>3. QED
          BY <2>2, <4>1, <4>2
      <3>3. QED
        BY <3>1, <3>2
    <2>7. QED
      BY <2>5, <2>6
  <1>4. N \in A
    BY <1>2, <1>3, Induction
  <1>5. QED
    BY <1>1, <1>4 DEF Follows

-----------------------------------------------------------------------------
(* InOrder                                                                 *)

\* What upto is in InOrder.
Takes(f, list, kept) ==
  \A i \in 1..Len(list) :
    f[i] = IF list[i] \in kept THEN Append(f[i - 1], list[i]) ELSE f[i - 1]

LEMMA InOrderSteps ==
  ASSUME NEW X, NEW list \in Seq(X), NEW kept
  PROVE  \E f \in [0..Len(list) -> Seq(X)] :
           f[0] = <<>> /\ Takes(f, list, kept) /\ InOrder(list, kept) = f[Len(list)]
  <1>1. Len(list) \in Nat /\ \A i \in 1..Len(list) : list[i] \in X
    OBVIOUS
  <1>2. PICK step : step = [p \in Seq(X) \X (1..Len(list)) |->
                              IF list[p[2]] \in kept THEN Append(p[1], list[p[2]]) ELSE p[1]]
    OBVIOUS
  <1>3. step \in [Seq(X) \X (1..Len(list)) -> Seq(X)]
    BY <1>1, <1>2
  <1>4. PICK S : S = Seq(X)
    OBVIOUS
  <1>5. PICK f \in [0..Len(list) -> Seq(X)] :
          f[0] = <<>> /\ \A i \in 1..Len(list) : f[i] = step[<<f[i - 1], i>>]
    <2>1. <<>> \in S /\ IsStep(step, S, Len(list))
      BY <1>3, <1>4 DEF IsStep
    <2>2. \E f : Follows(f, S, <<>>, Len(list), step)
      BY <1>1, <2>1, Recursion
    <2>3. QED
      BY <1>4, <2>2 DEF Follows
  <1>6. Takes(f, list, kept)
    <2>1. ASSUME NEW i \in 1..Len(list)
          PROVE  f[i] = IF list[i] \in kept THEN Append(f[i - 1], list[i]) ELSE f[i - 1]
      <3>1. i - 1 \in 0..Len(list)
        BY <1>1
      <3>2. <<f[i - 1], i>> \in Seq(X) \X (1..Len(list))
        BY <1>5, <3>1
      <3>3. QED
        BY <1>2, <1>5, <3>2
    <2>2. QED
      BY <2>1 DEF Takes
  <1>7. f = [n \in 0..Len(list) |->
               IF n = 0 THEN <<>>
               ELSE IF list[n] \in kept THEN Append(f[n - 1], list[n]) ELSE f[n - 1]]
    <2>1. ASSUME NEW n \in 0..Len(list)
          PROVE  f[n] = IF n = 0 THEN <<>>
                        ELSE IF list[n] \in kept THEN Append(f[n - 1], list[n]) ELSE f[n - 1]
      <3>1. n = 0 \/ n \in 1..Len(list)
        BY <1>1
      <3>2. QED
        BY <1>5, <1>6, <3>1 DEF Takes
    <2>2. QED
      BY <1>5, <2>1
  <1> DEFINE upto[n \in 0..Len(list)] ==
               IF n = 0 THEN <<>>
               ELSE IF list[n] \in kept THEN Append(upto[n - 1], list[n]) ELSE upto[n - 1]
  <1>8. upto = [n \in 0..Len(list) |->
                  IF n = 0 THEN <<>>
                  ELSE IF list[n] \in kept THEN Append(upto[n - 1], list[n]) ELSE upto[n - 1]]
    BY <1>7, Zenon
  <1>9. InOrder(list, kept) = upto[Len(list)]
    BY Zenon DEF InOrder
  <1> HIDE DEF upto
  <1>10. PICK A : A = {n \in Nat : n <= Len(list) => upto[n] = f[n]}
    OBVIOUS
  <1>11. 0 \in A
    BY <1>1, <1>5, <1>8, <1>10
  <1>12. ASSUME NEW n \in A \cap Nat PROVE n + 1 \in A
    <2>1. SUFFICES ASSUME n + 1 <= Len(list) PROVE upto[n + 1] = f[n + 1]
      BY <1>10
    <2>2. n + 1 \in 0..Len(list) /\ n + 1 # 0 /\ n + 1 - 1 = n /\ n + 1 \in 1..Len(list)
      BY <1>1, <2>1
    <2>3. upto[n] = f[n]
      BY <1>1, <1>10, <2>1
    <2>4. upto[n + 1] = IF list[n + 1] \in kept THEN Append(upto[n], list[n + 1]) ELSE upto[n]
      <3>1. PICK m : m = n + 1
        OBVIOUS
      <3>2. m \in 0..Len(list) /\ m # 0 /\ m - 1 = n
        BY <2>2, <3>1
      <3>3. upto[m] = IF list[m] \in kept THEN Append(upto[m - 1], list[m]) ELSE upto[m - 1]
        BY <1>8, <3>2
      <3>4. QED
        BY <3>1, <3>2, <3>3
    <2>5. QED
      BY <1>6, <2>2, <2>3, <2>4 DEF Takes
  <1>13. upto[Len(list)] = f[Len(list)]
    <2>1. Nat \subseteq A
      BY <1>11, <1>12, Induction
    <2>2. QED
      BY <1>1, <1>10, <2>1
  <1> QED
    BY <1>5, <1>6, <1>9, <1>13

\* What it returns: elements of the list, just those of the set.
LEMMA InOrderElements ==
  ASSUME NEW X, NEW list \in Seq(X), NEW kept
  PROVE  /\ InOrder(list, kept) \in Seq(X)
         /\ ToSet(InOrder(list, kept)) = ToSet(list) \cap kept
  <1>1. PICK f \in [0..Len(list) -> Seq(X)] :
          f[0] = <<>> /\ Takes(f, list, kept) /\ InOrder(list, kept) = f[Len(list)]
    BY InOrderSteps
  <1>2. Len(list) \in Nat /\ DOMAIN list = 1..Len(list) /\ \A i \in 1..Len(list) : list[i] \in X
    OBVIOUS
  <1>3. PICK A : A = {n \in Nat : n <= Len(list) =>
                        ToSet(f[n]) = {list[i] : i \in 1..n} \cap kept}
    OBVIOUS
  <1>4. 0 \in A
    BY <1>1, <1>3 DEF ToSet
  <1>5. ASSUME NEW n \in A \cap Nat PROVE n + 1 \in A
    <2>1. SUFFICES ASSUME n + 1 <= Len(list)
                   PROVE  ToSet(f[n + 1]) = {list[i] : i \in 1..n + 1} \cap kept
      BY <1>3
    <2>2. n \in 0..Len(list) /\ n + 1 \in 1..Len(list) /\ n + 1 - 1 = n
      BY <1>2, <2>1
    <2>3. PICK x \in X : x = list[n + 1]
      BY <1>2, <2>2
    <2>4. f[n] \in Seq(X) /\ ToSet(f[n]) = {list[i] : i \in 1..n} \cap kept
      BY <1>1, <1>3, <2>1, <2>2
    <2>5. f[n + 1] = IF x \in kept THEN Append(f[n], x) ELSE f[n]
      BY <1>1, <2>2, <2>3 DEF Takes
    <2>6. {list[i] : i \in 1..n + 1} = {list[i] : i \in 1..n} \cup {x}
      BY <2>2, <2>3
    <2>7. ToSet(Append(f[n], x)) = ToSet(f[n]) \cup {x}
      BY <2>4 DEF ToSet
    <2>8. QED
      BY <2>4, <2>5, <2>6, <2>7
  <1>6. Nat \subseteq A
    BY <1>4, <1>5, Induction
  <1>7. ToSet(f[Len(list)]) = {list[i] : i \in 1..Len(list)} \cap kept
    <2>1. Len(list) \in A /\ Len(list) <= Len(list)
      BY <1>2, <1>6
    <2>2. QED
      BY <1>3, <2>1
  <1>8. ToSet(list) = {list[i] : i \in 1..Len(list)}
    BY <1>2 DEF ToSet
  <1>9. Len(list) \in 0..Len(list)
    BY <1>2
  <1>10. QED
    BY <1>1, <1>7, <1>8, <1>9

\* Of a list with at most two elements.
LEMMA InOrderOfTwo ==
  ASSUME NEW X, NEW list \in Seq(X), NEW kept
  PROVE  /\ Len(list) = 0 => InOrder(list, kept) = <<>>
         /\ Len(list) = 1 =>
              InOrder(list, kept) = IF list[1] \in kept THEN <<list[1]>> ELSE <<>>
         /\ Len(list) = 2 /\ list[1] \in kept /\ list[2] \in kept =>
              InOrder(list, kept) = <<list[1], list[2]>>
         /\ Len(list) = 2 /\ list[1] \in kept /\ list[2] \notin kept =>
              InOrder(list, kept) = <<list[1]>>
         /\ Len(list) = 2 /\ list[1] \notin kept =>
              InOrder(list, kept) = IF list[2] \in kept THEN <<list[2]>> ELSE <<>>
  <1>1. PICK f \in [0..Len(list) -> Seq(X)] :
          f[0] = <<>> /\ Takes(f, list, kept) /\ InOrder(list, kept) = f[Len(list)]
    BY InOrderSteps
  <1>2. Len(list) \in Nat /\ \A i \in 1..Len(list) : list[i] \in X
    OBVIOUS
  <1>3. CASE Len(list) = 0
    BY <1>1, <1>3
  <1>4. ASSUME Len(list) >= 1
        PROVE  f[1] = IF list[1] \in kept THEN <<list[1]>> ELSE <<>>
    <2>1. 1 \in 1..Len(list) /\ 1 - 1 = 0
      BY <1>2, <1>4
    <2>2. f[1] = IF list[1] \in kept THEN Append(<<>>, list[1]) ELSE <<>>
      BY <1>1, <2>1 DEF Takes
    <2>3. Append(<<>>, list[1]) = <<list[1]>>
      BY <1>2, <2>1
    <2>4. QED
      BY <2>2, <2>3
  <1>5. CASE Len(list) = 1
    BY <1>1, <1>4, <1>5
  <1>6. CASE Len(list) = 2
    <2>1. 2 \in 1..Len(list) /\ 2 - 1 = 1
      BY <1>2, <1>6
    <2>2. InOrder(list, kept) = IF list[2] \in kept THEN Append(f[1], list[2]) ELSE f[1]
      BY <1>1, <1>6, <2>1 DEF Takes
    <2>3. PICK x \in X, y \in X : x = list[1] /\ y = list[2]
      BY <1>2, <1>6
    <2>4. Append(<<x>>, y) = <<x, y>> /\ Append(<<>>, y) = <<y>>
      <3>1. <<x>> \in Seq(X) /\ <<>> \in Seq(X) /\ <<x, y>> \in Seq(X) /\ <<y>> \in Seq(X)
        OBVIOUS
      <3>2. Append(<<>>, y) = <<y>>
        BY <3>1, AppendProperties, SeqEqual
      <3>3. PICK s \in Seq(X) : s = <<x>> /\ Len(s) = 1 /\ s[1] = x
        BY <3>1
      <3>4. PICK t \in Seq(X) : t = <<x, y>> /\ Len(t) = 2 /\ t[1] = x /\ t[2] = y
        BY <3>1
      <3>5. Append(s, y) \in Seq(X) /\ Len(Append(s, y)) = 2
            /\ Append(s, y)[1] = x /\ Append(s, y)[2] = y
        BY <3>3, AppendProperties
      <3>6. Append(s, y) = t
        BY <3>4, <3>5, SeqEqual
      <3>7. QED
        BY <3>2, <3>3, <3>4, <3>6
    <2>5. f[1] = IF x \in kept THEN <<x>> ELSE <<>>
      BY <1>4, <1>6, <2>3
    <2>6. InOrder(list, kept) = IF y \in kept THEN Append(f[1], y) ELSE f[1]
      BY <2>2, <2>3
    <2>7. CASE x \in kept
      BY <1>6, <2>3, <2>4, <2>5, <2>6, <2>7
    <2>8. CASE x \notin kept
      BY <1>6, <2>3, <2>4, <2>5, <2>6, <2>8
    <2>9. QED
      BY <2>7, <2>8
  <1>7. QED
    BY <1>3, <1>5, <1>6

-----------------------------------------------------------------------------
(* The registries and the table                                            *)

Lists == ConflictKeys \cup {<<>>, <<AutoField>>}

Registries ==
  /\ db \in {"sqlite", "mysql", "postgresql", "mysql_async"}
  /\ entity \in [scoped : BOOLEAN, auto : {NoField, AutoField}, conflict : ConflictKeys]
  /\ autoKeys \in [Names -> {NoField, AutoField}]
  /\ cache \in Lists
  /\ cache # <<>> => cache = get_conflict_key

\* An auto key that is counted is the whole key; one that the program registered
\* is counted, unless the struct has a namespace.
TableInv ==
  /\ table \in [made : BOOLEAN, auto : {NoField, AutoField}, keys : SUBSET Field]
  /\ table.auto # NoField => table.keys = {AutoField}
  /\ entity.auto # NoField /\ entity.scoped = FALSE =>
       get_auto_key = AutoField /\ (table.made = TRUE => table.auto = AutoField)

RowsInv ==
  /\ IsFiniteSet(rows) /\ Cardinality(rows) <= MaxRows
  /\ rows # {} => table.made = TRUE
  /\ \A r, s \in rows : r # s => ~SameKey(r, s)

Inv == Registries /\ TableInv /\ RowsInv

LEMMA Keys ==
  ASSUME Registries
  PROVE  /\ ShortName \in Names /\ FullName \in Names
         /\ get_auto_key \in {NoField, AutoField}
         /\ get_conflict_key \in Lists /\ get_conflict_keys \in Lists
         /\ Lists \subseteq Seq(Field)
         /\ AutoField \in Field /\ NoField \notin Field
  <1>1. ShortName \in Names /\ FullName \in Names
    BY DEF ShortName, FullName, Names
  <1>2. autoKeys[ShortName] \in {NoField, AutoField} /\ autoKeys[FullName] \in {NoField, AutoField}
    BY <1>1 DEF Registries
  <1>3. get_conflict_key \in Lists
    BY <1>2 DEF Registries, get_conflict_key, Lists
  <1>4. get_conflict_keys \in Lists
    BY <1>3 DEF Registries, get_conflict_keys
  <1>5. AutoField \in Field /\ NoField \notin Field /\ ConflictKeys \subseteq Seq(Field)
    BY EntityAssumption DEF Field
  <1>6. Lists \subseteq Seq(Field)
    <2>1. <<>> \in Seq(Field) /\ <<AutoField>> \in Seq(Field)
      BY <1>5
    <2>2. QED
      BY <1>5, <2>1 DEF Lists
  <1>7. QED
    BY <1>1, <1>2, <1>3, <1>4, <1>5, <1>6 DEF get_auto_key

\* As long as neither is changed, the lists of keys are the same.
LEMMA KeysKept ==
  ASSUME UNCHANGED <<db, entity, autoKeys>>
  PROVE  /\ get_auto_key' = get_auto_key /\ get_conflict_key' = get_conflict_key
         /\ (cache' = cache \/ cache' = get_conflict_keys) =>
              get_conflict_keys' = get_conflict_keys
  BY DEF get_auto_key, get_conflict_key, get_conflict_keys, FullName, ShortName

LEMMA RegistriesKept ==
  ASSUME Registries, UNCHANGED <<db, entity, autoKeys>>,
         cache' = cache \/ cache' = get_conflict_keys
  PROVE  Registries'
  <1>1. get_conflict_keys \in Lists /\ get_conflict_key' = get_conflict_key
    BY Keys, KeysKept
  <1>2. cache' \in Lists /\ (cache' # <<>> => cache' = get_conflict_key')
    BY <1>1 DEF Registries, get_conflict_keys
  <1>3. QED
    BY <1>2 DEF Registries

LEMMA TableKept ==
  ASSUME Registries, TableInv, UNCHANGED <<db, entity, autoKeys, table>>
  PROVE  TableInv'
  BY KeysKept DEF TableInv

LEMMA KeyKept ==
  ASSUME UNCHANGED <<table, rows>>, RowsInv
  PROVE  RowsInv'
  BY DEF RowsInv, SameKey

LEMMA SameKeySymmetric ==
  ASSUME NEW r, NEW s, SameKey(r, s)
  PROVE  SameKey(s, r)
  BY DEF SameKey

-----------------------------------------------------------------------------
(* The actions but for their rows.                                         *)

InsertRow(object, id) ==
  StoredRow(InsertColumns(TRUE), ValuesOf(object, BoundFields(TRUE)), id)

InsertOk(object, returning, row) ==
  /\ table.made = TRUE
  /\ Len(InsertColumns(TRUE)) = Len(ValuesOf(object, BoundFields(TRUE)))
  /\ returning = TRUE /\ db = "postgresql" => get_auto_key # NoField
  /\ Storable(row)
  /\ \A r \in rows : ~SameKey(row, r)

Answer(op, object, ok) ==
  call' = [op |-> op, object |-> object, before |-> rows, ok |-> ok]

LEMMA InsertShape ==
  ASSUME NEW object, NEW returning \in BOOLEAN, NEW id, Insert(object, returning, id),
         Registries, TableInv
  PROVE  \E ok \in BOOLEAN : \E row :
           /\ row = InsertRow(object, id)
           /\ ok = TRUE <=> InsertOk(object, returning, row)
           /\ rows' = IF ok = TRUE THEN rows \cup {row} ELSE rows
           /\ Answer("insert", object, ok)
           /\ UNCHANGED <<db, entity, autoKeys, cache, table>>
  <1>1. PICK row : row = InsertRow(object, id)
    OBVIOUS
  <1>2. table.made \in BOOLEAN
    BY DEF TableInv
  <1>3. CASE InsertOk(object, returning, row)
    <2>1. rows' = rows \cup {row} /\ Answer("insert", object, TRUE)
          /\ UNCHANGED <<db, entity, autoKeys, cache, table>>
      BY <1>1, <1>2, <1>3, Zenon DEF Insert, InsertOk, InsertRow, Answer, Answered
    <2>2. QED
      BY <1>1, <1>3, <2>1
  <1>4. CASE ~InsertOk(object, returning, row)
    <2>1. rows' = rows /\ Answer("insert", object, FALSE)
          /\ UNCHANGED <<db, entity, autoKeys, cache, table>>
      BY <1>1, <1>2, <1>4, Zenon DEF Insert, InsertOk, InsertRow, Answer, Answered
    <2>2. QED
      BY <1>1, <1>4, <2>1
  <1>5. QED
    BY <1>3, <1>4

ReplaceRow(object, id) ==
  StoredRow(InsertColumns(FALSE), ValuesOf(object, BoundFields(FALSE)), id)

ReplaceOk == table.made = TRUE /\ (db = "postgresql" => ConflictIndexed)

LEMMA ReplaceShape ==
  ASSUME NEW object, NEW id, Replace(object, id), Registries, TableInv
  PROVE  \E ok \in BOOLEAN : \E row :
           /\ row = ReplaceRow(object, id)
           /\ ok = TRUE <=> ReplaceOk
           /\ rows' = IF ok = TRUE THEN {r \in rows : ~SameKey(row, r)} \cup {row} ELSE rows
           /\ Answer("replace", object, ok)
           /\ UNCHANGED <<db, entity, autoKeys, cache, table>>
  <1>1. PICK row : row = ReplaceRow(object, id)
    OBVIOUS
  <1>2. table.made \in BOOLEAN
    BY DEF TableInv
  <1>3. CASE ReplaceOk
    <2>1. rows' = {r \in rows : ~SameKey(row, r)} \cup {row} /\ Answer("replace", object, TRUE)
          /\ UNCHANGED <<db, entity, autoKeys, cache, table>>
      BY <1>1, <1>2, <1>3, Zenon DEF Replace, ReplaceOk, ReplaceRow, Answer, Answered
    <2>2. QED
      BY <1>1, <1>3, <2>1
  <1>4. CASE ~ReplaceOk
    <2>1. rows' = rows /\ Answer("replace", object, FALSE)
          /\ UNCHANGED <<db, entity, autoKeys, cache, table>>
      BY <1>1, <1>2, <1>4, Zenon DEF Replace, ReplaceOk, ReplaceRow, Answer, Answered
    <2>2. QED
      BY <1>1, <1>4, <2>1
  <1>5. QED
    BY <1>3, <1>4

FoundBy(r, condition, where, n, bound) ==
  Matches(r, condition) /\ \A k \in DOMAIN where : r[where[k]] = bound[n + k]

At(f, columns) == {k \in DOMAIN columns : columns[k] = f}

ChangedBy(r, condition, where, set, bound) ==
  [f \in Field |-> IF FoundBy(r, condition, where, Len(set), bound) /\ At(f, set) # {}
                     THEN bound[CHOOSE k \in At(f, set) : TRUE] ELSE r[f]]

AllChanged(condition, where, set, bound) ==
  {ChangedBy(r, condition, where, set, bound) : r \in rows}

UpdateOk(condition, where, set, bound) ==
  /\ table.made = TRUE
  /\ where # <<>> \/ condition # NoCondition
  /\ Len(bound) = Len(set) + Len(where)
  /\ \A r, s \in rows : r # s => ~SameKey(ChangedBy(r, condition, where, set, bound),
                                          ChangedBy(s, condition, where, set, bound))

Asks(object, members, condition, ok) ==
  [op |-> "update", object |-> object, members |-> members,
   condition |-> condition, before |-> rows, ok |-> ok]

LEMMA UpdateShape ==
  ASSUME NEW object, NEW members, NEW condition, Update(object, members, condition),
         Registries, TableInv
  PROVE  \E ok \in BOOLEAN : \E where, set, bound :
           /\ where = WhereColumns(condition) /\ set = SetColumns(members)
           /\ bound = UpdateBinds(object, members, condition)
           /\ ok = TRUE <=> UpdateOk(condition, where, set, bound)
           /\ rows' = IF ok = TRUE THEN AllChanged(condition, where, set, bound) ELSE rows
           /\ cache' = IF condition = NoCondition THEN get_conflict_keys ELSE cache
           /\ call' = Asks(object, members, condition, ok)
           /\ UNCHANGED <<db, entity, autoKeys, table>>
  <1> DEFINE where == WhereColumns(condition)
             set == SetColumns(members)
             bound == UpdateBinds(object, members, condition)
  <1>1. table.made \in BOOLEAN
    BY DEF TableInv
  <1>2. /\ rows' = IF UpdateOk(condition, where, set, bound) 
                      THEN AllChanged(condition, where, set, bound) ELSE rows
        /\ cache' = IF condition = NoCondition THEN get_conflict_keys ELSE cache
        /\ UNCHANGED <<db, entity, autoKeys, table>>
    BY <1>1 DEF Update, UpdateOk, AllChanged, ChangedBy, FoundBy, At
  <1>3. UpdateOk(condition, where, set, bound) => call' = Asks(object, members, condition, TRUE)
    BY <1>1, Zenon DEF Update, UpdateOk, ChangedBy, FoundBy, At, Asks
  <1>4. ~UpdateOk(condition, where, set, bound) => call' = Asks(object, members, condition, FALSE)
    BY <1>1, Zenon DEF Update, UpdateOk, ChangedBy, FoundBy, At, Asks
  <1>5. /\ where = WhereColumns(condition) /\ set = SetColumns(members)
        /\ bound = UpdateBinds(object, members, condition)
    OBVIOUS
  <1> HIDE DEF where, set, bound
  <1>6. CASE UpdateOk(condition, where, set, bound)
    <2>1. rows' = AllChanged(condition, where, set, bound)
          /\ call' = Asks(object, members, condition, TRUE)
      BY <1>2, <1>3, <1>6
    <2>2. QED
      BY <1>2, <1>5, <1>6, <2>1
  <1>7. CASE ~UpdateOk(condition, where, set, bound)
    <2>1. rows' = rows /\ call' = Asks(object, members, condition, FALSE)
      BY <1>2, <1>4, <1>7
    <2>2. QED
      BY <1>2, <1>5, <1>7, <2>1
  <1>8. QED
    BY <1>6, <1>7

-----------------------------------------------------------------------------
(* update()                                                                *)

\* The values that are bound, first those of SET, then those of WHERE.
LEMMA ValuesInOrder ==
  ASSUME NEW object \in Objects, NEW s \in Seq(Field), NEW w \in Seq(Field)
  PROVE  /\ ValuesOf(object, s \o w) \in Seq(Values \cup NewIds)
         /\ Len(ValuesOf(object, s \o w)) = Len(s) + Len(w)
         /\ \A k \in 1..Len(s) : ValuesOf(object, s \o w)[k] = object[s[k]]
         /\ \A k \in 1..Len(w) : ValuesOf(object, s \o w)[Len(s) + k] = object[w[k]]
  <1>1. PICK f \in Seq(Field) : f = s \o w
    BY ConcatProperties
  <1>2. /\ Len(f) = Len(s) + Len(w) /\ Len(s) \in Nat /\ Len(w) \in Nat
        /\ \A k \in 1..Len(s) : f[k] = s[k]
        /\ \A k \in 1..Len(w) : f[Len(s) + k] = w[k]
    BY <1>1
  <1>3. DOMAIN f = 1..Len(f) /\ \A k \in 1..Len(f) : f[k] \in Field
    OBVIOUS
  <1>4. \A g \in Field : object[g] \in Values \cup NewIds
    BY DEF Objects
  <1>5. PICK v : v = [k \in 1..Len(f) |-> object[f[k]]]
    OBVIOUS
  <1>6. v \in Seq(Values \cup NewIds) /\ Len(v) = Len(f)
    BY <1>2, <1>3, <1>4, <1>5, IsASeq
  <1>7. ValuesOf(object, s \o w) = v
    BY <1>1, <1>3, <1>5 DEF ValuesOf
  <1>8. \A k \in 1..Len(s) : k \in 1..Len(f)
    BY <1>2
  <1>9. \A k \in 1..Len(w) : Len(s) + k \in 1..Len(f)
    BY <1>2
  <1>10. QED
    BY <1>2, <1>5, <1>6, <1>7, <1>8, <1>9

\* Where the orders agree, on every driver the values are those of the columns.
LEMMA BindsInOrder ==
  ASSUME Registries, NEW object \in Objects, NEW members \in MemberLists, NEW condition,
         condition # NoCondition \/ get_conflict_keys = BoundKeys,
         db = "mysql_async" => members \in {<<>>, Fields} /\ condition = NoCondition
  PROVE  /\ SetColumns(members) \in Seq(Field) /\ WhereColumns(condition) \in Seq(Field)
         /\ UpdateBinds(object, members, condition)
              = ValuesOf(object, SetColumns(members) \o WhereColumns(condition))
  <1>1. Fields \in Seq(Field) /\ members \in Seq(Field)
    BY EntityAssumption DEF Field
  <1>2. SetColumns(members) \in Seq(Field)
    BY <1>1 DEF SetColumns
  <1>3. WhereColumns(condition) \in Seq(Field)
    <2>1. get_conflict_keys \in Seq(Field) /\ <<>> \in Seq(Field)
      BY Keys
    <2>2. QED
      BY <2>1 DEF WhereColumns
  <1>4. (IF db = "mysql_async" THEN Fields ELSE SetColumns(members)) = SetColumns(members)
    BY DEF SetColumns
  <1>5. (IF condition = NoCondition THEN BoundKeys ELSE <<>>) = WhereColumns(condition)
    BY DEF WhereColumns
  <1>6. (IF db = "mysql_async" /\ condition # NoCondition THEN <<Null>> ELSE <<>>) = <<>>
    OBVIOUS
  <1>7. UpdateBinds(object, members, condition)
          = ValuesOf(object, SetColumns(members) \o WhereColumns(condition)) \o <<>>
    BY <1>4, <1>5, <1>6, Zenon DEF UpdateBinds
  <1>8. ValuesOf(object, SetColumns(members) \o WhereColumns(condition)) \in Seq(Values \cup NewIds)
    BY <1>2, <1>3, ValuesInOrder
  <1>9. QED
    BY <1>2, <1>3, <1>7, <1>8, ConcatEmptySeq

\* And then each row becomes what was asked for.
LEMMA ChangedAsAsked ==
  ASSUME Registries, NEW object \in Objects, NEW members \in MemberLists, NEW condition,
         condition # NoCondition \/ get_conflict_keys = BoundKeys,
         db = "mysql_async" => members \in {<<>>, Fields} /\ condition = NoCondition,
         NEW ok, NEW r, NEW where, NEW set, NEW bound,
         where = WhereColumns(condition), set = SetColumns(members),
         bound = UpdateBinds(object, members, condition)
  PROVE  /\ Len(bound) = Len(set) + Len(where)
         /\ ChangedBy(r, condition, where, set, bound)
              = Asked(Asks(object, members, condition, ok), r)
  <1>1. where \in Seq(Field) /\ set \in Seq(Field) /\ bound = ValuesOf(object, set \o where)
    BY BindsInOrder
  <1>2. /\ Len(bound) = Len(set) + Len(where)
        /\ \A k \in 1..Len(set) : bound[k] = object[set[k]]
        /\ \A k \in 1..Len(where) : bound[Len(set) + k] = object[where[k]]
    <2>1. where \in Seq(Field) /\ set \in Seq(Field)
      BY <1>1
    <2>2. /\ Len(ValuesOf(object, set \o where)) = Len(set) + Len(where)
          /\ \A k \in 1..Len(set) : ValuesOf(object, set \o where)[k] = object[set[k]]
          /\ \A k \in 1..Len(where) :
               ValuesOf(object, set \o where)[Len(set) + k] = object[where[k]]
      BY ONLY <2>1, object \in Objects, ValuesInOrder
    <2>3. QED
      BY <1>1, <2>2, Zenon
  <1>3. DOMAIN set = 1..Len(set) /\ DOMAIN where = 1..Len(where)
    BY <1>1
  <1>4. PICK c : c = Asks(object, members, condition, ok)
    OBVIOUS
  <1>5. c.object = object /\ c.members = members /\ c.condition = condition
    BY <1>4 DEF Asks
  <1>6. ToSet(set) = IF members = <<>> THEN Field ELSE ToSet(members)
    BY DEF SetColumns, Field
  <1>7. FoundBy(r, condition, where, Len(set), bound)
          <=> IF condition # NoCondition THEN Matches(r, condition)
              ELSE \A k \in ToSet(get_conflict_keys) : r[k] = object[k]
    <2>1. CASE condition # NoCondition
      <3>1. where = <<>>
        BY <2>1 DEF WhereColumns
      <3>2. DOMAIN where = {}
        BY <3>1
      <3>3. QED
        BY <2>1, <3>2 DEF FoundBy
    <2>2. CASE condition = NoCondition
      <3>1. where = get_conflict_keys /\ Matches(r, condition)
        BY <2>2 DEF WhereColumns, Matches
      <3>2. ToSet(get_conflict_keys) = {where[k] : k \in DOMAIN where}
        BY <3>1 DEF ToSet
      <3>3. QED
        BY <1>2, <1>3, <2>2, <3>1, <3>2 DEF FoundBy
    <2>3. QED
      BY <2>1, <2>2
  <1>8. ASSUME NEW f \in Field
        PROVE  /\ At(f, set) # {} <=> f \in ToSet(set)
               /\ At(f, set) # {} => bound[CHOOSE k \in At(f, set) : TRUE] = object[f]
    <2>1. At(f, set) # {} <=> f \in ToSet(set)
      BY DEF At, ToSet
    <2>2. ASSUME At(f, set) # {} PROVE bound[CHOOSE k \in At(f, set) : TRUE] = object[f]
      <3>1. PICK k \in At(f, set) : k = CHOOSE i \in At(f, set) : TRUE
        BY <2>2
      <3>2. k \in 1..Len(set) /\ set[k] = f
        BY <1>3 DEF At
      <3>3. QED
        BY <1>2, <3>1, <3>2
    <2>3. QED
      BY <2>1, <2>2
  <1>9. ChangedBy(r, condition, where, set, bound) = Asked(c, r)
    BY <1>5, <1>6, <1>7, <1>8 DEF ChangedBy, Asked
  <1>10. QED
    BY <1>2, <1>4, <1>9

LEMMA UpdateStep ==
  ASSUME Inv, NEW object \in Objects, NEW members \in MemberLists, NEW condition \in Conditions,
         Update(object, members, condition)
  PROVE  RowsInv' /\ Registries' /\ TableInv' /\ UpdateAsAsked(call)'
  <1> USE DEF Inv
  <1>0. PICK ok \in BOOLEAN : \E where, set, bound :
          /\ where = WhereColumns(condition) /\ set = SetColumns(members)
          /\ bound = UpdateBinds(object, members, condition)
          /\ ok = TRUE <=> UpdateOk(condition, where, set, bound)
          /\ rows' = IF ok = TRUE THEN AllChanged(condition, where, set, bound) ELSE rows
          /\ cache' = IF condition = NoCondition THEN get_conflict_keys ELSE cache
          /\ call' = Asks(object, members, condition, ok)
          /\ UNCHANGED <<db, entity, autoKeys, table>>
    BY UpdateShape
  <1>1. PICK where, set, bound :
          /\ ok \in BOOLEAN
          /\ where = WhereColumns(condition) /\ set = SetColumns(members)
          /\ bound = UpdateBinds(object, members, condition)
          /\ ok = TRUE <=> UpdateOk(condition, where, set, bound)
          /\ rows' = IF ok = TRUE THEN AllChanged(condition, where, set, bound) ELSE rows
          /\ cache' = IF condition = NoCondition THEN get_conflict_keys ELSE cache
          /\ call' = Asks(object, members, condition, ok)
          /\ UNCHANGED <<db, entity, autoKeys, table>>
    BY <1>0
  <1>2. Registries' /\ TableInv'
    BY <1>1, RegistriesKept, TableKept
  <1>3. get_conflict_keys' = get_conflict_keys
    BY <1>1, KeysKept
  <1>4. RowsInv'
    <2>1. CASE ok = TRUE
      <3>1. rows' = {ChangedBy(r, condition, where, set, bound) : r \in rows}
        BY <1>1, <2>1 DEF AllChanged
      <3>2. IsFiniteSet(rows') /\ Cardinality(rows') <= Cardinality(rows)
        <4>1. PICK f : f = [r \in rows |-> ChangedBy(r, condition, where, set, bound)]
          OBVIOUS
        <4>2. f \in Surjection(rows, rows')
          BY <3>1, <4>1 DEF Surjection
        <4>3. QED
          BY <4>2, FS_Surjection DEF RowsInv
      <3>3. Cardinality(rows') <= MaxRows
        BY <3>1, <3>2, FS_CardinalityType, EntityAssumption DEF RowsInv
      <3>4. rows' # {} => table.made' = TRUE
        BY <1>1, <3>1 DEF RowsInv
      <3>5. ASSUME NEW r \in rows', NEW s \in rows', r # s PROVE ~SameKey(r, s)'
        BY <1>1, <2>1, <3>1, <3>5 DEF UpdateOk, SameKey
      <3>6. QED
        BY <3>2, <3>3, <3>4, <3>5 DEF RowsInv
    <2>2. CASE ok # TRUE
      BY <1>1, <2>2, KeyKept
    <2>3. QED
      BY <2>1, <2>2
  <1>5. /\ call'.object = object /\ call'.members = members /\ call'.condition = condition
        /\ call'.before = rows /\ call'.ok = ok
    BY <1>1 DEF Asks
  <1>6. \A r : Asked(call, r)' = Asked(Asks(object, members, condition, ok), r)
    BY <1>1, <1>3 DEF Asked, Matches
  <1>7. SUFFICES ASSUME BoundInOrder(call)'
                 PROVE  IF ok = TRUE THEN rows' = {Asked(call, r)' : r \in rows}
                        ELSE /\ rows' = rows
                             /\ \/ table.made # TRUE \/ AsyncCannot(call)'
                                \/ condition = NoCondition /\ get_conflict_keys = <<>>
                                \/ \E r, s \in rows : r # s /\ SameKey(Asked(call, r)', Asked(call, s)')
    <2>1. table.made \in BOOLEAN
      BY DEF TableInv
    <2>2. \A r, s : SameKey(r, s)' <=> SameKey(r, s)
      BY <1>1 DEF SameKey
    <2>3. QED
      BY <1>1, <1>2, <1>3, <1>4, <1>5, <2>1, <2>2 DEF UpdateAsAsked
  <1>8. PICK c : c = Asks(object, members, condition, ok)
    OBVIOUS
  <1>9. c.members = members /\ c.condition = condition
    BY <1>8 DEF Asks
  <1>10. /\ condition # NoCondition \/ get_conflict_keys = BoundKeys
         /\ db = "mysql_async" => members \in {<<>>, Fields}
    BY <1>1, <1>3, <1>5, <1>7 DEF BoundInOrder, BoundKeys, is_conflict_key
  <1>11. CASE db = "mysql_async" /\ condition # NoCondition
    <2>1. AsyncCannot(call)'
      BY <1>1, <1>5, <1>11 DEF AsyncCannot
    <2>2. Len(bound) # Len(set) + Len(where)
      <3>1. where = <<>> /\ set = Fields
        BY <1>1, <1>10, <1>11 DEF WhereColumns, SetColumns
      <3>2. Fields \in Seq(Field)
        BY EntityAssumption DEF Field
      <3>3. bound = ValuesOf(object, Fields \o <<>>) \o <<Null>>
        BY <1>1, <1>11, Zenon DEF UpdateBinds
      <3>4. <<>> \in Seq(Field)
        OBVIOUS
      <3>5. PICK v \in Seq(Values \cup NewIds) :
              v = ValuesOf(object, Fields \o <<>>) /\ Len(v) = Len(Fields) + 0
        BY <3>2, <3>4, ValuesInOrder
      <3>6. Len(bound) = Len(v) + 1
        BY <3>3, <3>5
      <3>7. QED
        BY <3>1, <3>2, <3>5, <3>6
    <2>3. ok # TRUE
      BY <1>1, <2>2 DEF UpdateOk
    <2>4. QED
      BY <1>1, <2>1, <2>3
  <1>12. CASE ~(db = "mysql_async" /\ condition # NoCondition)
    <2>1. /\ Len(bound) = Len(set) + Len(where)
          /\ \A r : ChangedBy(r, condition, where, set, bound) = Asked(call, r)'
      BY <1>1, <1>6, <1>10, <1>12, ChangedAsAsked
    <2>2. CASE ok = TRUE
      BY <1>1, <2>1, <2>2 DEF AllChanged
    <2>3. CASE ok # TRUE
      <3>1. where = <<>> /\ condition = NoCondition => get_conflict_keys = <<>>
        BY <1>1 DEF WhereColumns
      <3>2. QED
        BY <1>1, <2>1, <2>3, <3>1 DEF UpdateOk
    <2>4. QED
      BY <2>2, <2>3
  <1>13. QED
    BY <1>11, <1>12

-----------------------------------------------------------------------------
(* insert() and replace()                                                  *)

\* A row has the object's values in the columns that are written, and the
\* server's number in the one that counts and is not.
LEMMA StoredAsGiven ==
  ASSUME Registries, TableInv, NEW object \in Objects, NEW columns \in Seq(Field), NEW id, NEW row,
         row = StoredRow(columns, ValuesOf(object, columns), id)
  PROVE  /\ \A f \in Field \ {AutoField} : f \in ToSet(columns) => row[f] = object[f]
         /\ Counts(AutoField) /\ AutoField \notin ToSet(columns) => row[AutoField] = id
  <1>1. PICK values : values = ValuesOf(object, columns)
    OBVIOUS
  <1>2. \A k \in DOMAIN columns : values[k] = object[columns[k]]
    BY <1>1 DEF ValuesOf
  <1>3. AutoField \in Field /\ NoField \notin Field
    BY Keys
  <1>4. ASSUME NEW f \in Field
        PROVE  row[f] = IF Counts(f) /\ (At(f, columns) = {}
                             \/ (values[CHOOSE k \in At(f, columns) : TRUE] = 0
                                 /\ db \in {"mysql", "mysql_async"}))
                          THEN id
                          ELSE IF At(f, columns) = {} THEN Null
                                                      ELSE values[CHOOSE k \in At(f, columns) : TRUE]
    <2>1. CASE At(f, columns) = {}
      BY <1>1, <2>1 DEF StoredRow, At
    <2>2. CASE At(f, columns) # {}
      BY <1>1, <2>2 DEF StoredRow, At
    <2>3. QED
      BY <2>1, <2>2
  <1>5. ASSUME NEW f \in Field \ {AutoField}, f \in ToSet(columns) PROVE row[f] = object[f]
    <2>1. ~Counts(f)
      BY <1>3 DEF Counts, TableInv
    <2>2. At(f, columns) # {}
      BY <1>5 DEF At, ToSet
    <2>3. PICK k \in At(f, columns) : k = CHOOSE i \in At(f, columns) : TRUE
      BY <2>2
    <2>4. values[k] = object[f]
      BY <1>2 DEF At
    <2>5. QED
      BY <1>4, <2>1, <2>2, <2>3, <2>4
  <1>6. ASSUME Counts(AutoField), AutoField \notin ToSet(columns) PROVE row[AutoField] = id
    <2>1. At(AutoField, columns) = {}
      BY <1>6 DEF At, ToSet
    <2>2. QED
      BY <1>3, <1>4, <1>6, <2>1
  <1>7. QED
    BY <1>5, <1>6

\* The columns and the fields that are bound are the same; only an auto key
\* that is looked up is left out.
LEMMA ColumnsAreBound ==
  ASSUME Registries, NEW insert \in BOOLEAN
  PROVE  /\ InsertColumns(insert) \in Seq(Field) /\ BoundFields(insert) = InsertColumns(insert)
         /\ \A f \in Field \ {AutoField} : f \in ToSet(InsertColumns(insert))
         /\ insert = TRUE /\ get_auto_key = AutoField => AutoField \notin ToSet(InsertColumns(insert))
  <1>1. Fields \in Seq(Field) /\ ToSet(Fields) = Field
    BY EntityAssumption DEF Field
  <1>2. PICK kept : kept = {f \in Field : ~(insert /\ is_auto_key(f))}
    OBVIOUS
  <1>3. InsertColumns(insert) = InOrder(Fields, kept) /\ BoundFields(insert) = InOrder(Fields, kept)
    BY <1>2 DEF InsertColumns, BoundFields
  <1>4. InOrder(Fields, kept) \in Seq(Field) /\ ToSet(InOrder(Fields, kept)) = Field \cap kept
    BY <1>1, InOrderElements
  <1>5. \A f \in Field \ {AutoField} : f \in kept
    BY <1>2, Keys DEF is_auto_key
  <1>6. insert = TRUE /\ get_auto_key = AutoField => AutoField \notin kept
    BY <1>2 DEF is_auto_key
  <1>7. QED
    BY <1>3, <1>4, <1>5, <1>6

LEMMA ValuesBound ==
  ASSUME NEW object \in Objects, NEW columns \in Seq(Field)
  PROVE  Len(ValuesOf(object, columns)) = Len(columns)
  <1>1. columns \o <<>> = columns /\ <<>> \in Seq(Field)
    BY ConcatEmptySeq
  <1>2. Len(ValuesOf(object, columns \o <<>>)) = Len(columns) + Len(<<>>)
    BY <1>1, ValuesInOrder
  <1>3. QED
    BY <1>1, <1>2

\* A row without equal key is added, or takes the place of those with one.
LEMMA RowAdded ==
  ASSUME RowsInv, TableInv, UNCHANGED <<db, entity, autoKeys, table>>, table.made = TRUE, Room, NEW row,
         NEW others \in SUBSET rows, rows' = others \cup {row},
         \A r \in others : ~SameKey(row, r)
  PROVE  RowsInv'
  <1>1. IsFiniteSet(others) /\ Cardinality(others) <= Cardinality(rows)
    BY FS_Subset DEF RowsInv
  <1>2. IsFiniteSet(rows') /\ Cardinality(rows') <= Cardinality(others) + 1
    <2>1. PICK more : more = others \cup {row}
      OBVIOUS
    <2>2. /\ IsFiniteSet(more)
          /\ Cardinality(more) = IF row \in others THEN Cardinality(others)
                                                  ELSE Cardinality(others) + 1
      BY <1>1, <2>1, FS_AddElement, Zenon
    <2>3. Cardinality(others) \in Nat
      BY <1>1, FS_CardinalityType
    <2>4. QED
      BY <2>1, <2>2, <2>3
  <1>3. Cardinality(rows') <= MaxRows
    BY <1>1, <1>2, FS_CardinalityType, EntityAssumption DEF RowsInv, Room
  <1>4. \A r, s : SameKey(r, s)' <=> SameKey(r, s)
    BY DEF SameKey
  <1>5. ASSUME NEW r \in rows', NEW s \in rows', r # s PROVE ~SameKey(r, s)
    <2>1. CASE r \in others /\ s \in others
      BY <1>5, <2>1 DEF RowsInv
    <2>2. CASE r = row
      BY <1>5, <2>2
    <2>3. CASE s = row
      BY <1>5, <2>3, SameKeySymmetric
    <2>4. QED
      BY <2>1, <2>2, <2>3
  <1>6. QED
    BY <1>2, <1>3, <1>4, <1>5 DEF RowsInv

LEMMA InsertStep ==
  ASSUME Inv, Room, NEW object \in Objects, NEW returning \in BOOLEAN, NEW id \in NextIds,
         Insert(object, returning, id)
  PROVE  RowsInv' /\ Registries' /\ TableInv' /\ InsertAsAsked(call)'
  <1> USE DEF Inv
  <1>0. PICK ok \in BOOLEAN : \E row :
          /\ row = InsertRow(object, id)
          /\ ok = TRUE <=> InsertOk(object, returning, row)
          /\ rows' = IF ok = TRUE THEN rows \cup {row} ELSE rows
          /\ Answer("insert", object, ok)
          /\ UNCHANGED <<db, entity, autoKeys, cache, table>>
    BY InsertShape
  <1>1. PICK row :
          /\ ok \in BOOLEAN
          /\ row = InsertRow(object, id)
          /\ ok = TRUE <=> InsertOk(object, returning, row)
          /\ rows' = IF ok = TRUE THEN rows \cup {row} ELSE rows
          /\ Answer("insert", object, ok)
          /\ UNCHANGED <<db, entity, autoKeys, cache, table>>
    BY <1>0
  <1>2. Registries' /\ TableInv'
    BY <1>1, RegistriesKept, TableKept
  <1>3. RowsInv'
    <2>1. CASE ok = TRUE
      <3>1. \A r \in rows : ~SameKey(row, r)
        BY <1>1, <2>1 DEF InsertOk
      <3>2. rows \in SUBSET rows /\ table.made = TRUE
        BY <1>1, <2>1 DEF InsertOk
      <3>3. QED
        BY <1>1, <2>1, <3>1, <3>2, RowAdded
    <2>2. CASE ok # TRUE
      BY <1>1, <2>2, KeyKept
    <2>3. QED
      BY <2>1, <2>2
  <1>4. call'.object = object /\ call'.before = rows /\ call'.ok = ok
    BY <1>1 DEF Answer
  <1>5. PICK columns \in Seq(Field) :
          columns = InsertColumns(TRUE) /\ BoundFields(TRUE) = columns
    BY ColumnsAreBound
  <1>6. row = StoredRow(columns, ValuesOf(object, columns), id)
    BY <1>1, <1>5 DEF InsertRow
  <1>7. \A f \in Field \ {AutoField} : row[f] = object[f]
    <2>1. \A f \in Field \ {AutoField} : f \in ToSet(columns)
      BY <1>5, ColumnsAreBound
    <2>2. QED
      BY <1>6, <2>1, StoredAsGiven
  <1>8. CASE ok = TRUE
    <2>1. row \in rows' /\ rows' \ {row} = rows \ {row}
      BY <1>1, <1>8
    <2>2. \E r \in rows' : rows' \ {r} = rows \ {r} /\ \A f \in Field \ {AutoField} : r[f] = object[f]
      BY <1>7, <2>1
    <2>3. QED
      BY <1>2, <1>3, <1>4, <1>8, <2>2 DEF InsertAsAsked, Same
  <1>9. CASE ok # TRUE
    <2>1. rows' = rows
      BY <1>1, <1>9
    <2>2. ASSUME table.made = TRUE, entity.auto # NoField, entity.scoped = FALSE,
                 db # "postgresql"
          PROVE  FALSE
      <3>1. get_auto_key = AutoField /\ table.auto = AutoField /\ table.keys = {AutoField}
        BY <2>2, Keys DEF TableInv
      <3>2. row[AutoField] = id
        <4>1. Counts(AutoField)
          BY <3>1 DEF Counts
        <4>2. AutoField \notin ToSet(columns)
          BY <1>5, <3>1, ColumnsAreBound
        <4>3. QED
          BY <1>6, <4>1, <4>2, StoredAsGiven
      <3>3. id \in NewIds /\ id # Null /\ \A r \in rows : r[AutoField] # id
        BY <2>2, EntityAssumption DEF NextIds
      <3>4. Storable(row)
        BY <3>1, <3>2, <3>3 DEF Storable
      <3>5. \A r \in rows : ~SameKey(row, r)
        BY <3>1, <3>2, <3>3 DEF SameKey
      <3>6. Len(InsertColumns(TRUE)) = Len(ValuesOf(object, BoundFields(TRUE)))
        BY <1>5, ValuesBound
      <3>7. QED
        BY <1>1, <1>9, <2>2, <3>4, <3>5, <3>6 DEF InsertOk
    <2>3. table.made \in BOOLEAN /\ entity.scoped \in BOOLEAN
      BY DEF TableInv, Registries
    <2>4. QED
      BY <1>1, <1>2, <1>3, <1>4, <1>9, <2>1, <2>2, <2>3 DEF InsertAsAsked
  <1>10. QED
    BY <1>8, <1>9

LEMMA ReplaceStep ==
  ASSUME Inv, Room, NEW object \in Objects, NEW id \in NextIds, Replace(object, id)
  PROVE  RowsInv' /\ Registries' /\ TableInv' /\ ReplaceAsAsked(call)'
  <1> USE DEF Inv
  <1>0. PICK ok \in BOOLEAN : \E row :
          /\ row = ReplaceRow(object, id)
          /\ ok = TRUE <=> ReplaceOk
          /\ rows' = IF ok = TRUE THEN {r \in rows : ~SameKey(row, r)} \cup {row} ELSE rows
          /\ Answer("replace", object, ok)
          /\ UNCHANGED <<db, entity, autoKeys, cache, table>>
    BY ReplaceShape
  <1>1. PICK row :
          /\ ok \in BOOLEAN
          /\ row = ReplaceRow(object, id)
          /\ ok = TRUE <=> ReplaceOk
          /\ rows' = IF ok = TRUE THEN {r \in rows : ~SameKey(row, r)} \cup {row} ELSE rows
          /\ Answer("replace", object, ok)
          /\ UNCHANGED <<db, entity, autoKeys, cache, table>>
    BY <1>0
  <1>2. Registries' /\ TableInv'
    BY <1>1, RegistriesKept, TableKept
  <1>3. RowsInv'
    <2>1. CASE ok = TRUE
      <3>1. PICK others \in SUBSET rows : others = {r \in rows : ~SameKey(row, r)}
        OBVIOUS
      <3>2. rows' = others \cup {row} /\ (\A r \in others : ~SameKey(row, r)) /\ table.made = TRUE
        BY <1>1, <2>1, <3>1 DEF ReplaceOk
      <3>3. QED
        BY <1>1, <3>2, RowAdded
    <2>2. CASE ok # TRUE
      BY <1>1, <2>2, KeyKept
    <2>3. QED
      BY <2>1, <2>2
  <1>4. call'.object = object /\ call'.before = rows /\ call'.ok = ok
    BY <1>1 DEF Answer
  <1>5. PICK columns \in Seq(Field) :
          columns = InsertColumns(FALSE) /\ BoundFields(FALSE) = columns
    BY ColumnsAreBound
  <1>6. row = StoredRow(columns, ValuesOf(object, columns), id)
    BY <1>1, <1>5 DEF ReplaceRow
  <1>7. \A f \in Field \ {AutoField} : row[f] = object[f]
    <2>1. \A f \in Field \ {AutoField} : f \in ToSet(columns)
      BY <1>5, ColumnsAreBound
    <2>2. QED
      BY <1>6, <2>1, StoredAsGiven
  <1>8. \A r, s : SameKey(r, s)' <=> SameKey(r, s)
    BY <1>1 DEF SameKey
  <1>9. CASE ok = TRUE
    <2>1. rows' = {s \in rows : ~SameKey(s, row)} \cup {row}
      BY <1>1, <1>9, SameKeySymmetric
    <2>2. Same(row, object)
      BY <1>7 DEF Same
    <2>3. QED
      BY <1>2, <1>3, <1>4, <1>8, <1>9, <2>1, <2>2 DEF ReplaceAsAsked, Same
  <1>10. CASE ok # TRUE
    <2>1. table.made = TRUE => db = "postgresql" /\ ~ConflictIndexed
      BY <1>1, <1>10 DEF ReplaceOk
    <2>2. ConflictIndexed' <=> ConflictIndexed
      BY <1>1, KeysKept DEF ConflictIndexed
    <2>3. table.made \in BOOLEAN
      BY DEF TableInv
    <2>4. QED
      BY <1>1, <1>2, <1>3, <1>4, <1>10, <2>1, <2>2, <2>3 DEF ReplaceAsAsked
  <1>11. QED
    BY <1>9, <1>10

-----------------------------------------------------------------------------
(* query()                                                                 *)

Words == {"select", "where", "condition", "tail", "nothing"}

IsJoined(u, s, t) ==
  /\ Len(u) = Len(s) + Len(t)
  /\ \A i \in 1..Len(s) : u[i] = s[i]
  /\ \A i \in 1..Len(t) : u[Len(s) + i] = t[i]

LEMMA JoinedIs ==
  ASSUME NEW X, NEW s \in Seq(X), NEW t \in Seq(X), NEW u \in Seq(X), IsJoined(u, s, t)
  PROVE  s \o t = u
  <1> USE DEF IsJoined
  <1>1. s \o t \in Seq(X) /\ Len(s \o t) = Len(u)
    BY ConcatProperties
  <1>2. ASSUME NEW i \in 1..Len(u) PROVE (s \o t)[i] = u[i]
    <2>1. CASE i <= Len(s)
      BY <1>2, <2>1, ConcatProperties
    <2>2. CASE i > Len(s)
      <3>1. i - Len(s) \in 1..Len(t) /\ i = Len(s) + (i - Len(s))
        BY <1>2, <2>2
      <3>2. u[i] = t[i - Len(s)]
        BY <3>1
      <3>3. QED
        BY <1>2, <2>2, <3>2, ConcatProperties
    <2>3. QED
      BY <1>2, <2>1, <2>2
  <1>3. QED
    BY <1>1, <1>2, SeqEqual

LEMMA ShortTexts ==
  ASSUME NEW a \in Words, NEW b \in Words
  PROVE  /\ <<"select">> \o <<a>> = <<"select", a>>
         /\ <<"select">> \o <<a, b>> = <<"select", a, b>>
         /\ <<"select", "where">> \o <<a>> = <<"select", "where", a>>
         /\ <<"select", "where">> \o <<a, b>> = <<"select", "where", a, b>>
         /\ <<"select", "where", "condition">> \o <<a>> = <<"select", "where", "condition", a>>
         /\ <<"select", "where", "condition">> \o <<a, b>> = <<"select", "where", "condition", a, b>>
  <1>1. <<a>> \in Seq(Words) /\ <<a, b>> \in Seq(Words) /\ <<"select">> \in Seq(Words)
        /\ <<"select", "where">> \in Seq(Words) /\ <<"select", "where", "condition">> \in Seq(Words)
    BY DEF Words
  <1>2. <<"select", a>> \in Seq(Words) /\ <<"select", a, b>> \in Seq(Words)
        /\ <<"select", "where", a>> \in Seq(Words) /\ <<"select", "where", a, b>> \in Seq(Words)
    BY DEF Words
  <1>3. <<"select", "where", "condition", a>> \in Seq(Words)
        /\ <<"select", "where", "condition", a, b>> \in Seq(Words)
    BY DEF Words
  <1>4. <<"select">> \o <<a>> = <<"select", a>>
    <2>1. PICK s \in Seq(Words) : s = <<"select">> /\ Len(s) = 1 /\ s[1] = "select"
      BY <1>1
    <2>2. PICK t \in Seq(Words) : t = <<a>> /\ Len(t) = 1 /\ t[1] = a
      BY <1>1
    <2>3. PICK u \in Seq(Words) :
            /\ u = <<"select", a>>
            /\ Len(u) = 2 /\ u[1] = "select" /\ u[2] = a
      BY <1>2
    <2>4. IsJoined(u, s, t)
      BY <2>1, <2>2, <2>3 DEF IsJoined
    <2>5. s \o t = u
      BY <2>4, JoinedIs
    <2>6. QED
      BY <2>1, <2>2, <2>3, <2>5
  <1>5. <<"select">> \o <<a, b>> = <<"select", a, b>>
    <2>1. PICK s \in Seq(Words) : s = <<"select">> /\ Len(s) = 1 /\ s[1] = "select"
      BY <1>1
    <2>2. PICK t \in Seq(Words) : t = <<a, b>> /\ Len(t) = 2 /\ t[1] = a /\ t[2] = b
      BY <1>1
    <2>3. PICK u \in Seq(Words) :
            /\ u = <<"select", a, b>>
            /\ Len(u) = 3 /\ u[1] = "select" /\ u[2] = a /\ u[3] = b
      BY <1>2
    <2>4. IsJoined(u, s, t)
      BY <2>1, <2>2, <2>3 DEF IsJoined
    <2>5. s \o t = u
      BY <2>4, JoinedIs
    <2>6. QED
      BY <2>1, <2>2, <2>3, <2>5
  <1>6. <<"select", "where">> \o <<a>> = <<"select", "where", a>>
    <2>1. PICK s \in Seq(Words) : s = <<"select", "where">> /\ Len(s) = 2 /\ s[1] = "select" /\ s[2] = "where"
      BY <1>1
    <2>2. PICK t \in Seq(Words) : t = <<a>> /\ Len(t) = 1 /\ t[1] = a
      BY <1>1
    <2>3. PICK u \in Seq(Words) :
            /\ u = <<"select", "where", a>>
            /\ Len(u) = 3 /\ u[1] = "select" /\ u[2] = "where" /\ u[3] = a
      BY <1>2
    <2>4. IsJoined(u, s, t)
      BY <2>1, <2>2, <2>3 DEF IsJoined
    <2>5. s \o t = u
      BY <2>4, JoinedIs
    <2>6. QED
      BY <2>1, <2>2, <2>3, <2>5
  <1>7. <<"select", "where">> \o <<a, b>> = <<"select", "where", a, b>>
    <2>1. PICK s \in Seq(Words) : s = <<"select", "where">> /\ Len(s) = 2 /\ s[1] = "select" /\ s[2] = "where"
      BY <1>1
    <2>2. PICK t \in Seq(Words) : t = <<a, b>> /\ Len(t) = 2 /\ t[1] = a /\ t[2] = b
      BY <1>1
    <2>3. PICK u \in Seq(Words) :
            /\ u = <<"select", "where", a, b>>
            /\ Len(u) = 4 /\ u[1] = "select" /\ u[2] = "where" /\ u[3] = a /\ u[4] = b
      BY <1>2
    <2>4. IsJoined(u, s, t)
      BY <2>1, <2>2, <2>3 DEF IsJoined
    <2>5. s \o t = u
      BY <2>4, JoinedIs
    <2>6. QED
      BY <2>1, <2>2, <2>3, <2>5
  <1>8. <<"select", "where", "condition">> \o <<a>> = <<"select", "where", "condition", a>>
    <2>1. PICK s \in Seq(Words) : s = <<"select", "where", "condition">> /\ Len(s) = 3 /\ s[1] = "select" /\ s[2] = "where" /\ s[3] = "condition"
      BY <1>1
    <2>2. PICK t \in Seq(Words) : t = <<a>> /\ Len(t) = 1 /\ t[1] = a
      BY <1>1
    <2>3. PICK u \in Seq(Words) :
            /\ u = <<"select", "where", "condition", a>>
            /\ Len(u) = 4 /\ u[1] = "select" /\ u[2] = "where" /\ u[3] = "condition" /\ u[4] = a
      BY <1>3
    <2>4. IsJoined(u, s, t)
      BY <2>1, <2>2, <2>3 DEF IsJoined
    <2>5. s \o t = u
      BY <2>4, JoinedIs
    <2>6. QED
      BY <2>1, <2>2, <2>3, <2>5
  <1>9. <<"select", "where", "condition">> \o <<a, b>> = <<"select", "where", "condition", a, b>>
    <2>1. PICK s \in Seq(Words) : s = <<"select", "where", "condition">> /\ Len(s) = 3 /\ s[1] = "select" /\ s[2] = "where" /\ s[3] = "condition"
      BY <1>1
    <2>2. PICK t \in Seq(Words) : t = <<a, b>> /\ Len(t) = 2 /\ t[1] = a /\ t[2] = b
      BY <1>1
    <2>3. PICK u \in Seq(Words) :
            /\ u = <<"select", "where", "condition", a, b>>
            /\ Len(u) = 5 /\ u[1] = "select" /\ u[2] = "where" /\ u[3] = "condition" /\ u[4] = a /\ u[5] = b
      BY <1>3
    <2>4. IsJoined(u, s, t)
      BY <2>1, <2>2, <2>3 DEF IsJoined
    <2>5. s \o t = u
      BY <2>4, JoinedIs
    <2>6. QED
      BY <2>1, <2>2, <2>3, <2>5
  <1>10. QED
    BY <1>4, <1>5, <1>6, <1>7, <1>8, <1>9

LEMMA ReadableTexts ==
  Readable = {<<"select">>, <<"select", "tail">>, <<"select", "tail", "tail">>,
              <<"select", "where", "condition">>, <<"select", "where", "condition", "tail">>,
              <<"select", "where", "condition", "tail", "tail">>}
  <1>1. "tail" \in Words
    BY DEF Words
  <1>2. /\ <<"select">> \o <<"tail">> = <<"select", "tail">>
        /\ <<"select">> \o <<"tail", "tail">> = <<"select", "tail", "tail">>
        /\ <<"select", "where", "condition">> \o <<"tail">> = <<"select", "where", "condition", "tail">>
        /\ <<"select", "where", "condition">> \o <<"tail", "tail">>
             = <<"select", "where", "condition", "tail", "tail">>
    BY <1>1, ShortTexts
  <1>3. {w \o t : w \in {<<"select">>, <<"select", "where", "condition">>},
                  t \in {<<"tail">>, <<"tail", "tail">>}}
          = {<<"select">> \o <<"tail">>, <<"select">> \o <<"tail", "tail">>,
             <<"select", "where", "condition">> \o <<"tail">>,
             <<"select", "where", "condition">> \o <<"tail", "tail">>}
    OBVIOUS
  <1>4. QED
    BY <1>2, <1>3 DEF Readable

\* A statement that can be read has the where exactly when its condition is
\* one; the usual ones can be read.
LEMMA TextOfQuery ==
  ASSUME NEW arguments \in ArgumentLists
  PROVE  /\ arguments \in {<<>>, <<"condition">>, <<"tail">>, <<"condition", "tail">>}
              => QueryText(arguments) \in Readable
         /\ QueryText(arguments) \in Readable =>
              (Contains(QueryText(arguments), "where")
                 <=> Contains(arguments, "condition") /\ Head(arguments) # "select")
  <1>1. PICK kept : kept = Arguments \ {"nothing"}
    OBVIOUS
  <1>2. kept = {"condition", "tail", "select"} /\ kept \subseteq Words /\ Arguments \subseteq Words
    BY <1>1 DEF Arguments, Words
  <1>3. QueryText(arguments) =
          IF arguments # <<>> /\ Head(arguments) = "select" THEN <<"select">>
          ELSE IF InOrder(arguments, kept) = <<>> THEN <<"select">>
          ELSE IF Head(arguments) = "tail" THEN <<"select">> \o InOrder(arguments, kept)
          ELSE <<"select", "where">> \o InOrder(arguments, kept)
    BY <1>1 DEF QueryText
  <1>4. PICK n \in 0..2 : arguments \in [1..n -> Arguments]
    BY DEF ArgumentLists
  <1>5. arguments \in Seq(Arguments) /\ Len(arguments) = n
    BY <1>4
  <1>6. CASE n = 0
    <2>1. arguments = <<>>
      BY <1>5, <1>6
    <2>2. QueryText(arguments) = <<"select">>
      <3>1. InOrder(arguments, kept) = <<>>
        BY <1>5, <1>6, InOrderOfTwo
      <3>2. QED
        BY <1>3, <2>1, <3>1
    <2>3. ~Contains(arguments, "condition") /\ ~Contains(<<"select">>, "where")
      BY <2>1 DEF Contains
    <2>4. QED
      BY <2>1, <2>2, <2>3, ReadableTexts
  <1>7. CASE n = 1
    <2>1. PICK a \in Arguments : a = arguments[1]
      BY <1>5, <1>7
    <2>2. arguments = <<a>> /\ Head(arguments) = a /\ arguments # <<>>
      <3>1. <<a>> \in Seq(Arguments) /\ Len(<<a>>) = 1 /\ <<a>>[1] = a
        OBVIOUS
      <3>2. arguments = <<a>>
        BY <1>5, <1>7, <2>1, <3>1, SeqEqual
      <3>3. QED
        BY <2>1, <3>2
    <2>3. InOrder(arguments, kept) = IF a \in kept THEN <<a>> ELSE <<>>
      BY <1>5, <1>7, <2>1, InOrderOfTwo
    <2>4. QueryText(arguments) = CASE a = "tail" -> <<"select", "tail">>
                                   [] a = "condition" -> <<"select", "where", "condition">>
                                   [] OTHER -> <<"select">>
      <3>1. a \in Words /\ kept = {"condition", "tail", "select"} /\ a \in Arguments
        BY <1>2
      <3>2. /\ <<"select">> \o <<a>> = <<"select", a>>
            /\ <<"select", "where">> \o <<a>> = <<"select", "where", a>>
        BY <3>1, ShortTexts
      <3>3. <<a>> # <<>>
        OBVIOUS
      <3>4. a \in kept => QueryText(arguments) = IF a = "select" THEN <<"select">>
                                                 ELSE IF a = "tail" THEN <<"select", a>>
                                                 ELSE <<"select", "where", a>>
        BY <1>3, <2>2, <2>3, <3>2, <3>3
      <3>5. a \notin kept => QueryText(arguments) = <<"select">>
        BY <1>3, <2>2, <2>3
      <3>6. QED
        BY <3>1, <3>4, <3>5 DEF Arguments
    <2>5. Contains(arguments, "condition") <=> a = "condition"
      BY <2>2 DEF Contains
    <2>6. /\ Contains(<<"select", "where", "condition">>, "where")
          /\ ~Contains(<<"select", "tail">>, "where") /\ ~Contains(<<"select">>, "where")
      BY DEF Contains
    <2>7. QED
      BY <2>2, <2>4, <2>5, <2>6, ReadableTexts
  <1>8. CASE n = 2
    <2>1. PICK a \in Arguments, b \in Arguments : a = arguments[1] /\ b = arguments[2]
      BY <1>5, <1>8
    <2>2. arguments = <<a, b>> /\ Head(arguments) = a /\ arguments # <<>>
      <3>1. <<a, b>> \in Seq(Arguments) /\ Len(<<a, b>>) = 2 /\ <<a, b>>[1] = a /\ <<a, b>>[2] = b
        OBVIOUS
      <3>2. arguments = <<a, b>>
        BY <1>5, <1>8, <2>1, <3>1, SeqEqual
      <3>3. QED
        BY <2>1, <3>2
    <2>3. InOrder(arguments, kept) =
            IF a \in kept THEN IF b \in kept THEN <<a, b>> ELSE <<a>>
                          ELSE IF b \in kept THEN <<b>> ELSE <<>>
      <3>1. CASE a \in kept /\ b \in kept
        BY <1>5, <1>8, <2>1, <3>1, InOrderOfTwo
      <3>2. CASE a \in kept /\ b \notin kept
        BY <1>5, <1>8, <2>1, <3>2, InOrderOfTwo
      <3>3. CASE a \notin kept
        BY <1>5, <1>8, <2>1, <3>3, InOrderOfTwo
      <3>4. QED
        BY <3>1, <3>2, <3>3
    <2>4. Contains(arguments, "condition") <=> a = "condition" \/ b = "condition"
      BY <2>2 DEF Contains
    <2>5. b \in Words /\ a \in Words /\ b # "where" /\ a # "where"
      BY DEF Arguments, Words
    <2>6. CASE a = "select"
      <3>1. QueryText(arguments) = <<"select">> /\ ~Contains(<<"select">>, "where")
        BY <1>3, <2>2, <2>6 DEF Contains
      <3>2. QED
        BY <2>2, <2>6, <3>1
    <2>7. CASE b = "nothing" /\ a # "select"
      <3>1. QueryText(arguments) = CASE a = "tail" -> <<"select", "tail">>
                                     [] a = "condition" -> <<"select", "where", "condition">>
                                     [] OTHER -> <<"select">>
        <4>1. InOrder(arguments, kept) = (IF a = "nothing" THEN <<>> ELSE <<a>>) /\ <<a>> # <<>>
          BY <1>2, <2>3, <2>7 DEF Arguments
        <4>2. <<"select">> \o <<a>> = <<"select", a>>
              /\ <<"select", "where">> \o <<a>> = <<"select", "where", a>>
          BY <2>5, ShortTexts
        <4>3. CASE a = "nothing"
          BY <1>3, <2>2, <4>1, <4>3
        <4>4. CASE a = "tail"
          BY <1>3, <2>2, <4>1, <4>2, <4>4
        <4>5. CASE a = "condition"
          BY <1>3, <2>2, <4>1, <4>2, <4>5
        <4>6. QED
          BY <2>7, <4>3, <4>4, <4>5 DEF Arguments
      <3>2. /\ Contains(<<"select", "where", "condition">>, "where")
            /\ ~Contains(<<"select", "tail">>, "where") /\ ~Contains(<<"select">>, "where")
        BY DEF Contains
      <3>3. QED
        BY <2>2, <2>4, <2>7, <3>1, <3>2, ReadableTexts
    <2>8. CASE b # "nothing" /\ a = "nothing"
      <3>1. QueryText(arguments) = <<"select", "where", b>>
        <4>1. InOrder(arguments, kept) = <<b>> /\ <<b>> # <<>>
          BY <1>2, <2>3, <2>8 DEF Arguments
        <4>2. <<"select", "where">> \o <<b>> = <<"select", "where", b>>
          BY <2>5, ShortTexts
        <4>3. QED
          BY <1>3, <2>2, <2>8, <4>1, <4>2
      <3>2. Contains(<<"select", "where", b>>, "where")
        BY DEF Contains
      <3>3. QED
        BY <2>2, <2>4, <2>8, <3>1, <3>2, ReadableTexts
    <2>9. CASE b # "nothing" /\ a = "tail"
      <3>1. QueryText(arguments) = <<"select", "tail", b>>
        <4>1. InOrder(arguments, kept) = <<a, b>> /\ <<a, b>> # <<>>
          BY <1>2, <2>3, <2>9 DEF Arguments
        <4>2. <<"select">> \o <<a, b>> = <<"select", "tail", b>>
          BY <2>5, <2>9, ShortTexts
        <4>3. QED
          BY <1>3, <2>2, <2>9, <4>1, <4>2
      <3>2. ~Contains(<<"select", "tail", b>>, "where")
        BY <2>5 DEF Contains
      <3>3. QED
        BY <2>2, <2>4, <2>9, <3>1, <3>2, ReadableTexts
    <2>10. CASE b # "nothing" /\ a = "condition"
      <3>1. QueryText(arguments) = <<"select", "where", "condition", b>>
        <4>1. InOrder(arguments, kept) = <<a, b>> /\ <<a, b>> # <<>>
          BY <1>2, <2>3, <2>10 DEF Arguments
        <4>2. <<"select", "where">> \o <<a, b>> = <<"select", "where", "condition", b>>
          BY <2>5, <2>10, ShortTexts
        <4>3. QED
          BY <1>3, <2>2, <2>10, <4>1, <4>2
      <3>2. Contains(<<"select", "where", "condition", b>>, "where")
        BY DEF Contains
      <3>3. QED
        BY <2>2, <2>4, <2>10, <3>1, <3>2, ReadableTexts
    <2>11. QED
      BY <2>6, <2>7, <2>8, <2>9, <2>10 DEF Arguments
  <1>9. QED
    BY <1>4, <1>6, <1>7, <1>8

LEMMA QueryStep ==
  ASSUME Inv, NEW arguments \in ArgumentLists, NEW condition, Query(arguments, condition)
  PROVE  RowsInv' /\ Registries' /\ TableInv' /\ QueryAsAsked(call)' /\ call'.op = "query"
         /\ call'.ok \in BOOLEAN
  <1> USE DEF Inv
  <1>1. UNCHANGED <<db, entity, autoKeys, cache, table, rows>>
    BY DEF Query
  <1>2. RowsInv' /\ Registries' /\ TableInv'
    BY <1>1, KeyKept, RegistriesKept, TableKept
  <1>3. table.made \in BOOLEAN
    BY DEF TableInv
  <1>4. PICK text : text = QueryText(arguments)
    OBVIOUS
  <1>5. CASE table.made = TRUE /\ text \in Readable
    <2>1. call'.op = "query" /\ call'.arguments = arguments /\ call'.condition = condition
          /\ call'.ok = TRUE
          /\ call'.selected = {r \in rows : Contains(text, "where") => Matches(r, condition)}
      BY <1>4, <1>5 DEF Query
    <2>2. Contains(text, "where") <=> Contains(arguments, "condition") /\ Head(arguments) # "select"
      BY <1>4, <1>5, TextOfQuery
    <2>3. {r \in rows : Contains(text, "where") => Matches(r, condition)}
            = IF Contains(arguments, "condition") /\ Head(arguments) # "select"
                THEN {r \in rows : Matches(r, condition)} ELSE rows
      BY <2>2
    <2>4. QED
      BY <1>1, <1>2, <2>1, <2>3 DEF QueryAsAsked, Matches
  <1>6. CASE ~(table.made = TRUE /\ text \in Readable)
    <2>1. call'.op = "query" /\ call'.arguments = arguments /\ call'.condition = condition
          /\ call'.ok = FALSE
      BY <1>3, <1>4, <1>6, Zenon DEF Query
    <2>2. table.made = TRUE =>
            arguments \notin {<<>>, <<"condition">>, <<"tail">>, <<"condition", "tail">>}
      BY <1>4, <1>6, TextOfQuery
    <2>3. QED
      BY <1>1, <1>2, <1>3, <2>1, <2>2 DEF QueryAsAsked
  <1>7. QED
    BY <1>5, <1>6

-----------------------------------------------------------------------------
(* The other actions                                                       *)

LEMMA InitInv == Init => Inv
  <1>1. SUFFICES ASSUME Init PROVE Inv
    OBVIOUS
  <1>2. Registries
    <2>1. \A name : Registered(name) \in [Names -> {NoField, AutoField}]
      BY <1>1 DEF Init, Registered
    <2>2. QED
      BY <1>1, <2>1 DEF Init, Registries, Lists
  <1>3. entity.auto # NoField /\ entity.scoped = FALSE => get_auto_key = AutoField
    BY <1>1 DEF Init, get_auto_key, ShortName, FullName, Registered, Names
  <1>4. TableInv
    BY <1>1, <1>3 DEF Init, TableInv
  <1>5. RowsInv
    BY <1>1, FS_EmptySet, EntityAssumption DEF Init, RowsInv
  <1>6. QED
    BY <1>2, <1>4, <1>5 DEF Inv

LEMMA CreateStep ==
  ASSUME Inv, NEW argument, NEW ok \in BOOLEAN, CreateTable(argument, ok)
  PROVE  Inv'
  <1> USE DEF Inv
  <1>1. PICK auto : auto = CountedField(argument)
    OBVIOUS
  <1>2. auto \in {NoField, AutoField} /\ (get_auto_key # NoField => auto = AutoField)
    BY <1>1 DEF CountedField
  <1>3. \/ autoKeys' = autoKeys
        \/ get_auto_key = NoField /\ autoKeys' = [autoKeys EXCEPT ![ShortName] = auto]
    <2>1. CASE db = "sqlite" /\ get_auto_key = NoField /\ auto # NoField
      BY <1>1, <2>1, Zenon DEF CreateTable
    <2>2. CASE ~(db = "sqlite" /\ get_auto_key = NoField /\ auto # NoField)
      <3>1. autoKeys' = autoKeys
        BY <1>1, <2>2, Zenon DEF CreateTable
      <3>2. QED
        BY <3>1
    <2>3. QED
      BY <2>1, <2>2
  <1>4. autoKeys' \in [Names -> {NoField, AutoField}]
    BY <1>2, <1>3 DEF Registries
  <1>5. UNCHANGED <<db, entity, rows, call>> /\ cache' = get_conflict_keys
    BY DEF CreateTable
  <1>6. get_conflict_key # <<>> => get_conflict_key' = get_conflict_key
    <2>1. autoKeys[FullName] # NoField => autoKeys'[FullName] = autoKeys[FullName]
      BY <1>3, Keys DEF Registries, get_auto_key
    <2>2. QED
      BY <1>5, <2>1 DEF get_conflict_key, FullName
  <1>7. Registries'
    <2>1. cache' \in Lists /\ (cache' # <<>> => cache' = get_conflict_key')
      BY <1>5, <1>6, Keys DEF Registries, get_conflict_keys
    <2>2. QED
      BY <1>4, <1>5, <2>1 DEF Registries
  <1>8. table' = table \/ (table.made = FALSE /\ table'.auto = auto
                           /\ table' \in [made : BOOLEAN, auto : {NoField, AutoField}, keys : SUBSET Field]
                           /\ (auto # NoField => table'.keys = {AutoField}))
    <2>1. CASE ok = TRUE /\ table.made = FALSE
      <3>1. PICK keys : keys = CASE auto # NoField -> {auto}
                                 [] auto = NoField /\ get_conflict_keys # <<>> ->
                                      ToSet(get_conflict_keys)
                                 [] OTHER -> IF argument = "key" THEN {AutoField} ELSE {}
        OBVIOUS
      <3>2. table' = [made |-> TRUE, auto |-> auto, keys |-> keys]
        BY <1>1, <2>1, <3>1 DEF CreateTable
      <3>3. ToSet(get_conflict_keys) \subseteq Field /\ AutoField \in Field
        BY Keys DEF ToSet
      <3>4. keys \subseteq Field /\ (auto # NoField => keys = {AutoField})
        BY <1>2, <3>1, <3>3
      <3>5. QED
        BY <1>2, <2>1, <3>2, <3>4
    <2>2. CASE ~(ok = TRUE /\ table.made = FALSE)
      <3>1. table.made \in BOOLEAN
        BY DEF TableInv
      <3>2. QED
        BY <2>2, <3>1 DEF CreateTable
    <2>3. QED
      BY <2>1, <2>2
  <1>9. entity.auto # NoField /\ entity.scoped = FALSE =>
          get_auto_key = AutoField /\ get_auto_key' = AutoField
    <2>1. AutoField # NoField
      BY Keys
    <2>2. QED
      BY <1>3, <1>5, <2>1 DEF TableInv, get_auto_key, ShortName
  <1>10. TableInv'
    <2>1. AutoField # NoField
      BY Keys
    <2>2. QED
      BY <1>2, <1>5, <1>8, <1>9, <2>1 DEF TableInv
  <1>11. RowsInv'
    BY <1>5, <1>8 DEF RowsInv, SameKey
  <1>12. QED
    BY <1>7, <1>10, <1>11

LEMMA RestartStep ==
  ASSUME Inv, Restart
  PROVE  Inv'
  <1> USE DEF Inv
  <1>1. UNCHANGED <<db, entity, table, rows, call>> /\ autoKeys' = Registered(FullName) /\ cache' = <<>>
    BY DEF Restart
  <1>2. Registries'
    <2>1. Registered(FullName) \in [Names -> {NoField, AutoField}]
      BY DEF Registries, Registered
    <2>2. QED
      BY <1>1, <2>1 DEF Registries, Lists
  <1>3. entity.auto # NoField /\ entity.scoped = FALSE => get_auto_key' = AutoField
    BY <1>1 DEF Registries, get_auto_key, ShortName, FullName, Registered, Names
  <1>4. TableInv'
    BY <1>1, <1>3 DEF TableInv
  <1>5. RowsInv'
    BY <1>1, KeyKept
  <1>6. QED
    BY <1>2, <1>4, <1>5

LEMMA DeleteStep ==
  ASSUME Inv, NEW condition, Delete(condition)
  PROVE  Inv' /\ call'.ok = TRUE /\ call'.op = "delete"
  <1> USE DEF Inv
  <1>1. UNCHANGED <<db, entity, autoKeys, cache, table>> /\ rows' \subseteq rows
        /\ call'.ok = TRUE /\ call'.op = "delete"
    BY DEF Delete
  <1>2. Registries' /\ TableInv'
    BY <1>1, RegistriesKept, TableKept
  <1>3. IsFiniteSet(rows') /\ Cardinality(rows') <= Cardinality(rows)
    BY <1>1, FS_Subset DEF RowsInv
  <1>4. Cardinality(rows') <= MaxRows
    BY <1>3, FS_CardinalityType, EntityAssumption DEF RowsInv
  <1>5. RowsInv'
    BY <1>1, <1>3, <1>4 DEF RowsInv, SameKey
  <1>6. QED
    BY <1>1, <1>2, <1>5

-----------------------------------------------------------------------------
(* Every step                                                              *)

\* The answer that has been given is what was asked for.
Checked == call.ok \in BOOLEAN /\ DoesAsAsked

LEMMA IdleChecked ==
  ASSUME call' = Idle
  PROVE  Checked'
  <1>1. call'.op = "none" /\ call'.ok = TRUE
    BY DEF Idle
  <1>2. QED
    BY <1>1 DEF Checked, DoesAsAsked

LEMMA InsertChecked ==
  ASSUME Inv, Room, NEW object \in Objects, NEW returning \in BOOLEAN, NEW id \in NextIds,
         Insert(object, returning, id)
  PROVE  Inv' /\ Checked'
  <1>1. call'.op = "insert" /\ call'.ok \in BOOLEAN
    <2>1. PICK ok \in BOOLEAN : Answer("insert", object, ok)
      BY InsertShape, Zenon DEF Inv
    <2>2. QED
      BY <2>1 DEF Answer
  <1>2. Inv' /\ InsertAsAsked(call)'
    BY InsertStep DEF Inv
  <1>3. QED
    BY <1>1, <1>2 DEF Checked, DoesAsAsked

LEMMA ReplaceChecked ==
  ASSUME Inv, Room, NEW object \in Objects, NEW id \in NextIds, Replace(object, id)
  PROVE  Inv' /\ Checked'
  <1>1. call'.op = "replace" /\ call'.ok \in BOOLEAN
    <2>1. PICK ok \in BOOLEAN : Answer("replace", object, ok)
      BY ReplaceShape, Zenon DEF Inv
    <2>2. QED
      BY <2>1 DEF Answer
  <1>2. Inv' /\ ReplaceAsAsked(call)'
    BY ReplaceStep DEF Inv
  <1>3. QED
    BY <1>1, <1>2 DEF Checked, DoesAsAsked

LEMMA UpdateChecked ==
  ASSUME Inv, NEW object \in Objects, NEW members \in MemberLists, NEW condition \in Conditions,
         Update(object, members, condition)
  PROVE  Inv' /\ Checked'
  <1>1. call'.op = "update" /\ call'.ok \in BOOLEAN
    <2>1. PICK ok \in BOOLEAN : call' = Asks(object, members, condition, ok)
      BY UpdateShape, Zenon DEF Inv
    <2>2. QED
      BY <2>1 DEF Asks
  <1>2. Inv' /\ UpdateAsAsked(call)'
    BY UpdateStep DEF Inv
  <1>3. QED
    BY <1>1, <1>2 DEF Checked, DoesAsAsked

LEMMA QueryChecked ==
  ASSUME Inv, NEW arguments \in ArgumentLists, NEW condition, Query(arguments, condition)
  PROVE  Inv' /\ Checked'
  <1>1. Inv' /\ QueryAsAsked(call)' /\ call'.op = "query" /\ call'.ok \in BOOLEAN
    BY QueryStep DEF Inv
  <1>2. QED
    BY <1>1 DEF Checked, DoesAsAsked

LEMMA NothingChanges ==
  ASSUME Inv, UNCHANGED <<db, entity, autoKeys, cache, table, rows>>
  PROVE  Inv'
  BY RegistriesKept, TableKept, KeyKept DEF Inv

\* The properties look at the call and at the variables that a stuttering step
\* leaves alone.
LEMMA StutterChecked ==
  ASSUME Checked, UNCHANGED vars
  PROVE  Checked'
  <1>1. UNCHANGED <<db, entity, autoKeys, cache, table, rows, call>>
    BY DEF vars
  <1>2. /\ get_conflict_key' = get_conflict_key /\ get_conflict_keys' = get_conflict_keys
        /\ BoundKeys' = BoundKeys
    BY <1>1 DEF get_conflict_keys, get_conflict_key, FullName, BoundKeys, is_conflict_key
  <1>3. \A r, s : SameKey(r, s)' <=> SameKey(r, s)
    BY <1>1 DEF SameKey
  <1>4. UpdateAsAsked(call)' <=> UpdateAsAsked(call)
    <2>1. (\A r : Asked(call, r)' = Asked(call, r)) /\ (AsyncCannot(call)' <=> AsyncCannot(call))
      BY <1>1, <1>2 DEF Asked, AsyncCannot, Matches
    <2>2. BoundInOrder(call)' <=> BoundInOrder(call)
      BY <1>1, <1>2 DEF BoundInOrder
    <2>3. QED
      BY <1>1, <1>2, <1>3, <2>1, <2>2 DEF UpdateAsAsked
  <1>5. InsertAsAsked(call)' <=> InsertAsAsked(call)
    BY <1>1 DEF InsertAsAsked, Same
  <1>6. ReplaceAsAsked(call)' <=> ReplaceAsAsked(call)
    BY <1>1, <1>2, <1>3 DEF ReplaceAsAsked, Same, ConflictIndexed
  <1>7. QueryAsAsked(call)' <=> QueryAsAsked(call)
    BY <1>1 DEF QueryAsAsked, Matches
  <1>8. QED
    BY <1>1, <1>4, <1>5, <1>6, <1>7 DEF Checked, DoesAsAsked

LEMMA NextInv == Inv /\ Checked /\ [Next]_vars => (Inv /\ Checked)'
  <1>1. SUFFICES ASSUME Inv, Checked, [Next]_vars PROVE Inv' /\ Checked'
    OBVIOUS
  <1>2. ASSUME NEW argument \in {"none", "auto_key", "key"}, NEW ok \in BOOLEAN,
               CreateTable(argument, ok)
        PROVE  Inv' /\ Checked'
    <2>1. call' = Idle
      BY <1>2 DEF CreateTable
    <2>2. QED
      BY <1>1, <1>2, <2>1, CreateStep, IdleChecked
  <1>3. CASE Restart
    <2>1. call' = Idle
      BY <1>3 DEF Restart
    <2>2. QED
      BY <1>1, <1>3, <2>1, RestartStep, IdleChecked
  <1>4. ASSUME NEW object \in Objects, NEW returning \in BOOLEAN, NEW id \in NextIds,
               Room, Insert(object, returning, id)
        PROVE  Inv' /\ Checked'
    BY <1>1, <1>4, InsertChecked
  <1>5. ASSUME NEW object \in Objects, NEW id \in NextIds, Room, Replace(object, id)
        PROVE  Inv' /\ Checked'
    BY <1>1, <1>5, ReplaceChecked
  <1>6. ASSUME NEW object \in Objects, NEW members \in MemberLists, NEW condition \in Conditions,
               Update(object, members, condition)
        PROVE  Inv' /\ Checked'
    BY <1>1, <1>6, UpdateChecked
  <1>7. ASSUME NEW condition \in Conditions, Delete(condition)
        PROVE  Inv' /\ Checked'
    <2>1. Inv' /\ call'.ok = TRUE /\ call'.op = "delete"
      BY <1>1, <1>7, DeleteStep
    <2>2. QED
      BY <2>1 DEF Checked, DoesAsAsked
  <1>8. ASSUME NEW arguments \in ArgumentLists, NEW condition \in Conditions,
               Query(arguments, condition)
        PROVE  Inv' /\ Checked'
    BY <1>1, <1>8, QueryChecked
  <1>9. CASE Return
    <2>1. call' = Idle /\ UNCHANGED <<db, entity, autoKeys, cache, table, rows>>
      BY <1>9 DEF Return
    <2>2. QED
      BY <1>1, <2>1, NothingChanges, IdleChecked
  <1>10. CASE UNCHANGED vars
    <2>1. UNCHANGED <<db, entity, autoKeys, cache, table, rows>>
      BY <1>10 DEF vars
    <2>2. QED
      BY <1>1, <1>10, <2>1, NothingChanges, StutterChecked
  <1>11. QED
    BY <1>1, <1>2, <1>3, <1>4, <1>5, <1>6, <1>7, <1>8, <1>9, <1>10 DEF Next

LEMMA InitChecked == Init => Inv /\ Checked
  <1>1. ASSUME Init PROVE Checked
    <2>1. call.op = "none" /\ call.ok = TRUE
      BY <1>1 DEF Init, Idle
    <2>2. QED
      BY <2>1 DEF Checked, DoesAsAsked
  <1>2. QED
    BY <1>1, InitInv

LEMMA Always == Spec => [](Inv /\ Checked)
  BY InitChecked, NextInv, PTL DEF Spec

\* The key that get_conflict_keys() keeps is the registry's, an unscoped struct
\* whose auto key the macro registers counts in the table as in the program, and
\* no two rows have one key, in a program of any create_datatable(), insert(),
\* replace(), update() and delete_records(), and of restarts that keep the table
\* (the registries of utility.hpp).
THEOREM TypeCorrect == Spec => []TypeOK
  <1>1. ASSUME Inv, Checked PROVE TypeOK
    BY <1>1 DEF Inv, Checked, Registries, TableInv, RowsInv, Lists, TypeOK
  <1>2. QED
    BY <1>1, Always, PTL

\* Every call does what it is asked, for a struct of any fields and any registered
\* keys: the values a driver binds are those of the columns that utility.hpp
\* writes, so update() changes its own row in the members asked for, insert()
\* adds its object and replace() takes away the row of its key alone, but for
\* what DoesAsAsked names (generate_insert_sql(), generate_update_sql() and the
\* stmt_execute() of the drivers).
THEOREM CallsDoAsAsked == Spec => []DoesAsAsked
  <1>1. Checked => DoesAsAsked
    BY DEF Checked
  <1>2. QED
    BY <1>1, Always, PTL
=============================================================================
