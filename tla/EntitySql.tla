------------------------------ MODULE EntitySql ------------------------------
(***************************************************************************)
(* The statements that src/ormpp/utility.hpp writes for an entity, the     *)
(* registries they are written from, and the values that each driver binds *)
(* to them: create_datatable(), insert(), get_insert_id_after_insert(),    *)
(* replace(), update(), update_some(), delete_records() and query() of one *)
(* struct, of its own or of a namespace, over one table.                   *)
(*                                                                         *)
(* A column list and the list of values bound to it are computed by two    *)
(* pieces of code, in utility.hpp and in a driver; the server pairs them   *)
(* by position.  Rows are sets: what tells equal rows of a table without a *)
(* key apart is left out.                                                  *)
(***************************************************************************)
EXTENDS Naturals, FiniteSets, SequencesExt

CONSTANTS
  Fields,        \* the struct's fields, in order
  AutoField,     \* the field that counts by itself when one does
  ConflictKeys,  \* the lists REGISTER_CONFLICT_KEY may get; <<>>: not used
  MemberLists,   \* the members update_some() may get; <<>>: update()
  Values,        \* values of the fields, 0 among them
  NewIds,        \* values a server gives out by itself
  NoField, Null,
  MaxRows        \* bound on the rows of the table

ASSUME EntityAssumption ==
  /\ Fields \in Seq(ToSet(Fields))
  /\ AutoField \in ToSet(Fields) /\ NoField \notin ToSet(Fields)
  /\ ConflictKeys \cup MemberLists \subseteq Seq(ToSet(Fields))
  /\ 0 \in Values /\ 0 \notin NewIds /\ Null \notin Values \cup NewIds
  /\ MaxRows \in Nat

VARIABLES
  db,        \* the driver
  entity,    \* the macros of the program, and whether the struct has a namespace
  autoKeys,  \* get_auto_key_map()
  cache,     \* the list that get_conflict_keys() keeps
  table,     \* the table: made, the column that counts by itself, the primary key
  rows,      \* its rows
  call       \* the call that has just been answered

vars == <<db, entity, autoKeys, cache, table, rows, call>>

Field == ToSet(Fields)
Objects == {o \in [Field -> Values \cup NewIds] : \A f \in Field \ {AutoField} : o[f] \in Values}
Names == {"T", "ns::T"}

\* The elements of a list that are in a set, in the order of the list.
InOrder(list, kept) ==
  LET upto[n \in 0..Len(list)] ==
        IF n = 0 THEN <<>>
        ELSE IF list[n] \in kept THEN Append(upto[n - 1], list[n]) ELSE upto[n - 1]
  IN  upto[Len(list)]

Idle == [op |-> "none", ok |-> TRUE]

\* Conditions are `field=value'; NoCondition stands for no argument.
NoCondition == [field |-> NoField, value |-> 0]
Conditions == {NoCondition} \cup [field : {Last(Fields)}, value : Values]

-----------------------------------------------------------------------------
(* The registries.                                                         *)

ShortName == "T"
FullName == IF entity.scoped THEN "ns::T" ELSE "T"

\* The macros register the full name before main() starts.
Registered(name) ==
  [n \in Names |-> IF n = name THEN entity.auto ELSE NoField]

\* Looked up by the short name ...
get_auto_key == autoKeys[ShortName]
is_auto_key(field) == field = get_auto_key

\* ... and by the full one.
get_conflict_key ==
  IF entity.conflict # <<>> THEN entity.conflict
  ELSE IF autoKeys[FullName] # NoField THEN <<autoKeys[FullName]>> ELSE <<>>

get_conflict_keys == IF cache # <<>> THEN cache ELSE get_conflict_key
is_conflict_key(field) == field \in ToSet(get_conflict_keys)

Init ==
  /\ db \in {"sqlite", "mysql", "postgresql", "mysql_async"}
  /\ entity \in [scoped : BOOLEAN, auto : {NoField, AutoField}, conflict : ConflictKeys]
  /\ autoKeys = Registered(FullName)
  /\ cache = <<>>
  /\ table = [made |-> FALSE, auto |-> NoField, keys |-> {}]
  /\ rows = {}
  /\ call = Idle

-----------------------------------------------------------------------------
(* The server.                                                             *)

SameKey(r, s) == table.keys # {} /\ \A k \in table.keys : r[k] = s[k] /\ r[k] # Null
Storable(r) == db = "sqlite" \/ \A k \in table.keys : r[k] # Null

\* An integer that is the only column of the key counts in SQLite.
Counts(f) == f = table.auto \/ (db = "sqlite" /\ table.keys = {f} /\ f = AutoField)

\* The row of an INSERT, when the server's next number is id.  MySQL also
\* takes a zero for a number that is not given.
StoredRow(columns, values, id) ==
  [f \in Field |->
    LET at == {k \in DOMAIN columns : columns[k] = f}
        given == IF at = {} THEN Null ELSE values[CHOOSE k \in at : TRUE]
    IN IF /\ Counts(f)
          /\ at = {} \/ (given = 0 /\ db \in {"mysql", "mysql_async"})
         THEN id ELSE given]

\* The numbers it may give next; a PostgreSQL sequence does not look at the
\* rows.
NextIds == {v \in NewIds : db = "postgresql" \/ \A r \in rows : r[AutoField] # v}

Matches(r, condition) == condition = NoCondition \/ r[condition.field] = condition.value

-----------------------------------------------------------------------------
(* create_datatable(), with ormpp_auto_key, with ormpp_key, or with neither. *)

ArgumentOnly(argument) == IF argument = "auto_key" THEN AutoField ELSE NoField

\* The macro counts as much as the argument.
CountedField(argument) ==
  IF get_auto_key # NoField \/ argument = "auto_key" THEN AutoField ELSE NoField

\* generate_createtb_sql().  sqlite registers the key here, by the short name,
\* whether or not the statement succeeds or changes anything.
CreateTable(argument, ok) ==
  LET auto == CountedField(argument)
      keys == CASE auto # NoField -> {auto}
                [] auto = NoField /\ get_conflict_keys # <<>> -> ToSet(get_conflict_keys)
                [] OTHER -> IF argument = "key" THEN {AutoField} ELSE {}
  IN /\ call = Idle
     /\ autoKeys' = IF db = "sqlite" /\ get_auto_key = NoField /\ auto # NoField
                      THEN [autoKeys EXCEPT ![ShortName] = auto] ELSE autoKeys
     /\ cache' = get_conflict_keys
     /\ table' = IF ok /\ ~table.made
                   THEN [made |-> TRUE, auto |-> auto, keys |-> keys] ELSE table
     /\ UNCHANGED <<db, entity, rows, call>>

\* The program ends and starts again; the table stays.
Restart ==
  /\ call = Idle
  /\ autoKeys' = Registered(FullName)
  /\ cache' = <<>>
  /\ UNCHANGED <<db, entity, table, rows, call>>

-----------------------------------------------------------------------------
(* insert() and replace().                                                 *)

\* generate_insert_sql()
InsertColumns(insert) ==
  InOrder(Fields, {f \in Field : ~(insert /\ is_auto_key(f))})

AllFields(insert) == Fields

\* What stmt_execute() and format_struct_sql() bind.
BoundFields(insert) ==
  InOrder(Fields, {f \in Field : ~(insert /\ is_auto_key(f))})

ValuesOf(object, fields) == [k \in DOMAIN fields |-> object[fields[k]]]

Answered(op, object, ok) ==
  call' = [op |-> op, object |-> object, before |-> rows, ok |-> ok]

\* With the number asked for, PostgreSQL gets `returning' and the auto key.
Insert(object, returning, id) ==
  LET columns == InsertColumns(TRUE)
      bound == ValuesOf(object, BoundFields(TRUE))
      row == StoredRow(columns, bound, id)
      ok == /\ table.made /\ Len(columns) = Len(bound)
            /\ returning /\ db = "postgresql" => get_auto_key # NoField
            /\ Storable(row)
            /\ \A r \in rows : ~SameKey(row, r)
  IN /\ call = Idle
     /\ rows' = IF ok THEN rows \cup {row} ELSE rows
     /\ Answered("insert", object, ok)
     /\ UNCHANGED <<db, entity, autoKeys, cache, table>>

\* PostgreSQL: on conflict(...), which needs an index on just these columns.
ConflictIndexed == table.keys # {} /\ ToSet(get_conflict_key) = table.keys

Replace(object, id) ==
  LET bound == ValuesOf(object, BoundFields(FALSE))
      row == StoredRow(InsertColumns(FALSE), bound, id)
      ok == /\ table.made
            /\ db = "postgresql" => ConflictIndexed
  IN /\ call = Idle
     /\ rows' = IF ok THEN {r \in rows : ~SameKey(row, r)} \cup {row} ELSE rows
     /\ Answered("replace", object, ok)
     /\ UNCHANGED <<db, entity, autoKeys, cache, table>>

-----------------------------------------------------------------------------
(* update() and update_some().                                             *)

\* generate_update_sql(): the columns of SET and those of WHERE.
SetColumns(members) == IF members = <<>> THEN Fields ELSE members
WhereColumns(condition) == IF condition = NoCondition THEN get_conflict_keys ELSE <<>>

\* The key values are bound in the order of the fields.
BoundKeys == InOrder(Fields, {f \in Field : is_conflict_key(f)})

\* mysql_async binds every field whatever the members, and a value of its own
\* for a condition.
UpdateBinds(object, members, condition) ==
  LET all == db = "mysql_async"
      fields == IF all THEN Fields ELSE SetColumns(members)
      keys == IF condition = NoCondition THEN BoundKeys ELSE <<>>
      text == IF all /\ condition # NoCondition THEN <<Null>> ELSE <<>>
  IN ValuesOf(object, fields \o keys) \o text

Update(object, members, condition) ==
  LET set == SetColumns(members)
      where == WhereColumns(condition)
      bound == UpdateBinds(object, members, condition)
      Found(r) == /\ Matches(r, condition)
                  /\ \A k \in DOMAIN where : r[where[k]] = bound[Len(set) + k]
      Changed(r) ==
        [f \in Field |->
          LET at == {k \in DOMAIN set : set[k] = f}
          IN IF Found(r) /\ at # {} THEN bound[CHOOSE k \in at : TRUE] ELSE r[f]]
      ok == /\ table.made
            /\ where # <<>> \/ condition # NoCondition
            /\ Len(bound) = Len(set) + Len(where)
            /\ \A r, s \in rows : r # s => ~SameKey(Changed(r), Changed(s))
  IN /\ call = Idle
     /\ rows' = IF ok THEN {Changed(r) : r \in rows} ELSE rows
     /\ cache' = IF condition = NoCondition THEN get_conflict_keys ELSE cache
     /\ call' = [op |-> "update", object |-> object, members |-> members,
                 condition |-> condition, before |-> rows, ok |-> ok]
     /\ UNCHANGED <<db, entity, autoKeys, table>>

-----------------------------------------------------------------------------
(* delete_records() and query().                                           *)

\* generate_delete_sql(): an empty condition is none.
DeletedBy(condition) == {r \in rows : Matches(r, condition)}

Delete(condition) ==
  /\ call = Idle
  /\ table.made
  /\ rows' = rows \ DeletedBy(condition)
  /\ call' = [op |-> "delete", condition |-> condition, ok |-> TRUE]
  /\ UNCHANGED <<db, entity, autoKeys, cache, table>>

\* The arguments of query(): nothing, a condition, an ordering or a limit, a
\* statement of its own.
Arguments == {"nothing", "condition", "tail", "select"}
ArgumentLists == UNION {[1..n -> Arguments] : n \in 0..2}

WhereKept(arguments) ==
  LET texts == InOrder(arguments, Arguments \ {"nothing"})
  IN IF texts = <<>> THEN <<"select">> ELSE <<"select", "where">> \o texts

\* generate_query_sql() and get_sql_conditions(), which looks at the first
\* argument only: a statement takes the place of everything, an ordering or a
\* limit takes the `where' away.
QueryText(arguments) ==
  LET texts == InOrder(arguments, Arguments \ {"nothing"})
  IN IF arguments # <<>> /\ Head(arguments) = "select" THEN <<"select">>
     ELSE IF texts = <<>> THEN <<"select">>
     ELSE IF Head(arguments) = "tail" THEN <<"select">> \o texts
     ELSE <<"select", "where">> \o texts

\* What the server can read; of two tails the first orders, the second limits.
Readable == {<<"select">>} \cup {w \o t : w \in {<<"select">>, <<"select", "where", "condition">>},
                                        t \in {<<"tail">>, <<"tail", "tail">>}}
            \cup {<<"select", "where", "condition">>}

Query(arguments, condition) ==
  LET text == QueryText(arguments)
      ok == table.made /\ text \in Readable
  IN /\ call = Idle
     /\ condition # NoCondition
     /\ call' = [op |-> "query", arguments |-> arguments, condition |-> condition,
                 ok |-> ok,
                 selected |-> {r \in rows : /\ ok
                                            /\ Contains(text, "where") => Matches(r, condition)}]
     /\ UNCHANGED <<db, entity, autoKeys, cache, table, rows>>

Return ==
  /\ call # Idle
  /\ call' = Idle
  /\ UNCHANGED <<db, entity, autoKeys, cache, table, rows>>

Room == Cardinality(rows) < MaxRows

Next ==
  \/ \E a \in {"none", "auto_key", "key"}, ok \in BOOLEAN : CreateTable(a, ok)
  \/ Restart
  \/ \E o \in Objects, g \in BOOLEAN, id \in NextIds : Room /\ Insert(o, g, id)
  \/ \E o \in Objects, id \in NextIds : Room /\ Replace(o, id)
  \/ \E o \in Objects, m \in MemberLists, c \in Conditions : Update(o, m, c)
  \/ \E c \in Conditions : Delete(c)
  \/ \E a \in ArgumentLists, c \in Conditions : Query(a, c)
  \/ Return

Spec == Init /\ [][Next]_vars

-----------------------------------------------------------------------------
(* Properties                                                              *)

\* Types; and what the registries, the cache and the table have to agree on:
\* the list that is kept is the one of the registry, and an unscoped struct
\* whose auto key is registered by the macro counts in the table and in the
\* program alike.
TypeOK ==
  /\ autoKeys \in [Names -> {NoField, AutoField}]
  /\ cache \in ConflictKeys \cup {<<>>, <<AutoField>>}
  /\ cache # <<>> => cache = get_conflict_key
  /\ table \in [made : BOOLEAN, auto : {NoField, AutoField}, keys : SUBSET Field]
  /\ Cardinality(rows) <= MaxRows /\ (rows # {} => table.made)
  /\ call.ok \in BOOLEAN
  /\ \A r, s \in rows : r # s => ~SameKey(r, s)
  /\ entity.auto # NoField /\ ~entity.scoped /\ table.made
       => get_auto_key = AutoField /\ table.auto = AutoField

\* What an update is asked to do: give the members of the object to the rows
\* of its condition, or to the row with the object's conflict key.
Asked(c, r) ==
  LET members == IF c.members = <<>> THEN Field ELSE ToSet(c.members)
      meant == IF c.condition # NoCondition THEN Matches(r, c.condition)
               ELSE \A k \in ToSet(get_conflict_keys) : r[k] = c.object[k]
  IN [f \in Field |-> IF meant /\ f \in members THEN c.object[f] ELSE r[f]]

\* The cases in which the two orders agree.
BoundInOrder(c) ==
  /\ c.condition # NoCondition \/ get_conflict_keys = BoundKeys
  /\ db = "mysql_async" => c.members \in {<<>>, Fields}

AsyncCannot(c) == db = "mysql_async" /\ (c.members # <<>> \/ c.condition # NoCondition)

UpdateAsAsked(c) ==
  LET asked == {Asked(c, r) : r \in c.before}
  IN BoundInOrder(c) =>
       IF c.ok THEN rows = asked
       ELSE /\ rows = c.before
            /\ \/ ~table.made \/ AsyncCannot(c)
               \/ c.condition = NoCondition /\ get_conflict_keys = <<>>
               \/ \E r, s \in c.before : r # s /\ SameKey(Asked(c, r), Asked(c, s))

Same(r, object) == \A f \in Field \ {AutoField} : r[f] = object[f]

InsertAsAsked(c) ==
  IF c.ok THEN \E r \in rows : rows \ {r} = c.before \ {r} /\ Same(r, c.object)
  ELSE /\ rows = c.before
       /\ table.made /\ entity.auto # NoField /\ ~entity.scoped => db = "postgresql"

ReplaceAsAsked(c) ==
  IF c.ok THEN \E r \in rows : /\ Same(r, c.object)
                              /\ rows = {s \in c.before : ~SameKey(s, r)} \cup {r}
  ELSE rows = c.before /\ (table.made => db = "postgresql" /\ ~ConflictIndexed)

QueryAsAsked(c) ==
  table.made =>
    /\ c.arguments \in {<<>>, <<"condition">>, <<"tail">>, <<"condition", "tail">>} => c.ok
    /\ c.ok => c.selected =
         IF Contains(c.arguments, "condition") /\ Head(c.arguments) # "select"
           THEN {r \in rows : Matches(r, c.condition)} ELSE rows

\* update() changes the row of its object, in the members asked for, and no
\* other; insert() adds one row and is never refused for the number of an
\* auto key; replace() removes nothing but the row it replaces; query() selects
\* from the rows of its condition, whatever ordering follows.  The column list
\* and the values that are bound to it come from different functions.
\* Not so: keys registered in another order than the fields', all members
\* given to mysql_async in another order; update_some() and update() with a
\* condition of mysql_async, which fail; auto keys of structs in a namespace;
\* sequences of PostgreSQL; replace() of PostgreSQL on a conflict key that is
\* not the primary key.
DoesAsAsked ==
  CASE call.op = "update" -> UpdateAsAsked(call)
    [] call.op = "insert" -> InsertAsAsked(call)
    [] call.op = "replace" -> ReplaceAsAsked(call)
    [] call.op = "query" -> QueryAsAsked(call)
    [] OTHER -> TRUE

\* update() changes the row whose conflict key is the object's.
UpdatesOwnRow ==
  call.op = "update" /\ call.ok => rows = {Asked(call, r) : r \in call.before}
=============================================================================
