------------------------------ MODULE SchemaBuilder ------------------------------
(***************************************************************************)
(* create_table(), alter_table() and remove() of a range partition, in     *)
(* src/ormpp/query.hpp: what the builders send to which server, statement  *)
(* by statement, and what becomes of the table.                            *)
(*                                                                         *)
(* The table has two columns, "id" and the one it is partitioned by, and   *)
(* may get a column "c" (renamed to "d"), an index "i", a unique constraint *)
(* "u" and a check "k"; a foreign key is dropped as a check is.  Other      *)
(* connections insert rows between two statements.  A statement may fail    *)
(* on the server, or its answer be lost, with or without the statement      *)
(* having been executed; execute() then stops and returns false.            *)
(*                                                                         *)
(* mysql_async builds the same statements as mysql.                        *)
(***************************************************************************)
EXTENDS Naturals, Sequences, FiniteSets

CONSTANTS
  Drivers,
  Keys,      \* values of the column the table is partitioned by
  Descs,     \* the range_partition_descs the program has: names are distinct
  MaxParts,  \* bound on the partitions given to create_table()
  MaxThings  \* bound on the columns and constraints of the table: when it is
             \* reached, alter_table() is not asked for more

ASSUME SchemaAssumption ==
  /\ Drivers \subseteq {"sqlite", "mysql", "postgresql"}
  /\ Keys \subseteq Nat
  /\ \A p, q \in Descs : p.name = q.name => p = q
  /\ \A p \in Descs : /\ p.from \in Nat /\ p.to \in Nat
                      /\ p.maxvalue \in BOOLEAN /\ p.valid \in BOOLEAN
  /\ MaxParts \in Nat /\ MaxThings \in Nat

VARIABLES
  driver,
  table,       \* the table on the server
  registered,  \* the process takes "id" for filled by the server
  job          \* the builder that is being, or was last, executed

vars == <<driver, table, registered, job>>

SeqUpTo(S, n) == UNION {[1..m -> S] : m \in 0..n}

RangeOf(s) == {s[i] : i \in DOMAIN s}

\* A definition of the table, as create_table() collects it.
Definition(auto, key, parted, parts) ==
  [auto |-> auto, key |-> key, parted |-> parted, parts |-> parts]

Definitions ==
  [auto : BOOLEAN, key : {{"id"}, {"id", "bucket"}}, parted : BOOLEAN,
   parts : SeqUpTo(Descs, MaxParts)]

NoTable == [exists |-> FALSE, auto |-> FALSE, key |-> {}, parted |-> FALSE, parts |-> {},
            things |-> {}, rows |-> {}]

\* A statement, or the operation it is made of: what it does, to which column,
\* index or constraint, or to which partition and, there, to which rows.
Command(cmd, name, part, where) ==
  [cmd |-> cmd, name |-> name, part |-> part, where |-> where]

NoPart == [name |-> "none", from |-> 0, to |-> 0, maxvalue |-> FALSE, valid |-> FALSE]

On(name, cmd) == Command(cmd, name, NoPart, {})
OnPart(part, cmd) == Command(cmd, "none", part, Keys)

NoDefinition == Definition(FALSE, {}, FALSE, <<>>)

WithoutRows(t) == [t EXCEPT !.rows = {}]

\* A builder that is executed: what is to be done, how many statements were
\* executed on the server, what execute() returned, whether an answer was lost,
\* and the table it found (its rows aside).
Job(kind, def, todo) ==
  [kind |-> kind, def |-> def, todo |-> todo, ran |-> 0, returned |-> "nothing_yet",
   lost |-> FALSE, found |-> WithoutRows(table)]

NoJob == [kind |-> "none", def |-> NoDefinition, todo |-> <<>>, ran |-> 0,
          returned |-> "nothing_yet", lost |-> FALSE, found |-> NoTable]

Init ==
  /\ driver \in Drivers
  /\ table = NoTable
  /\ registered = FALSE
  /\ job = NoJob

-----------------------------------------------------------------------------
(* Partitions                                                              *)

\* is_valid_partition(): whether its name and bounds are usable is part of the
\* description here.
is_valid_partition(p) == p.valid

Below(k, p) == p.maxvalue \/ k < p.to

\* Mutant of partition_range_predicate: the end of the range is part of it.
EndIncluded(p, k) == k >= p.from /\ (p.maxvalue \/ k <= p.to)

\* The predicate sqlite uses in place of a partition.
partition_range_predicate(p, k) == k >= p.from /\ Below(k, p)

\* MySQL keeps a row in the lowest partition whose bound it is below; nothing
\* is said of where a partition begins.
NoHigher(p, q) == q.maxvalue \/ (~p.maxvalue /\ p.to <= q.to)

\* The rows of the table that are in the partition.
RowsOf(t, p) ==
  IF driver = "mysql"
    THEN {k \in t.rows : Below(k, p) /\ \A q \in t.parts : Below(k, q) => NoHigher(p, q)}
    ELSE {k \in t.rows : partition_range_predicate(p, k)}

\* Whether the table has a place for the row.
HasPlace(t, k) ==
  \/ ~t.parted \/ driver = "sqlite"
  \/ \E p \in t.parts : IF driver = "mysql" THEN Below(k, p)
                                             ELSE partition_range_predicate(p, k)

Overlap(p, q) == \E k \in Keys \cup {p.from, q.from} :
                   partition_range_predicate(p, k) /\ partition_range_predicate(q, k)

\* PostgreSQL refuses a range that ends before it begins.
NonEmpty(p) == p.maxvalue \/ p.from < p.to

\* VALUES LESS THAN must grow from one partition to the next.
Grows(p, q) == ~p.maxvalue /\ (q.maxvalue \/ p.to < q.to)

-----------------------------------------------------------------------------
(* create_table()                                                          *)

validate_partition_config(d) ==
  IF ~d.parted THEN d.parts = <<>>
  ELSE /\ driver = "mysql" => d.parts # <<>>
       /\ \A p \in RangeOf(d.parts) : is_valid_partition(p)

\* sqlite writes PRIMARY KEY AUTOINCREMENT behind the column, and then no key
\* of several columns.
primary_key(d) ==
  IF ~d.auto THEN d.key
  ELSE IF driver = "sqlite" THEN {"id"} ELSE d.key \cup {"id"}

\* The table; then its children in postgresql, an index in sqlite.
generate_sqls(d) ==
  <<On("none", "create_table")>> \o
    CASE d.parted /\ driver = "postgresql" ->
           [i \in DOMAIN d.parts |-> OnPart(d.parts[i], "create_child")]
      [] d.parted /\ driver = "sqlite" -> <<On("none", "create_partition_index")>>
      [] OTHER -> <<>>

\* Mutant of Create: the automatic field is not registered.
CreateUnregistered(d) ==
  /\ job = NoJob
  /\ job' = IF validate_partition_config(d)
              THEN Job("create", d, generate_sqls(d))
              ELSE [Job("create", d, <<>>) EXCEPT !.returned = "false"]
  /\ UNCHANGED <<driver, table, registered>>

\* execute() of create_table(): the configuration is checked before anything is
\* done, the automatic field registered before anything is sent.
Create(d) ==
  /\ job = NoJob
  /\ IF validate_partition_config(d)
       THEN /\ registered' = (registered \/ d.auto)
            /\ job' = Job("create", d, generate_sqls(d))
       ELSE /\ job' = [Job("create", d, <<>>) EXCEPT !.returned = "false"]
            /\ UNCHANGED registered
  /\ UNCHANGED <<driver, table>>

-----------------------------------------------------------------------------
(* alter_table() and remove()                                              *)

\* The operations as they are collected, by what they are about.
ThingOps ==
  {{On("c", "add_column"), On("c", "drop_column"), On("c", "modify_column"),
    On("d", "rename_column"), On("d", "drop_column")},
   {On("i", "add_index"), On("i", "drop_index")},
   {On("u", "add_unique"), On("u", "drop_constraint")},
   {On("k", "add_check"), On("k", "drop_constraint")}}

PartOps ==
  {{OnPart(p, op) : op \in {"clear_partition", "add_partition", "drop_partition"}} : p \in Descs}

\* One or two operations of one builder.
Alterations == UNION {SeqUpTo(ops, 2) \ {<<>>} : ops \in ThingOps \cup PartOps}

Adding == {"add_column", "add_index", "add_unique", "add_check"}

\* The clause an operation becomes; modify_column() leaves it empty in sqlite.
ClauseOf(op) ==
  CASE op = "modify_column" -> IF driver = "sqlite" THEN "nothing" ELSE op
    [] op = "drop_constraint" -> IF driver = "mysql" THEN "drop_index" ELSE op
    [] OTHER -> op

\* Mutant of PartitionSql: drop_partition() only empties the child table.
PartitionKept ==
  [clear_partition |-> [sqlite |-> "delete_range", mysql |-> "clear_partition",
                        postgresql |-> "truncate_child"],
   add_partition |-> [sqlite |-> "create_partition_index", mysql |-> "add_partition",
                      postgresql |-> "create_child"],
   drop_partition |-> [sqlite |-> "none", mysql |-> "drop_partition",
                       postgresql |-> "truncate_child"],
   remove |-> [sqlite |-> "delete_range", mysql |-> "delete_partition",
               postgresql |-> "delete_child"]]

\* The statements for the operations on a partition.
PartitionSql ==
  [clear_partition |-> [sqlite |-> "delete_range", mysql |-> "clear_partition",
                        postgresql |-> "truncate_child"],
   add_partition |-> [sqlite |-> "create_partition_index", mysql |-> "add_partition",
                      postgresql |-> "create_child"],
   drop_partition |-> [sqlite |-> "none", mysql |-> "drop_partition",
                       postgresql |-> "drop_child"],
   remove |-> [sqlite |-> "delete_range", mysql |-> "delete_partition",
               postgresql |-> "delete_child"]]

\* The statement for an operation; "none" if none is built.
build_operation_sql(op) ==
  IF op.cmd \in DOMAIN PartitionSql
    THEN IF is_valid_partition(op.part) THEN PartitionSql[op.cmd][driver] ELSE "none"
    ELSE IF op.cmd = "add_index" /\ driver = "postgresql" THEN "create_index_if_not_exists"
         ELSE ClauseOf(op.cmd)

Sql(op) == IF job.kind = "create" THEN op.cmd ELSE build_operation_sql(op)

Alter(ops) ==
  /\ job = NoJob
  /\ (\E op \in RangeOf(ops) : op.cmd \in Adding) => Cardinality(table.things) < MaxThings
  /\ job' = Job("alter", NoDefinition, ops)
  /\ UNCHANGED <<driver, table, registered>>

\* remove().partition(): execute_all(), or execute() with a condition.
Remove(p, where) ==
  /\ job = NoJob
  /\ job' = Job("remove", NoDefinition, <<Command("remove", "none", p, where)>>)
  /\ UNCHANGED <<driver, table, registered>>

-----------------------------------------------------------------------------
(* The server                                                              *)

\* Keys of a partitioned table hold the column it is partitioned by.
CanCreate(d) ==
  \/ driver = "sqlite" \/ ~d.parted
  \/ /\ "bucket" \in primary_key(d)
     /\ driver = "mysql" =>
          \A i, j \in DOMAIN d.parts : i < j => Grows(d.parts[i], d.parts[j])

Created(d) ==
  [exists |-> TRUE, auto |-> d.auto, key |-> primary_key(d),
   parted |-> d.parted /\ driver # "sqlite",
   parts |-> IF d.parted /\ driver = "mysql" THEN RangeOf(d.parts) ELSE {},
   things |-> {}, rows |-> {}]

Constraints == {"add_unique", "add_check"}

\* What is dropped as an index: in MySQL a unique constraint is one.
Indexes == IF driver = "mysql" THEN {"i", "u"} ELSE {"i"}

\* Whether the server executes the statement sql of the operation op.
Accepts(sql, op) ==
  IF sql = "create_table" THEN table.exists \/ CanCreate(job.def) ELSE
  /\ table.exists
  /\ CASE sql = "create_child" ->
            \/ op.part \in table.parts
            \/ /\ table.parted /\ NonEmpty(op.part)
               /\ \A q \in table.parts : ~Overlap(op.part, q)
       [] sql = "add_column" -> op.name \notin table.things
       [] sql \in {"drop_column", "modify_column"} -> op.name \in table.things
       [] sql = "rename_column" -> "c" \in table.things /\ op.name \notin table.things
       [] sql = "add_index" -> op.name \notin table.things
       [] sql = "drop_index" -> op.name \in table.things \cap Indexes
       [] sql \in Constraints -> driver # "sqlite" /\ op.name \notin table.things
       [] sql = "drop_constraint" -> driver # "sqlite" /\ op.name \in table.things
       [] sql \in {"clear_partition", "delete_partition", "truncate_child", "delete_child"} ->
            op.part \in table.parts
       [] sql = "add_partition" -> table.parted /\ \A q \in table.parts : Grows(q, op.part)
       [] sql = "drop_partition" -> op.part \in table.parts /\ table.parts # {op.part}
       [] OTHER -> sql # "nothing"

Erasing == {"delete_range", "clear_partition", "delete_partition", "drop_partition",
            "truncate_child", "delete_child", "drop_child"}

Gone(sql, op) ==
  IF sql \in Erasing /\ (driver = "sqlite" \/ op.part \in table.parts)
    THEN RowsOf(table, op.part) \cap op.where ELSE {}

After(sql, op) ==
  LET kept == [table EXCEPT !.rows = @ \ Gone(sql, op)]
  IN  CASE sql = "create_table" -> IF table.exists THEN table ELSE Created(job.def)
        [] sql \in {"create_child", "add_partition"} -> [table EXCEPT !.parts = @ \cup {op.part}]
        [] sql \in Adding \cup {"create_index_if_not_exists"} ->
             [table EXCEPT !.things = @ \cup {op.name}]
        [] sql \in {"drop_column", "drop_index", "drop_constraint"} ->
             [table EXCEPT !.things = @ \ {op.name}]
        [] sql = "rename_column" -> [table EXCEPT !.things = (@ \ {"c"}) \cup {op.name}]
        [] sql \in {"drop_partition", "drop_child"} -> [kept EXCEPT !.parts = @ \ {op.part}]
        [] OTHER -> kept

-----------------------------------------------------------------------------
(* execute(): the statements one by one, up to the first that fails.       *)

Next_op == job.todo[job.ran + 1]

Running == job # NoJob /\ job.returned = "nothing_yet"

\* Mutant of Statement: the next one is executed although this one has failed.
StatementGoesOn ==
  /\ Running /\ job.ran < Len(job.todo)
  /\ LET sql == Sql(Next_op)
     IN  /\ table' = IF sql # "none" /\ Accepts(sql, Next_op) THEN After(sql, Next_op) ELSE table
         /\ job' = [job EXCEPT !.ran = @ + 1]
  /\ UNCHANGED <<driver, registered>>

Statement ==
  /\ Running /\ job.ran < Len(job.todo)
  /\ LET sql == Sql(Next_op)
     IN  IF sql # "none" /\ Accepts(sql, Next_op)
           THEN table' = After(sql, Next_op) /\ job' = [job EXCEPT !.ran = @ + 1]
           ELSE job' = [job EXCEPT !.returned = "false"] /\ UNCHANGED table
  /\ UNCHANGED <<driver, registered>>

\* The connection breaks: before the server has executed the statement, or after.
AnswerLost ==
  /\ Running /\ job.ran < Len(job.todo) /\ driver # "sqlite"
  /\ LET sql == Sql(Next_op)
     IN  /\ sql # "none"
         /\ job' = [job EXCEPT !.returned = "false", !.lost = TRUE]
         /\ \/ Accepts(sql, Next_op) /\ table' = After(sql, Next_op)
            \/ UNCHANGED table
  /\ UNCHANGED <<driver, registered>>

Return ==
  /\ Running /\ job.ran = Len(job.todo)
  /\ job' = [job EXCEPT !.returned = "true"]
  /\ UNCHANGED <<driver, table, registered>>

\* The program executes the same create_table() again after a failure.
Retry ==
  /\ job.kind = "create" /\ job.returned = "false"
  /\ \/ /\ validate_partition_config(job.def)
        /\ registered' = (registered \/ job.def.auto)
        /\ job' = [job EXCEPT !.ran = 0, !.returned = "nothing_yet", !.lost = FALSE]
     \/ ~validate_partition_config(job.def) /\ UNCHANGED <<registered, job>>
  /\ UNCHANGED <<driver, table>>

\* The program is done with the builder.
Done ==
  /\ job.returned # "nothing_yet"
  /\ job' = NoJob
  /\ UNCHANGED <<driver, table, registered>>

\* Another connection inserts a row.
Insert(k) ==
  /\ table.exists /\ HasPlace(table, k)
  /\ table' = [table EXCEPT !.rows = @ \cup {k}]
  /\ UNCHANGED <<driver, registered, job>>

Next ==
  \/ \E d \in Definitions : Create(d)
  \/ \E ops \in Alterations : Alter(ops)
  \/ \E p \in Descs, where \in {Keys} \cup {{k} : k \in Keys} : Remove(p, where)
  \/ Statement
  \/ AnswerLost
  \/ Return
  \/ Retry
  \/ Done
  \/ \E k \in Keys : Insert(k)

Spec == Init /\ [][Next]_vars

-----------------------------------------------------------------------------
(* Properties                                                              *)

\* Types; partitions only in a table that is partitioned, and an automatic field
\* only when the process knows of it.
TypeOK ==
  /\ driver \in Drivers
  /\ table.parts \subseteq Descs /\ table.rows \subseteq Keys
  /\ table.things \subseteq {"c", "d", "i", "u", "k"}
  /\ table.parts # {} => table.parted
  /\ table.auto => registered
  /\ job.ran \in 0..Len(job.todo)
  /\ job.returned \in {"nothing_yet", "true", "false"}

\* In MySQL, which keeps no lower bounds: the partition has just its range, for
\* the range is not empty, begins where another partition ends or at the least
\* key there is, and no other partition ends inside it.
IsItsRange(p, parts) ==
  /\ NonEmpty(p)
  /\ \/ \A k \in Keys : p.from <= k
     \/ \E q \in parts : ~q.maxvalue /\ q.to = p.from
  /\ \A q \in parts : ~q.maxvalue => q.to <= p.from \/ NoHigher(p, q)

RemovesRows == {"clear_partition", "drop_partition", "remove"}

RemovesRange ==
  LET op == Next_op
      range == {k \in table.rows \cap op.where :
                  op.part.from <= k /\ (op.part.maxvalue \/ k < op.part.to)}
      gone == table.rows \ table'.rows
      removes == Running /\ job.ran < Len(job.todo) /\ op.cmd \in RemovesRows
      executed == removes /\ job'.ran = job.ran + 1
      known == driver = "sqlite" \/ op.part \in table.parts
      itself == driver = "mysql" => IsItsRange(op.part, table.parts)
  IN  /\ ~removes => gone = {}
      /\ removes /\ itself => gone \in {{}, range}
      /\ executed /\ itself /\ known => gone = range

\* Removing, clearing or dropping a partition removes, in every database alike,
\* the rows of its range that fulfil the condition and no other, whatever
\* partitions were added and dropped before and rows inserted meanwhile; nothing
\* else removes rows.  In MySQL a partition also has the rows below its range
\* that no other one has, and not those of a lower one that reaches into it.
RemovesItsRange == [][RemovesRange]_vars

\* A definition that can be created: its partitions do not overlap.
Creatable(d) ==
  /\ validate_partition_config(d) /\ CanCreate(d)
  /\ driver = "postgresql" => \A p \in RangeOf(d.parts) : NonEmpty(p)
  /\ \A i, j \in DOMAIN d.parts : i # j => ~Overlap(d.parts[i], d.parts[j])

\* With no table before, create_table() makes the one that was asked for, also
\* when it is executed again because an answer was lost half way, and fails for
\* no other reason than such an answer.  But sqlite keeps the automatic field
\* only of a key of several fields, and has no partitions.
CreatedAsAsked ==
  LET d == job.def
      key == d.key \cup IF d.auto THEN {"id"} ELSE {}
  IN  job.kind = "create" /\ job.found = NoTable =>
        /\ job.returned = "false" /\ Creatable(d) => job.lost
        /\ job.returned = "true" =>
             /\ table.exists /\ table.auto = d.auto
             /\ (driver = "sqlite" /\ d.auto) \/ table.key = key
             /\ driver # "sqlite" => table.parts = RangeOf(d.parts)

\* What alter_table() can take back: an index everywhere, a unique constraint
\* where it can be added, a check only in PostgreSQL (in MySQL drop_constraint()
\* drops an index), a partition that fits behind or between the others.
TakesBack(op) ==
  CASE op.cmd = "add_unique" -> driver # "sqlite"
    [] op.cmd = "add_check" -> driver = "postgresql"
    [] op.cmd = "add_partition" ->
         /\ driver # "sqlite" /\ job.found.parted /\ is_valid_partition(op.part)
         /\ \A q \in job.found.parts :
              IF driver = "mysql" THEN Grows(q, op.part) ELSE ~Overlap(q, op.part)
         /\ driver = "postgresql" => NonEmpty(op.part)
    [] OTHER -> op.cmd \in {"add_column", "add_index"}

\* An alter_table() that adds a column, index, constraint or partition and drops
\* it again succeeds, and leaves the table as it was, unless an answer is lost.
AddThenDropRestores ==
  LET add == job.todo[1]
      drop == job.todo[2]
  IN  /\ job.kind = "alter" /\ Len(job.todo) = 2 /\ job.found.exists
      /\ add.name \notin job.found.things /\ TakesBack(add)
      /\ drop.cmd \in {"drop_column", "drop_index", "drop_constraint", "drop_partition"}
      /\ drop.name = add.name
      => /\ job.returned = "false" => job.lost
         /\ job.returned = "true" => WithoutRows(table) = job.found
===============================================================================
