-------------------------- MODULE SchemaBuilder_proofs --------------------------
(***************************************************************************)
(* Proofs about SchemaBuilder, for any descriptions of partitions, any     *)
(* keys, and tables and lists of statements of any size.                   *)
(*                                                                         *)
(* The statements of a job come from its builder (JobInv), so that each    *)
(* statement is one of few and is about something the server can have      *)
(* (Fits).  Then what the server does is followed through a create_table() *)
(* that may be executed again (Creating), and through an alter_table()     *)
(* that takes back what it added (Restoring).                              *)
(***************************************************************************)
EXTENDS SchemaBuilder, SequenceTheorems, TLAPS

ThingNames == {"c", "d", "i", "u", "k"}

ThingCommands == {"add_column", "drop_column", "modify_column", "rename_column",
                  "add_index", "drop_index", "add_unique", "add_check", "drop_constraint"}

PartCommands == {"clear_partition", "add_partition", "drop_partition"}

CreateCommands == {"create_table", "create_child", "create_partition_index"}

Tables == [exists : BOOLEAN, auto : BOOLEAN, key : SUBSET {"id", "bucket"},
           parted : BOOLEAN, parts : SUBSET Descs, things : SUBSET ThingNames,
           rows : SUBSET Keys]

Commands == [cmd : ThingCommands \cup PartCommands \cup CreateCommands \cup {"remove"},
             name : ThingNames \cup {"none"}, part : Descs \cup {NoPart},
             where : SUBSET Keys]

Jobs == [kind : {"none", "create", "alter", "remove"}, def : Definitions \cup {NoDefinition},
         todo : Seq(Commands), ran : Nat, returned : {"nothing_yet", "true", "false"},
         lost : BOOLEAN, found : Tables]

\* What is so of every table the server has.
TableInv(t) ==
  /\ t \in Tables
  /\ t.exists = FALSE => t = NoTable
  /\ t.parts # {} => t.parted = TRUE
  /\ t.parted = TRUE /\ driver = "mysql" => t.parts # {}

\* Each builder executes only what it collects.
Fits(op) ==
  /\ op.cmd \in CreateCommands <=> job.kind = "create"
  /\ op.cmd = "remove" <=> job.kind = "remove"
  /\ op.cmd \in PartCommands \cup {"create_child", "remove"} => op.part \in Descs
  /\ op.cmd \in ThingCommands => op.name \in ThingNames

JobInv ==
  /\ job \in Jobs
  /\ job.ran <= Len(job.todo)
  /\ job.kind = "none" => job = NoJob
  /\ job.kind = "create" =>
       /\ job.def \in Definitions
       /\ IF validate_partition_config(job.def)
            THEN job.todo = generate_sqls(job.def) /\ (job.def.auto = TRUE => registered)
            ELSE job.todo = <<>> /\ job.returned = "false"
  /\ job.kind = "alter" => job.todo \in Alterations
  /\ \A i \in 1..Len(job.todo) : Fits(job.todo[i])

\* The registry knows of every automatic field there is.
TypeInv == /\ driver \in Drivers /\ registered \in BOOLEAN
           /\ TableInv(table)
           /\ table.auto = TRUE => registered
           /\ JobInv

-----------------------------------------------------------------------------
(* The statements                                                          *)

LEMMA SomeDriver == driver \in Drivers => driver \in {"sqlite", "mysql", "postgresql"}
  BY SchemaAssumption

\* What is executed next.
Executes == Running /\ job.ran < Len(job.todo)

LEMMA JobParts ==
  ASSUME job \in Jobs
  PROVE  /\ job.todo \in Seq(Commands) /\ Len(job.todo) \in Nat /\ job.ran \in Nat
         /\ job.kind \in {"none", "create", "alter", "remove"}
         /\ job.returned \in {"nothing_yet", "true", "false"} /\ job.lost \in BOOLEAN
         /\ job.found \in Tables
  <1>1. job.todo \in Seq(Commands)
    BY DEF Jobs
  <1>2. Len(job.todo) \in Nat
    BY <1>1
  <1>3. QED
    BY <1>1, <1>2 DEF Jobs

LEMMA NextFits ==
  ASSUME TypeInv, Executes
  PROVE  Next_op \in Commands /\ Fits(Next_op)
  <1>1. job \in Jobs /\ job.todo \in Seq(Commands) /\ job.ran \in Nat
        /\ job.ran < Len(job.todo) /\ Len(job.todo) \in Nat
    BY JobParts DEF TypeInv, JobInv, Executes
  <1>2. job.ran + 1 \in 1..Len(job.todo)
    BY <1>1
  <1>3. QED
    BY <1>1, <1>2 DEF TypeInv, JobInv, Next_op

\* What may be sent for an operation.
Means(op, sql) ==
  /\ op.cmd \in CreateCommands => sql = op.cmd
  /\ op.cmd \in ThingCommands =>
       sql \in ThingCommands \cup {"create_index_if_not_exists", "nothing"}
  /\ op.cmd \in PartCommands \cup {"remove"} =>
       sql = IF is_valid_partition(op.part) THEN PartitionSql[op.cmd][driver] ELSE "none"

LEMMA SqlOf ==
  ASSUME TypeInv, Executes
  PROVE  Means(Next_op, Sql(Next_op))
  <1> DEFINE op == Next_op
  <1>1. op \in Commands /\ Fits(op)
    BY NextFits
  <1> HIDE DEF op
  <1>2. CASE op.cmd \in CreateCommands
    BY <1>1, <1>2 DEF Fits, Sql, CreateCommands, ThingCommands, PartCommands, Means, op
  <1>3. DOMAIN PartitionSql = PartCommands \cup {"remove"}
    BY DEF PartitionSql, PartCommands
  <1>4. CASE op.cmd \in ThingCommands
    <2>1. op.cmd \notin CreateCommands /\ op.cmd \notin DOMAIN PartitionSql
      BY <1>3, <1>4 DEF ThingCommands, CreateCommands, PartCommands
    <2>2. Sql(op) = IF op.cmd = "add_index" /\ driver = "postgresql"
                      THEN "create_index_if_not_exists" ELSE ClauseOf(op.cmd)
      <3>1. job.kind # "create"
        BY <1>1, <2>1 DEF Fits
      <3>2. Sql(op) = build_operation_sql(op)
        BY <3>1 DEF Sql
      <3>3. QED
        BY <2>1, <3>2 DEF build_operation_sql
    <2>3. ClauseOf(op.cmd) \in ThingCommands \cup {"nothing"}
      BY <1>4 DEF ClauseOf, ThingCommands
    <2>4. QED
      BY <1>4, <2>1, <2>2, <2>3, <1>3 DEF Means, op
  <1>5. CASE op.cmd \in PartCommands \cup {"remove"}
    <2>1. op.cmd \notin CreateCommands /\ op.cmd \notin ThingCommands
      BY <1>5 DEF ThingCommands, CreateCommands, PartCommands
    <2>2. Sql(op) = IF is_valid_partition(op.part) THEN PartitionSql[op.cmd][driver]
                                                   ELSE "none"
      BY <1>1, <1>3, <1>5, <2>1 DEF Fits, Sql, build_operation_sql
    <2>3. QED
      BY <1>5, <2>1, <2>2 DEF Means, op
  <1>6. QED
    BY <1>1, <1>2, <1>4, <1>5 DEF Commands, Means, op

\* In words the provers can split.
LEMMA SqlOfPart ==
  ASSUME NEW cmd \in PartCommands \cup {"remove"}, driver \in Drivers
  PROVE  LET sql == PartitionSql[cmd][driver]
         IN  /\ cmd # "add_partition" => sql \in Erasing \cup {"none"}
             /\ cmd # "drop_partition" => sql \notin {"drop_partition", "drop_child"}
             /\ cmd = "drop_partition" =>
                  sql = IF driver = "mysql" THEN "drop_partition"
                        ELSE IF driver = "postgresql" THEN "drop_child" ELSE "none"
             /\ cmd = "add_partition" =>
                  sql = IF driver = "mysql" THEN "add_partition"
                        ELSE IF driver = "postgresql" THEN "create_child"
                        ELSE "create_partition_index"
  <1>1. driver \in {"sqlite", "mysql", "postgresql"}
    BY SomeDriver
  <1>2. CASE driver = "sqlite"
    <2>1. /\ PartitionSql["clear_partition"][driver] = "delete_range"
          /\ PartitionSql["add_partition"][driver] = "create_partition_index"
          /\ PartitionSql["drop_partition"][driver] = "none"
          /\ PartitionSql["remove"][driver] = "delete_range"
      BY <1>2 DEF PartitionSql
    <2>2. QED
      BY <1>2, <2>1 DEF PartCommands, Erasing
  <1>3. CASE driver = "mysql"
    <2>1. /\ PartitionSql["clear_partition"][driver] = "clear_partition"
          /\ PartitionSql["add_partition"][driver] = "add_partition"
          /\ PartitionSql["drop_partition"][driver] = "drop_partition"
          /\ PartitionSql["remove"][driver] = "delete_partition"
      BY <1>3 DEF PartitionSql
    <2>2. QED
      BY <1>3, <2>1 DEF PartCommands, Erasing
  <1>4. CASE driver = "postgresql"
    <2>1. /\ PartitionSql["clear_partition"][driver] = "truncate_child"
          /\ PartitionSql["add_partition"][driver] = "create_child"
          /\ PartitionSql["drop_partition"][driver] = "drop_child"
          /\ PartitionSql["remove"][driver] = "delete_child"
      BY <1>4 DEF PartitionSql
    <2>2. QED
      BY <1>4, <2>1 DEF PartCommands, Erasing
  <1>5. QED
    BY <1>1, <1>2, <1>3, <1>4

\* What is known of a statement from what it says.
Says(op, sql) ==
  /\ sql = "create_table" => job.kind = "create"
  /\ sql \in {"create_child", "add_partition"} => op.part \in Descs
  /\ sql \in Adding \cup {"create_index_if_not_exists", "rename_column"} =>
       op.name \in ThingNames
  /\ sql \in Erasing => op.cmd \in RemovesRows
  /\ op.cmd \in RemovesRows => sql \in Erasing \cup {"none"} /\ op.part \in Descs
  /\ sql = "drop_child" => driver # "mysql"

LEMMA Sent ==
  ASSUME TypeInv, NEW op, NEW sql, op \in Commands, Fits(op), Means(op, sql)
  PROVE  Says(op, sql)
  <1>1. CASE op.cmd \in CreateCommands
    <2>1. sql = op.cmd
      BY <1>1 DEF Means
    <2>2. job.kind = "create"
      BY <1>1 DEF Fits
    <2>3. op.cmd = "create_child" => op.part \in Descs
      BY DEF Fits
    <2>4. /\ sql \notin Adding \cup {"create_index_if_not_exists", "rename_column"}
          /\ sql \notin Erasing /\ op.cmd \notin RemovesRows
          /\ sql \notin {"add_partition", "drop_child"}
      BY <1>1, <2>1 DEF CreateCommands, Adding, Erasing, RemovesRows
    <2>5. QED
      BY <2>1, <2>2, <2>3, <2>4 DEF Says
  <1>2. CASE op.cmd \in ThingCommands
    <2>1. op.name \in ThingNames /\ op.cmd \notin RemovesRows
      BY <1>2 DEF Fits, ThingCommands, RemovesRows
    <2>2. sql \in ThingCommands \cup {"create_index_if_not_exists", "nothing"}
      BY <1>2 DEF Means
    <2>3. /\ sql \notin Erasing
          /\ sql \notin {"create_table", "create_child", "add_partition", "drop_child"}
      BY <2>2 DEF ThingCommands, Erasing
    <2>4. QED
      BY <2>1, <2>3 DEF Says
  <1>3. CASE op.cmd \in PartCommands \cup {"remove"}
    <2>1. op.part \in Descs /\ driver \in Drivers
      BY <1>3 DEF Fits, TypeInv
    <2>2. sql = "none" \/ sql = PartitionSql[op.cmd][driver]
      BY <1>3 DEF Means
    <2>3. CASE op.cmd = "add_partition"
      <3>1. sql \in {"none", "add_partition", "create_child", "create_partition_index"}
        BY <1>3, <2>1, <2>2, <2>3, SqlOfPart
      <3>2. /\ sql \notin Adding \cup {"create_index_if_not_exists", "rename_column"}
            /\ sql \notin Erasing /\ op.cmd \notin RemovesRows
            /\ sql \notin {"create_table", "drop_child"}
        BY <2>3, <3>1 DEF Adding, Erasing, RemovesRows
      <3>3. QED
        BY <2>1, <3>2 DEF Says
    <2>4. CASE op.cmd # "add_partition"
      <3>1. op.cmd \in RemovesRows
        BY <1>3, <2>4 DEF PartCommands, RemovesRows
      <3>2. sql \in Erasing \cup {"none"} /\ (sql = "drop_child" => driver # "mysql")
        <4>1. CASE sql = "none"
          BY <4>1
        <4>2. CASE sql = PartitionSql[op.cmd][driver]
          BY <1>3, <2>1, <2>4, <4>2, SqlOfPart
        <4>3. QED
          BY <2>2, <4>1, <4>2
      <3>3. sql \notin {"create_table", "create_child", "add_partition"}
            /\ sql \notin Adding \cup {"create_index_if_not_exists", "rename_column"}
        BY <3>2 DEF Erasing, Adding
      <3>4. QED
        BY <2>1, <3>1, <3>2, <3>3 DEF Says
    <2>5. QED
      BY <2>3, <2>4
  <1>4. QED
    BY <1>1, <1>2, <1>3 DEF Commands

-----------------------------------------------------------------------------
(* What the server does with a statement                                   *)

LEMMA DefFacts ==
  ASSUME NEW d \in Definitions
  PROVE  /\ d.auto \in BOOLEAN /\ d.key \in {{"id"}, {"id", "bucket"}} /\ d.parted \in BOOLEAN
         /\ d.parts \in Seq(Descs) /\ DOMAIN d.parts = 1..Len(d.parts)
         /\ Len(d.parts) \in Nat
         /\ RangeOf(d.parts) \subseteq Descs
         /\ d.parts # <<>> => RangeOf(d.parts) # {}
         /\ d.parts = <<>> => RangeOf(d.parts) = {}
  <1>1. /\ d.auto \in BOOLEAN /\ d.key \in {{"id"}, {"id", "bucket"}} /\ d.parted \in BOOLEAN
        /\ d.parts \in SeqUpTo(Descs, MaxParts)
    BY DEF Definitions
  <1>2. PICK m \in 0..MaxParts : d.parts \in [1..m -> Descs]
    BY <1>1 DEF SeqUpTo
  <1>3. m \in Nat
    BY <1>2, SchemaAssumption
  <1>4. d.parts \in Seq(Descs) /\ DOMAIN d.parts = 1..m /\ Len(d.parts) = m
    BY <1>2, <1>3, SeqDef, LenProperties
  <1>5. RangeOf(d.parts) \subseteq Descs
    BY <1>2, <1>4 DEF RangeOf
  <1>6. ASSUME d.parts # <<>> PROVE RangeOf(d.parts) # {}
    <2>1. m # 0
      BY <1>4, <1>6, EmptySeq
    <2>2. 1 \in 1..m
      BY <1>3, <2>1
    <2>3. QED
      BY <1>4, <2>2 DEF RangeOf
  <1>7. d.parts = <<>> => RangeOf(d.parts) = {}
    BY DEF RangeOf
  <1>8. QED
    BY <1>1, <1>3, <1>4, <1>5, <1>6, <1>7

LEMMA EmptyTable ==
  /\ NoTable \in Tables /\ NoTable.rows = {} /\ NoTable.parts = {} /\ NoTable.exists = FALSE
  /\ NoTable.auto = FALSE /\ NoTable.parted = FALSE /\ NoTable.things = {}
  BY DEF NoTable, Tables

LEMMA CreatedFacts ==
  ASSUME NEW d \in Definitions, validate_partition_config(d), driver \in Drivers
  PROVE  LET t == Created(d)
         IN  /\ TableInv(t) /\ t.exists = TRUE /\ t.auto = d.auto
             /\ t.key = primary_key(d) /\ t.rows = {} /\ t.things = {}
             /\ t.parted = (d.parted /\ driver # "sqlite")
             /\ t.parts = IF d.parted /\ driver = "mysql" THEN RangeOf(d.parts) ELSE {}
  <1> DEFINE t == Created(d)
             key == primary_key(d)
             parted == d.parted /\ driver # "sqlite"
             parts == IF d.parted /\ driver = "mysql" THEN RangeOf(d.parts) ELSE {}
  <1>1. /\ d.auto \in BOOLEAN /\ d.parted \in BOOLEAN /\ RangeOf(d.parts) \subseteq Descs
        /\ d.parts # <<>> => RangeOf(d.parts) # {}
    BY DefFacts
  <1>2. key \in SUBSET {"id", "bucket"}
    BY DefFacts DEF primary_key
  <1>3. t = [exists |-> TRUE, auto |-> d.auto, key |-> key, parted |-> parted,
             parts |-> parts, things |-> {}, rows |-> {}]
    BY DEF Created
  <1>4. parts \in SUBSET Descs /\ parted \in BOOLEAN
    BY <1>1
  <1>5. parts # {} => parted = TRUE
    OBVIOUS
  <1>6. parted = TRUE /\ driver = "mysql" => parts # {}
    BY <1>1 DEF validate_partition_config
  <1> HIDE DEF key, parted, parts, t
  <1>7. TableInv(t)
    BY <1>1, <1>2, <1>3, <1>4, <1>5, <1>6 DEF TableInv, Tables
  <1>8. QED
    BY <1>3, <1>7 DEF t, key, parted, parts

LEMMA AfterFacts ==
  ASSUME TypeInv, Executes, NEW op, NEW sql, op \in Commands, Says(op, sql),
         Accepts(sql, op), NEW t, t = After(sql, op), NEW gone, gone = Gone(sql, op)
  PROVE  TableInv(t) /\ (t.auto = TRUE => registered) /\ t.rows = table.rows \ gone
  <1> DEFINE kept == [table EXCEPT !.rows = @ \ gone]
             Fine == TableInv(t) /\ (t.auto = TRUE => registered) /\ t.rows = table.rows \ gone
  <1>3. /\ table \in Tables /\ (table.exists = FALSE => table = NoTable)
        /\ (table.parts # {} => table.parted = TRUE)
        /\ (table.parted = TRUE /\ driver = "mysql" => table.parts # {})
        /\ (table.auto = TRUE => registered) /\ driver \in Drivers
    BY DEF TypeInv, TableInv
  <1>4. sql \notin Erasing => gone = {}
    BY DEF Gone
  <1>5. sql # "create_table" => table.exists = TRUE
    BY <1>3 DEF Accepts, Tables
  <1>6. t = CASE sql = "create_table" -> IF table.exists THEN table ELSE Created(job.def)
              [] sql \in {"create_child", "add_partition"} ->
                   [table EXCEPT !.parts = @ \cup {op.part}]
              [] sql \in Adding \cup {"create_index_if_not_exists"} ->
                   [table EXCEPT !.things = @ \cup {op.name}]
              [] sql \in {"drop_column", "drop_index", "drop_constraint"} ->
                   [table EXCEPT !.things = @ \ {op.name}]
              [] sql = "rename_column" -> [table EXCEPT !.things = (@ \ {"c"}) \cup {op.name}]
              [] sql \in {"drop_partition", "drop_child"} -> [kept EXCEPT !.parts = @ \ {op.part}]
              [] OTHER -> kept
    BY DEF After
  <1>7. /\ kept \in Tables /\ kept.rows = table.rows \ gone /\ kept.exists = table.exists
        /\ kept.auto = table.auto /\ kept.parted = table.parted /\ kept.parts = table.parts
    BY <1>3 DEF Tables
  <1> HIDE DEF kept
  <1>8. CASE sql = "create_table"
    <2>1. gone = {}
      BY <1>4, <1>8 DEF Erasing
    <2>2. CASE table.exists = TRUE
      <3>1. t = table
        BY <1>6, <1>8, <2>2 DEF Adding
      <3>2. QED
        BY <1>3, <2>1, <3>1 DEF TableInv, TypeInv
    <2>3. CASE table.exists = FALSE
      <3>1. t = Created(job.def) /\ job.kind = "create" /\ table.rows = {}
        <4>1. t = Created(job.def)
          BY <1>6, <1>8, <2>3 DEF Adding
        <4>2. job.kind = "create" /\ table.rows = {}
          BY <1>3, <1>8, <2>3, EmptyTable DEF Says
        <4>3. QED
          BY <4>1, <4>2
      <3>2. /\ job.def \in Definitions /\ validate_partition_config(job.def)
            /\ job.def.auto = TRUE => registered
        BY <3>1 DEF TypeInv, JobInv, Executes, Running
      <3>3. /\ TableInv(t) /\ t.auto = job.def.auto /\ t.rows = {}
        BY <1>3, <3>1, <3>2, CreatedFacts
      <3>4. QED
        BY <2>1, <3>1, <3>2, <3>3
    <2>4. QED
      BY <1>3, <2>2, <2>3 DEF Tables
  <1>9. CASE sql \in {"create_child", "add_partition"}
    <2>1. gone = {}
      BY <1>4, <1>9 DEF Erasing
    <2>2. t = [table EXCEPT !.parts = @ \cup {op.part}]
      BY <1>6, <1>9 DEF Adding
    <2>3. op.part \in Descs
      BY <1>9 DEF Says
    <2>4. table.parted = TRUE
      <3>1. table.parted \/ table.parts # {}
        <4>1. CASE sql = "create_child"
          <5>1. op.part \in table.parts \/ table.parted
            BY <4>1 DEF Accepts, Constraints
          <5>2. QED
            BY <5>1
        <4>2. CASE sql = "add_partition"
          BY <4>2 DEF Accepts, Constraints
        <4>3. QED
          BY <1>9, <4>1, <4>2
      <3>2. table.parted \in BOOLEAN
        BY <1>3 DEF Tables
      <3>3. QED
        BY <1>3, <3>1, <3>2
    <2>5. QED
      BY <1>3, <1>5, <1>9, <2>1, <2>2, <2>3, <2>4 DEF TableInv, Tables
  <1>10. CASE sql \in Adding \cup {"create_index_if_not_exists", "rename_column",
                                   "drop_column", "drop_index", "drop_constraint"}
    <2>1. gone = {}
      BY <1>4, <1>10 DEF Erasing, Adding
    <2>2. PICK things \in SUBSET ThingNames : t = [table EXCEPT !.things = things]
      <3>1. CASE sql \in Adding \cup {"create_index_if_not_exists"}
        <4>1. t = [table EXCEPT !.things = table.things \cup {op.name}]
          BY <1>6, <3>1 DEF Adding
        <4>2. table.things \cup {op.name} \in SUBSET ThingNames
          BY <1>3, <3>1 DEF Says, Tables
        <4>3. QED
          BY <4>1, <4>2
      <3>2. CASE sql = "rename_column"
        <4>1. t = [table EXCEPT !.things = (table.things \ {"c"}) \cup {op.name}]
          BY <1>6, <3>2 DEF Adding
        <4>2. (table.things \ {"c"}) \cup {op.name} \in SUBSET ThingNames
          BY <1>3, <3>2 DEF Says, Tables
        <4>3. QED
          BY <4>1, <4>2
      <3>3. CASE sql \in {"drop_column", "drop_index", "drop_constraint"}
        <4>1. t = [table EXCEPT !.things = table.things \ {op.name}]
          BY <1>6, <3>3 DEF Adding
        <4>2. table.things \ {op.name} \in SUBSET ThingNames
          BY <1>3 DEF Tables
        <4>3. QED
          BY <4>1, <4>2
      <3>4. QED
        BY <1>10, <3>1, <3>2, <3>3
    <2>3. sql # "create_table"
      BY <1>10 DEF Adding
    <2>4. QED
      BY <1>3, <1>5, <2>1, <2>2, <2>3 DEF TableInv, Tables
  <1>11. CASE sql \in {"drop_partition", "drop_child"}
    <2>1. t = [kept EXCEPT !.parts = @ \ {op.part}]
      BY <1>6, <1>11 DEF Adding
    <2>2. table.parted = TRUE /\ driver = "mysql" => table.parts # {op.part} /\ op.part \in table.parts
      BY <1>11 DEF Says, Accepts, Constraints
    <2>3. table.exists = TRUE
      BY <1>5, <1>11
    <2>4. /\ t \in Tables /\ t.exists = TRUE /\ t.parts = table.parts \ {op.part}
          /\ t.parted = table.parted /\ t.auto = table.auto /\ t.rows = table.rows \ gone
      BY <1>7, <2>1, <2>3 DEF Tables
    <2>5. QED
      BY <1>3, <2>2, <2>4 DEF TableInv
  <1>12. CASE /\ sql # "create_table" /\ sql \notin {"create_child", "add_partition"}
              /\ sql \notin Adding \cup {"create_index_if_not_exists", "rename_column",
                                         "drop_column", "drop_index", "drop_constraint"}
              /\ sql \notin {"drop_partition", "drop_child"}
    <2>1. t = kept
      BY <1>6, <1>12
    <2>2. table.exists = TRUE
      BY <1>5, <1>12
    <2>3. QED
      BY <1>3, <1>7, <2>1, <2>2 DEF TableInv
  <1>13. QED
    BY <1>8, <1>9, <1>10, <1>11, <1>12
-----------------------------------------------------------------------------
(* What the builders collect                                               *)

LEMMA CommandFields ==
  ASSUME NEW name, NEW part, NEW cmd
  PROVE  /\ On(name, cmd).cmd = cmd /\ On(name, cmd).name = name
         /\ OnPart(part, cmd).cmd = cmd /\ OnPart(part, cmd).name = "none"
         /\ OnPart(part, cmd).part = part /\ OnPart(part, cmd).where = Keys
  BY DEF On, OnPart, Command

LEMMA OnThing ==
  ASSUME NEW name \in ThingNames \cup {"none"}, NEW cmd \in ThingCommands \cup CreateCommands
  PROVE  On(name, cmd) \in Commands
  BY DEF On, Command, Commands

LEMMA OnAPart ==
  ASSUME NEW part \in Descs, NEW cmd \in PartCommands \cup CreateCommands
  PROVE  OnPart(part, cmd) \in Commands
  BY DEF OnPart, Command, Commands

LEMMA OneElement ==
  ASSUME NEW S, NEW x \in S
  PROVE  <<x>> \in Seq(S) /\ Len(<<x>>) = 1 /\ <<x>>[1] = x
  OBVIOUS

LEMMA FunctionIsSeq ==
  ASSUME NEW S, NEW n \in Nat, NEW f \in [1..n -> S]
  PROVE  f \in Seq(S) /\ Len(f) = n
  BY SeqDef, LenProperties

LEMMA HeadAndTail ==
  ASSUME NEW head \in Seq(Commands), Len(head) = 1, NEW tail \in Seq(Commands),
         NEW s, s = head \o tail
  PROVE  /\ s \in Seq(Commands) /\ Len(s) = 1 + Len(tail) /\ Len(tail) \in Nat
         /\ s[1] = head[1]
         /\ \A i \in 1..Len(tail) : s[i + 1] = tail[i]
  <1>1. Len(tail) \in Nat
    OBVIOUS
  <1>2. /\ head \o tail \in Seq(Commands) /\ Len(head \o tail) = Len(head) + Len(tail)
        /\ \A i \in 1..Len(head) + Len(tail) :
             (head \o tail)[i] = IF i <= Len(head) THEN head[i] ELSE tail[i - Len(head)]
    BY ConcatProperties, Zenon
  <1>3. s[1] = head[1]
    <2>1. 1 \in 1..1 + Len(tail)
      BY <1>1
    <2>2. QED
      BY <1>2, <2>1
  <1>4. ASSUME NEW i \in 1..Len(tail) PROVE s[i + 1] = tail[i]
    <2>1. i + 1 \in 1..Len(head) + Len(tail) /\ ~(i + 1 <= Len(head)) /\ (i + 1) - Len(head) = i
      BY <1>1
    <2>2. QED
      BY <1>2, <2>1
  <1>5. QED
    BY <1>1, <1>2, <1>3, <1>4

LEMMA CreateSqls ==
  ASSUME NEW d \in Definitions, driver \in Drivers, NEW s, s = generate_sqls(d)
  PROVE  /\ s \in Seq(Commands) /\ Len(s) \in Nat /\ Len(s) > 0
         /\ s[1] = On("none", "create_table")
         /\ d.parted /\ driver = "postgresql" =>
              /\ Len(s) = Len(d.parts) + 1
              /\ \A i \in 1..Len(d.parts) : s[i + 1] = OnPart(d.parts[i], "create_child")
         /\ ~(d.parted /\ driver = "postgresql") =>
              \A i \in 2..Len(s) : s[i] = On("none", "create_partition_index")
  <1> DEFINE head == <<On("none", "create_table")>>
             children == [i \in DOMAIN d.parts |-> OnPart(d.parts[i], "create_child")]
             index == <<On("none", "create_partition_index")>>
             tail == CASE d.parted /\ driver = "postgresql" -> children
                       [] d.parted /\ driver = "sqlite" -> index
                       [] OTHER -> <<>>
  <1>1. /\ On("none", "create_table") \in Commands
        /\ On("none", "create_partition_index") \in Commands
    BY OnThing DEF CreateCommands
  <1>2. \A p \in Descs : OnPart(p, "create_child") \in Commands
    BY OnAPart DEF CreateCommands
  <1>3. /\ d.parts \in Seq(Descs) /\ DOMAIN d.parts = 1..Len(d.parts) /\ Len(d.parts) \in Nat
        /\ d.parted \in BOOLEAN
    BY DefFacts
  <1>4. s = head \o tail
    BY DEF generate_sqls
  <1>5. /\ head \in Seq(Commands) /\ Len(head) = 1 /\ head[1] = On("none", "create_table")
    BY <1>1, OneElement
  <1>6. /\ index \in Seq(Commands) /\ Len(index) = 1
        /\ index[1] = On("none", "create_partition_index")
    BY <1>1, OneElement
  <1>7. children \in [1..Len(d.parts) -> Commands]
        /\ \A i \in 1..Len(d.parts) : children[i] = OnPart(d.parts[i], "create_child")
    <2>1. \A i \in DOMAIN d.parts : OnPart(d.parts[i], "create_child") \in Commands
      BY <1>2, <1>3, ElementOfSeq
    <2>2. QED
      BY <1>3, <2>1
  <1>8. /\ d.parted /\ driver = "postgresql" => tail = children
        /\ d.parted /\ driver = "sqlite" => tail = index
        /\ ~(d.parted /\ driver \in {"postgresql", "sqlite"}) => tail = <<>>
    OBVIOUS
  <1> HIDE DEF head, children, index, tail
  <1>9. children \in Seq(Commands) /\ Len(children) = Len(d.parts)
    BY <1>3, <1>7, FunctionIsSeq
  <1>10. <<>> \in Seq(Commands) /\ Len(<<>>) = 0
    OBVIOUS
  <1>11. tail \in Seq(Commands)
    BY <1>6, <1>8, <1>9, <1>10
  <1>12. /\ s \in Seq(Commands) /\ Len(s) = 1 + Len(tail) /\ Len(tail) \in Nat
         /\ s[1] = head[1]
         /\ \A i \in 1..Len(tail) : s[i + 1] = tail[i]
    BY <1>4, <1>5, <1>11, HeadAndTail
  <1>13. ASSUME d.parted, driver = "postgresql"
         PROVE  /\ Len(s) = Len(d.parts) + 1
                /\ \A i \in 1..Len(d.parts) : s[i + 1] = OnPart(d.parts[i], "create_child")
    <2>1. tail = children
      BY <1>8, <1>13
    <2>2. Len(s) = Len(d.parts) + 1 /\ Len(tail) = Len(d.parts)
      BY <1>3, <1>9, <1>12, <2>1
    <2>3. ASSUME NEW i \in 1..Len(d.parts)
          PROVE  s[i + 1] = OnPart(d.parts[i], "create_child")
      <3>1. s[i + 1] = tail[i]
        BY <1>12, <2>2
      <3>2. QED
        BY <1>7, <2>1, <3>1
    <2>4. QED
      BY <2>2, <2>3
  <1>14. ASSUME ~(d.parted /\ driver = "postgresql")
         PROVE  \A i \in 2..Len(s) : s[i] = On("none", "create_partition_index")
    <2> SUFFICES ASSUME NEW i \in 2..Len(s)
                 PROVE  s[i] = On("none", "create_partition_index")
      OBVIOUS
    <2>1. i \in Nat /\ i - 1 \in 1..Len(tail) /\ (i - 1) + 1 = i
      BY <1>12, <1>14
    <2>2. tail = index
      BY <1>8, <1>10, <1>14, <2>1
    <2>3. i - 1 = 1
      <3>1. Len(tail) = 1
        BY <1>6, <2>2
      <3>2. QED
        BY <2>1, <3>1
    <2>4. s[i] = tail[1]
      BY <1>12, <2>1, <2>3
    <2>5. QED
      BY <1>6, <2>2, <2>4
  <1>15. s \in Seq(Commands) /\ Len(s) \in Nat /\ Len(s) > 0 /\ s[1] = On("none", "create_table")
    <2>1. Len(s) \in Nat /\ Len(s) > 0
      BY <1>12
    <2>2. s[1] = On("none", "create_table")
      BY <1>5, <1>12, Zenon
    <2>3. QED
      BY <1>12, <2>1, <2>2
  <1>16. QED
    BY <1>13, <1>14, <1>15, Zenon

LEMMA OpOfThing ==
  ASSUME NEW ops \in ThingOps, NEW op \in ops
  PROVE  op \in Commands /\ op.cmd \in ThingCommands /\ op.name \in ThingNames
  <1>1. PICK name \in ThingNames, cmd \in ThingCommands : op = On(name, cmd)
    BY DEF ThingOps, ThingCommands, ThingNames
  <1>2. op.cmd = cmd /\ op.name = name
    BY <1>1, CommandFields
  <1>3. op \in Commands
    BY <1>1, OnThing
  <1>4. QED
    BY <1>1, <1>2, <1>3

LEMMA OpOfPart ==
  ASSUME NEW ops \in PartOps, NEW op \in ops
  PROVE  /\ op \in Commands /\ op.cmd \in PartCommands
         /\ \E p \in Descs : /\ \A other \in ops : other.part = p
                             /\ op.part = p /\ op.where = Keys /\ op.name = "none"
  <1>1. PICK p \in Descs :
          ops = {OnPart(p, cmd) : cmd \in {"clear_partition", "add_partition", "drop_partition"}}
    BY DEF PartOps
  <1>2. ASSUME NEW other \in ops
        PROVE  /\ other.part = p /\ other.where = Keys /\ other.name = "none"
               /\ other.cmd \in PartCommands /\ other \in Commands
    <2>1. PICK cmd \in PartCommands : other = OnPart(p, cmd)
      BY <1>1, <1>2 DEF PartCommands
    <2>2. /\ other.cmd = cmd /\ other.name = "none"
          /\ other.part = p /\ other.where = Keys
      BY <2>1, CommandFields
    <2>3. other \in Commands
      BY <2>1, OnAPart
    <2>4. QED
      BY <2>2, <2>3
  <1>3. QED
    BY <1>2

LEMMA Altering ==
  ASSUME NEW ops \in Alterations
  PROVE  /\ ops \in Seq(Commands) /\ Len(ops) \in 1..2
         /\ \E S \in ThingOps \cup PartOps : \A i \in 1..Len(ops) : ops[i] \in S
  <1>1. PICK S \in ThingOps \cup PartOps : ops \in SeqUpTo(S, 2) \ {<<>>}
    BY DEF Alterations
  <1>2. PICK m \in 0..2 : ops \in [1..m -> S]
    BY <1>1 DEF SeqUpTo
  <1>3. S \subseteq Commands
    BY OpOfThing, OpOfPart
  <1>4. /\ ops \in Seq(Commands) /\ Len(ops) = m
    BY <1>2, <1>3, SeqDef, LenProperties
  <1>5. m # 0
    BY <1>1, <1>4, EmptySeq
  <1>6. QED
    BY <1>2, <1>4, <1>5

-----------------------------------------------------------------------------
(* Types                                                                   *)

IsNew(j, k, d, s) ==
  /\ j \in Jobs /\ j.kind = k /\ j.def = d /\ j.todo = s /\ j.ran = 0
  /\ j.returned = "nothing_yet" /\ j.lost = FALSE /\ j.found = WithoutRows(table)

LEMMA NewJob ==
  ASSUME TypeInv, NEW k \in {"create", "alter", "remove"},
         NEW d \in Definitions \cup {NoDefinition}, NEW s \in Seq(Commands)
  PROVE  IsNew(Job(k, d, s), k, d, s)
  <1> DEFINE j == Job(k, d, s)
  <1>1. WithoutRows(table) \in Tables
    BY DEF WithoutRows, TypeInv, TableInv, Tables
  <1>2. j = [kind |-> k, def |-> d, todo |-> s, ran |-> 0, returned |-> "nothing_yet",
             lost |-> FALSE, found |-> WithoutRows(table)]
    BY DEF Job
  <1> HIDE DEF j
  <1>3. j \in Jobs /\ j.found = WithoutRows(table)
    BY <1>1, <1>2 DEF Jobs
  <1>4. QED
    BY <1>2, <1>3 DEF IsNew, j

LEMMA NothingToDo ==
  /\ NoJob \in Jobs /\ NoJob.kind = "none" /\ NoJob.todo = <<>> /\ NoJob.ran = 0
  /\ NoJob.returned = "nothing_yet" /\ NoJob.found = NoTable
  <1>1. <<>> \in Seq(Commands)
    OBVIOUS
  <1>2. QED
    BY <1>1, EmptyTable DEF NoJob, Jobs

LEMMA Carried ==
  ASSUME driver' = driver, NEW d, job'.def = d
  PROVE  /\ validate_partition_config(job.def)' <=> validate_partition_config(d)
         /\ generate_sqls(job.def)' = generate_sqls(d)
  BY DEF validate_partition_config, generate_sqls

LEMMA TodoFits ==
  ASSUME NEW i \in 1..Len(job.todo), JobInv
  PROVE  Fits(job.todo[i])
  BY DEF JobInv

LEMMA SameTodo ==
  ASSUME TypeInv, driver' = driver, registered => registered',
         job' \in Jobs, job'.kind = job.kind, job'.def = job.def, job'.todo = job.todo,
         job'.ran <= Len(job.todo), job.kind # "none",
         \/ job'.returned = "false"
         \/ job.kind = "create" => validate_partition_config(job.def)
  PROVE  JobInv'
  <1>1. /\ validate_partition_config(job.def)' <=> validate_partition_config(job.def)
        /\ generate_sqls(job.def)' = generate_sqls(job.def)
    BY Carried
  <1>2. job.kind = "create" =>
          /\ job.def \in Definitions
          /\ IF validate_partition_config(job.def)
               THEN job.todo = generate_sqls(job.def) /\ (job.def.auto = TRUE => registered)
               ELSE job.todo = <<>>
    BY DEF TypeInv, JobInv
  <1>3. job.kind = "alter" => job.todo \in Alterations
    BY DEF TypeInv, JobInv
  <1>4. \A i \in 1..Len(job.todo) : Fits(job.todo[i])'
    BY DEF TypeInv, JobInv, Fits
  <1>5. (job.kind = "create" =>
           /\ job.def \in Definitions
           /\ IF validate_partition_config(job.def)
                THEN job.todo = generate_sqls(job.def) /\ (job.def.auto = TRUE => registered)
                ELSE job.todo = <<>> /\ job.returned = "false")'
    BY <1>1, <1>2
  <1>6. QED
    BY <1>3, <1>4, <1>5 DEF JobInv

LEMMA CreateTypes ==
  ASSUME TypeInv, NEW d \in Definitions, Create(d)
  PROVE  JobInv'
  <1>1. driver' = driver /\ driver \in Drivers /\ d \in Definitions \cup {NoDefinition}
    BY DEF Create, TypeInv
  <1>2. CASE validate_partition_config(d)
    <2>0. PICK todo : todo = generate_sqls(d)
      OBVIOUS
    <2>1. /\ todo \in Seq(Commands) /\ Len(todo) \in Nat /\ Len(todo) > 0
          /\ todo[1] = On("none", "create_table")
          /\ d.parted /\ driver = "postgresql" =>
               /\ Len(todo) = Len(d.parts) + 1
               /\ \A i \in 1..Len(d.parts) : todo[i + 1] = OnPart(d.parts[i], "create_child")
          /\ ~(d.parted /\ driver = "postgresql") =>
               \A i \in 2..Len(todo) : todo[i] = On("none", "create_partition_index")
      BY <1>1, <2>0, CreateSqls
    <2>2. job' = Job("create", d, todo) /\ registered' = (registered \/ d.auto)
      BY <1>2, <2>0 DEF Create
    <2>3. /\ job' \in Jobs /\ job'.kind = "create" /\ job'.def = d /\ job'.todo = todo
          /\ job'.ran = 0
      <3>1. IsNew(Job("create", d, todo), "create", d, todo)
        BY <1>1, <2>1, NewJob
      <3>2. QED
        BY <2>2, <3>1 DEF IsNew
    <2>4. validate_partition_config(job.def)' /\ generate_sqls(job.def)' = todo
      BY <1>1, <1>2, <2>0, <2>3, Carried
    <2>5. ASSUME NEW i \in 1..Len(todo) PROVE Fits(todo[i])'
      <3>1. CASE i = 1
        <4>1. todo[i] = On("none", "create_table")
          BY <2>1, <3>1
        <4>2. todo[i].cmd = "create_table"
          BY <4>1, CommandFields
        <4>3. QED
          BY <2>3, <4>2 DEF Fits, CreateCommands, PartCommands, ThingCommands
      <3>2. CASE i # 1 /\ d.parted /\ driver = "postgresql"
        <4>1. i - 1 \in 1..Len(d.parts) /\ (i - 1) + 1 = i /\ Len(d.parts) \in Nat
          BY <2>1, <3>2, DefFacts
        <4>2. todo[i] = OnPart(d.parts[i - 1], "create_child")
          BY <2>1, <3>2, <4>1
        <4>3. d.parts[i - 1] \in Descs
          BY <4>1, DefFacts, ElementOfSeq
        <4>4. todo[i].cmd = "create_child" /\ todo[i].part \in Descs
          BY <4>2, <4>3, CommandFields
        <4>5. QED
          BY <2>3, <4>4 DEF Fits, CreateCommands, PartCommands, ThingCommands
      <3>3. CASE i # 1 /\ ~(d.parted /\ driver = "postgresql")
        <4>1. i \in 2..Len(todo)
          BY <2>1, <3>3
        <4>2. todo[i].cmd = "create_partition_index"
          BY <2>1, <3>3, <4>1, CommandFields
        <4>3. QED
          BY <2>3, <4>2 DEF Fits, CreateCommands, PartCommands, ThingCommands
      <3>4. QED
        BY <3>1, <3>2, <3>3
    <2>6. d.auto = TRUE => registered'
      BY <2>2
    <2>7. QED
      BY <2>1, <2>3, <2>4, <2>5, <2>6 DEF JobInv
  <1>3. CASE ~validate_partition_config(d)
    <2> DEFINE fresh == Job("create", d, <<>>)
    <2>1. <<>> \in Seq(Commands)
      OBVIOUS
    <2>2. /\ fresh \in Jobs /\ fresh.kind = "create" /\ fresh.def = d /\ fresh.todo = <<>>
          /\ fresh.ran = 0
      <3>1. IsNew(fresh, "create", d, <<>>)
        BY <1>1, <2>1, NewJob
      <3>2. QED
        BY <3>1 DEF IsNew
    <2>3. job' = [fresh EXCEPT !.returned = "false"]
      BY <1>3 DEF Create
    <2> HIDE DEF fresh
    <2>4. /\ job' \in Jobs /\ job'.kind = "create" /\ job'.def = d /\ job'.todo = <<>>
          /\ job'.ran = 0 /\ job'.returned = "false"
      BY <2>2, <2>3 DEF Jobs
    <2>5. ~validate_partition_config(job.def)'
      BY <1>1, <1>3, <2>4, Carried
    <2>6. QED
      BY <2>4, <2>5 DEF JobInv
  <1>4. QED
    BY <1>2, <1>3

LEMMA AlterTypes ==
  ASSUME TypeInv, NEW ops \in Alterations, Alter(ops)
  PROVE  JobInv'
  <1>1. ops \in Seq(Commands) /\ Len(ops) \in 1..2
    BY Altering
  <1>2. PICK S \in ThingOps \cup PartOps : \A i \in 1..Len(ops) : ops[i] \in S
    BY Altering
  <1>3. job' = Job("alter", NoDefinition, ops)
    BY DEF Alter
  <1>4. /\ job' \in Jobs /\ job'.kind = "alter" /\ job'.todo = ops /\ job'.ran = 0
    <2>1. NoDefinition \in Definitions \cup {NoDefinition}
      OBVIOUS
    <2>2. IsNew(Job("alter", NoDefinition, ops), "alter", NoDefinition, ops)
      BY <1>1, <2>1, NewJob
    <2>3. QED
      BY <1>3, <2>2 DEF IsNew
  <1>5. ASSUME NEW i \in 1..Len(ops) PROVE Fits(ops[i])'
    <2> DEFINE op == ops[i]
    <2>1. op \in S
      BY <1>2
    <2> HIDE DEF op
    <2>2. CASE S \in ThingOps
      <3>1. op.cmd \in ThingCommands /\ op.name \in ThingNames
        BY <2>1, <2>2, OpOfThing
      <3>2. Fits(op)'
        BY <1>4, <3>1 DEF Fits, CreateCommands, PartCommands, ThingCommands
      <3>3. QED
        BY <3>2 DEF op
    <2>3. CASE S \in PartOps
      <3>1. op.cmd \in PartCommands /\ op.part \in Descs
        BY <2>1, <2>3, OpOfPart
      <3>2. Fits(op)'
        BY <1>4, <3>1 DEF Fits, CreateCommands, PartCommands, ThingCommands
      <3>3. QED
        BY <3>2 DEF op
    <2>4. QED
      BY <2>2, <2>3
  <1>6. 0 <= Len(ops)
    BY <1>1
  <1>7. QED
    BY <1>4, <1>5, <1>6 DEF JobInv

LEMMA RemoveTypes ==
  ASSUME TypeInv, NEW p \in Descs, NEW where \in SUBSET Keys, Remove(p, where)
  PROVE  JobInv'
  <1>0. PICK op, todo : op = Command("remove", "none", p, where) /\ todo = <<op>>
    OBVIOUS
  <1>1. op \in Commands /\ op.cmd = "remove" /\ op.part = p
    BY <1>0 DEF Command, Commands
  <1>2. todo \in Seq(Commands) /\ Len(todo) = 1 /\ todo[1] = op
    BY <1>0, <1>1, OneElement
  <1>3. job' = Job("remove", NoDefinition, todo)
    BY <1>0 DEF Remove
  <1>4. /\ job' \in Jobs /\ job'.kind = "remove" /\ job'.todo = todo /\ job'.ran = 0
    <2>1. NoDefinition \in Definitions \cup {NoDefinition}
      OBVIOUS
    <2>2. IsNew(Job("remove", NoDefinition, todo), "remove", NoDefinition, todo)
      BY <1>2, <2>1, NewJob
    <2>3. QED
      BY <1>3, <2>2 DEF IsNew
  <1>5. \A i \in 1..Len(todo) : Fits(todo[i])'
    <2>1. Fits(op)'
      BY <1>1, <1>4 DEF Fits, CreateCommands, PartCommands, ThingCommands
    <2>2. QED
      BY <1>2, <2>1
  <1>6. 0 <= Len(todo)
    BY <1>2
  <1>7. QED
    BY <1>4, <1>5, <1>6 DEF JobInv

LEMMA InitTypes == Init => TypeInv
  <1> SUFFICES ASSUME Init PROVE TypeInv
    OBVIOUS
  <1>1. driver \in Drivers /\ table = NoTable /\ registered = FALSE /\ job = NoJob
    BY DEF Init
  <1>2. TableInv(table) /\ table.auto = FALSE
    BY <1>1, EmptyTable DEF TableInv
  <1>3. JobInv
    <2>1. Len(job.todo) = 0
      BY <1>1, NothingToDo
    <2>2. QED
      BY <1>1, <2>1, NothingToDo DEF JobInv
  <1>4. QED
    BY <1>1, <1>2, <1>3 DEF TypeInv

\* A step that leaves driver and table, and the registry no smaller.
LEMMA JobStepTypes ==
  ASSUME TypeInv, driver' = driver, table' = table, registered' \in BOOLEAN,
         registered => registered', JobInv'
  PROVE  TypeInv'
  <1>1. TableInv(table)'
    BY DEF TypeInv, TableInv
  <1>2. QED
    BY <1>1 DEF TypeInv

\* What a statement, and the answer that is lost, leave of the job.
LEMMA ExecutedTypes ==
  ASSUME TypeInv, Executes, driver' = driver, registered' = registered,
         \/ /\ job' = [job EXCEPT !.ran = @ + 1]
         \/ job' = [job EXCEPT !.returned = "false"]
         \/ job' = [job EXCEPT !.returned = "false", !.lost = TRUE]
  PROVE  /\ JobInv' /\ job' \in Jobs
         /\ job'.kind = job.kind /\ job'.def = job.def /\ job'.todo = job.todo
         /\ job'.found = job.found
  <1>1. /\ job \in Jobs /\ job.ran \in Nat /\ Len(job.todo) \in Nat /\ job.ran < Len(job.todo)
        /\ job # NoJob /\ job.returned = "nothing_yet" /\ (job.kind = "none" => job = NoJob)
        /\ job.kind = "create" => validate_partition_config(job.def)
    BY JobParts DEF TypeInv, JobInv, Executes, Running
  <1>2. /\ job' \in Jobs /\ job'.kind = job.kind /\ job'.def = job.def
        /\ job'.todo = job.todo /\ job'.ran <= Len(job.todo) /\ job'.found = job.found
    <2>1. CASE job' = [job EXCEPT !.ran = @ + 1]
      BY <1>1, <2>1 DEF Jobs
    <2>2. CASE job' = [job EXCEPT !.returned = "false"]
      BY <1>1, <2>2 DEF Jobs
    <2>3. CASE job' = [job EXCEPT !.returned = "false", !.lost = TRUE]
      <3>1. PICK j : j = [job EXCEPT !.returned = "false"]
        OBVIOUS
      <3>2. /\ j \in Jobs /\ j.kind = job.kind /\ j.def = job.def
            /\ j.todo = job.todo /\ j.ran <= Len(job.todo) /\ j.found = job.found
        BY <1>1, <3>1 DEF Jobs
      <3>3. job' = [j EXCEPT !.lost = TRUE]
        BY <2>3, <3>1
      <3>4. QED
        BY <3>2, <3>3 DEF Jobs
    <2>4. QED
      BY <2>1, <2>2, <2>3
  <1>3. JobInv'
    BY <1>1, <1>2, SameTodo
  <1>4. QED
    BY <1>2, <1>3

\* What a statement, executed or not, leaves of the table.
LEMMA ServerTypes ==
  ASSUME TypeInv, Executes, driver' = driver, registered' = registered,
         \/ Accepts(Sql(Next_op), Next_op) /\ table' = After(Sql(Next_op), Next_op)
         \/ table' = table
  PROVE  TableInv(table)' /\ (table'.auto = TRUE => registered')
  <1>1. CASE table' = table
    BY <1>1 DEF TypeInv, TableInv
  <1>2. CASE Accepts(Sql(Next_op), Next_op) /\ table' = After(Sql(Next_op), Next_op)
    <2>1. PICK op, sql, t : op = Next_op /\ sql = Sql(op) /\ t = After(sql, op)
      OBVIOUS
    <2>2. op \in Commands /\ Fits(op) /\ Means(op, sql)
      BY <2>1, NextFits, SqlOf
    <2>3. Says(op, sql)
      BY <2>2, Sent
    <2>4. TableInv(t) /\ (t.auto = TRUE => registered)
      BY <1>2, <2>1, <2>2, <2>3, AfterFacts
    <2>5. table' = t
      BY <1>2, <2>1
    <2>6. QED
      BY <2>4, <2>5 DEF TableInv
  <1>3. QED
    BY <1>1, <1>2

LEMMA StatementShape ==
  ASSUME Statement \/ AnswerLost
  PROVE  /\ Executes /\ driver' = driver /\ registered' = registered
         /\ \/ job' = [job EXCEPT !.ran = @ + 1]
            \/ job' = [job EXCEPT !.returned = "false"]
            \/ job' = [job EXCEPT !.returned = "false", !.lost = TRUE]
         /\ \/ Accepts(Sql(Next_op), Next_op) /\ table' = After(Sql(Next_op), Next_op)
            \/ table' = table
  <1>1. CASE Statement
    BY <1>1 DEF Statement, Executes
  <1>2. CASE AnswerLost
    BY <1>2 DEF AnswerLost, Executes
  <1>3. QED
    BY <1>1, <1>2

LEMMA NextTypes == TypeInv /\ [Next]_vars => TypeInv'
  <1> SUFFICES ASSUME TypeInv, [Next]_vars PROVE TypeInv'
    OBVIOUS
  <1>1. registered \in BOOLEAN /\ driver \in Drivers /\ JobInv /\ job \in Jobs
    BY DEF TypeInv, JobInv
  <1>2. ASSUME NEW d \in Definitions, Create(d) PROVE TypeInv'
    <2>1. JobInv'
      BY <1>2, CreateTypes
    <2>2. driver' = driver /\ table' = table /\ registered' \in BOOLEAN
          /\ (registered => registered')
      <3>1. d.auto \in BOOLEAN
        BY DefFacts
      <3>2. QED
        BY <1>1, <1>2, <3>1 DEF Create
    <2>3. QED
      BY <2>1, <2>2, JobStepTypes
  <1>3. ASSUME NEW ops \in Alterations, Alter(ops) PROVE TypeInv'
    <2>1. JobInv'
      BY <1>3, AlterTypes
    <2>2. driver' = driver /\ table' = table /\ registered' = registered
      BY <1>3 DEF Alter
    <2>3. QED
      BY <1>1, <2>1, <2>2, JobStepTypes
  <1>4. ASSUME NEW p \in Descs, NEW where \in {Keys} \cup {{k} : k \in Keys}, Remove(p, where)
        PROVE  TypeInv'
    <2>1. where \in SUBSET Keys
      OBVIOUS
    <2>2. JobInv'
      BY <1>4, <2>1, RemoveTypes
    <2>3. driver' = driver /\ table' = table /\ registered' = registered
      BY <1>4 DEF Remove
    <2>4. QED
      BY <1>1, <2>2, <2>3, JobStepTypes
  <1>5. CASE Statement \/ AnswerLost
    <2>1. /\ JobInv' /\ driver' = driver /\ registered' = registered
          /\ TableInv(table)' /\ (table'.auto = TRUE => registered')
      BY <1>5, StatementShape, ExecutedTypes, ServerTypes
    <2>2. QED
      BY <1>1, <2>1 DEF TypeInv
  <1>6. CASE Return
    <2>1. /\ job' = [job EXCEPT !.returned = "true"] /\ driver' = driver /\ table' = table
          /\ registered' = registered /\ Running
      BY <1>6 DEF Return
    <2>2. /\ job' \in Jobs /\ job'.kind = job.kind /\ job'.def = job.def
          /\ job'.todo = job.todo /\ job'.ran <= Len(job.todo)
      BY <1>1, <2>1 DEF Jobs, JobInv
    <2>3. /\ job.kind # "none"
          /\ job.kind = "create" => validate_partition_config(job.def)
      BY <1>1, <2>1 DEF Running, JobInv
    <2>4. JobInv'
      BY <2>1, <2>2, <2>3, SameTodo
    <2>5. QED
      BY <1>1, <2>1, <2>4, JobStepTypes
  <1>7. CASE Retry
    <2>1. job.kind = "create" /\ driver' = driver /\ table' = table
      BY <1>7 DEF Retry
    <2>2. CASE registered' = registered /\ job' = job
      <3>1. job'.ran <= Len(job.todo) /\ job.kind # "none" /\ job' \in Jobs
            /\ job'.kind = job.kind /\ job'.def = job.def /\ job'.todo = job.todo
        BY <1>1, <2>1, <2>2 DEF JobInv
      <3>2. \/ job'.returned = "false"
            \/ job.kind = "create" => validate_partition_config(job.def)
        BY <1>1, <2>2 DEF JobInv
      <3>3. JobInv'
        BY <2>1, <2>2, <3>1, <3>2, SameTodo
      <3>4. QED
        BY <1>1, <2>1, <2>2, <3>3, JobStepTypes
    <2>3. CASE /\ validate_partition_config(job.def)
               /\ registered' = (registered \/ job.def.auto)
               /\ job' = [job EXCEPT !.ran = 0, !.returned = "nothing_yet", !.lost = FALSE]
      <3>1. /\ job' \in Jobs /\ job'.kind = job.kind /\ job'.def = job.def
            /\ job'.todo = job.todo /\ job'.ran = 0
        BY <1>1, <2>3 DEF Jobs
      <3>2. job'.ran <= Len(job.todo) /\ job.kind # "none"
        BY <1>1, <2>1, <3>1, JobParts
      <3>3. registered' \in BOOLEAN /\ (registered => registered')
        <4>1. job.def \in Definitions
          BY <1>1, <2>1 DEF JobInv
        <4>2. QED
          BY <1>1, <2>3, <4>1, DefFacts
      <3>4. JobInv'
        BY <2>1, <2>3, <3>1, <3>2, <3>3, SameTodo
      <3>5. QED
        BY <2>1, <3>3, <3>4, JobStepTypes
    <2>4. QED
      BY <1>7, <2>2, <2>3 DEF Retry
  <1>8. CASE Done
    <2>1. job' = NoJob /\ driver' = driver /\ table' = table /\ registered' = registered
      BY <1>8 DEF Done
    <2>2. Len(<<>>) = 0
      OBVIOUS
    <2>3. JobInv'
      BY <2>1, <2>2, NothingToDo DEF JobInv
    <2>4. QED
      BY <1>1, <2>1, <2>3, JobStepTypes
  <1>9. ASSUME NEW k \in Keys, Insert(k) PROVE TypeInv'
    <2>1. /\ table.exists /\ table' = [table EXCEPT !.rows = @ \cup {k}]
          /\ driver' = driver /\ registered' = registered /\ job' = job
      BY <1>9 DEF Insert
    <2>2. JobInv'
      BY <1>1, <2>1, Carried DEF JobInv, Fits
    <2>3. TableInv(table)' /\ table'.auto = table.auto
      BY <2>1 DEF TypeInv, TableInv, Tables
    <2>4. QED
      BY <1>1, <2>1, <2>2, <2>3 DEF TypeInv
  <1>10. CASE UNCHANGED vars
    <2>1. driver' = driver /\ table' = table /\ registered' = registered /\ job' = job
      BY <1>10 DEF vars
    <2>2. JobInv'
      BY <1>1, <2>1, Carried DEF JobInv, Fits
    <2>3. QED
      BY <1>1, <2>1, <2>2, JobStepTypes
  <1>11. QED
    BY <1>2, <1>3, <1>4, <1>5, <1>6, <1>7, <1>8, <1>9, <1>10 DEF Next

LEMMA Typed == Spec => []TypeInv
  BY InitTypes, NextTypes, PTL DEF Spec

\* The types are kept: no table has partitions that is not partitioned, or an
\* automatic field that the process does not know of, whatever is created,
\* altered and retried (registry of create_table()).
THEOREM TypeCorrect == Spec => []TypeOK
  <1>1. ASSUME TypeInv PROVE TypeOK
    <2>1. job.ran \in 0..Len(job.todo) /\ job.returned \in {"nothing_yet", "true", "false"}
      BY <1>1, JobParts DEF TypeInv, JobInv
    <2>2. QED
      BY <1>1, <2>1 DEF TypeInv, TypeOK, TableInv, Tables, ThingNames
  <1>2. QED
    BY <1>1, Typed, PTL

-----------------------------------------------------------------------------
(* A partition is its range                                                *)

\* The rows of the range that fulfil the condition, as RemovesRange names them.
RangeRows(p, where) ==
  {k \in table.rows \cap where : p.from <= k /\ (p.maxvalue \/ k < p.to)}

LEMMA DescFacts ==
  ASSUME NEW p \in Descs
  PROVE  p.from \in Nat /\ p.to \in Nat /\ p.maxvalue \in BOOLEAN /\ p.valid \in BOOLEAN
  BY SchemaAssumption

\* The lowest partition of MySQL that a row is below is the one whose range the
\* row is in, if that range is IsItsRange.
LEMMA RangeOfMysql ==
  ASSUME NEW p \in Descs, NEW parts \in SUBSET Descs, NEW k \in Keys, IsItsRange(p, parts)
  PROVE  Below(k, p) /\ (\A q \in parts : Below(k, q) => NoHigher(p, q))
           <=> p.from <= k /\ (p.maxvalue \/ k < p.to)
  <1>1. k \in Nat /\ p.from \in Nat /\ p.to \in Nat
    BY DescFacts, SchemaAssumption
  <1>2. ASSUME Below(k, p), \A q \in parts : Below(k, q) => NoHigher(p, q)
        PROVE  p.from <= k
    <2>1. CASE \A key \in Keys : p.from <= key
      BY <2>1
    <2>2. CASE \E q \in parts : ~q.maxvalue /\ q.to = p.from
      <3>1. PICK q \in parts : ~q.maxvalue /\ q.to = p.from
        BY <2>2
      <3>2. ~NoHigher(p, q)
        BY <1>1, <3>1 DEF IsItsRange, NonEmpty, NoHigher
      <3>3. ~Below(k, q)
        BY <1>2, <3>2
      <3>4. QED
        BY <1>1, <3>1, <3>3 DEF Below
    <2>3. QED
      BY <2>1, <2>2 DEF IsItsRange
  <1>3. ASSUME p.from <= k, NEW q \in parts, Below(k, q)
        PROVE  NoHigher(p, q)
    <2>1. q \in Descs /\ q.to \in Nat
      BY DescFacts
    <2>2. CASE q.maxvalue
      BY <2>2 DEF NoHigher
    <2>3. CASE ~q.maxvalue
      <3>1. ~(q.to <= p.from)
        BY <1>1, <1>3, <2>1, <2>3 DEF Below
      <3>2. QED
        BY <2>3, <3>1 DEF IsItsRange
    <2>4. QED
      BY <2>2, <2>3
  <1>4. QED
    BY <1>2, <1>3 DEF Below

LEMMA RowsAreRange ==
  ASSUME TypeInv, NEW p \in Descs, NEW where,
         driver = "mysql" => IsItsRange(p, table.parts)
  PROVE  RowsOf(table, p) \cap where = RangeRows(p, where)
  <1>1. table.rows \subseteq Keys /\ table.parts \in SUBSET Descs
    BY DEF TypeInv, TableInv, Tables
  <1>2. CASE driver = "mysql"
    <2>1. ASSUME NEW k \in table.rows
          PROVE  Below(k, p) /\ (\A q \in table.parts : Below(k, q) => NoHigher(p, q))
                   <=> p.from <= k /\ (p.maxvalue \/ k < p.to)
      BY <1>1, <1>2, RangeOfMysql
    <2>2. QED
      BY <1>2, <2>1 DEF RowsOf, RangeRows
  <1>3. CASE driver # "mysql"
    <2>1. ASSUME NEW k \in table.rows
          PROVE  partition_range_predicate(p, k) <=> p.from <= k /\ (p.maxvalue \/ k < p.to)
      <3>1. k \in Nat /\ p.from \in Nat
        BY <1>1, DescFacts, SchemaAssumption
      <3>2. QED
        BY <3>1 DEF partition_range_predicate, Below
    <2>2. QED
      BY <1>3, <2>1 DEF RowsOf, RangeRows
  <1>4. QED
    BY <1>2, <1>3

\* A statement that is executed: no rows go but those of the partition.
LEMMA ExecutedRange ==
  ASSUME TypeInv, Executes, NEW op, NEW sql, NEW gone, op = Next_op, sql = Sql(op),
         Accepts(sql, op), sql # "none", table' = After(sql, op),
         gone = table.rows \ table'.rows
  PROVE  /\ op.cmd \notin RemovesRows => gone = {}
         /\ op.cmd \in RemovesRows /\ (driver = "mysql" => IsItsRange(op.part, table.parts)) =>
              /\ gone \in {{}, RangeRows(op.part, op.where)}
              /\ driver = "sqlite" \/ op.part \in table.parts =>
                   gone = RangeRows(op.part, op.where)
  <1>1. op \in Commands /\ Fits(op) /\ Means(op, sql)
    BY NextFits, SqlOf
  <1>2. Says(op, sql)
    BY <1>1, Sent
  <1>3. table'.rows = table.rows \ Gone(sql, op)
    BY <1>1, <1>2, AfterFacts
  <1>4. CASE op.cmd \notin RemovesRows
    <2>1. sql \notin Erasing
      BY <1>2, <1>4 DEF Says
    <2>2. QED
      BY <1>3, <1>4, <2>1 DEF Gone
  <1>5. CASE /\ op.cmd \in RemovesRows
             /\ driver = "mysql" => IsItsRange(op.part, table.parts)
    <2>1. sql \in Erasing /\ op.part \in Descs
      BY <1>2, <1>5 DEF Says
    <2>2. RowsOf(table, op.part) \cap op.where = RangeRows(op.part, op.where)
      BY <1>5, <2>1, RowsAreRange
    <2>3. RangeRows(op.part, op.where) \subseteq table.rows
      BY DEF RangeRows
    <2>4. CASE driver = "sqlite" \/ op.part \in table.parts
      <3>1. Gone(sql, op) = RangeRows(op.part, op.where)
        BY <2>1, <2>2, <2>4 DEF Gone
      <3>2. gone = RangeRows(op.part, op.where)
        BY <1>3, <2>3, <3>1
      <3>3. QED
        BY <1>5, <3>2
    <2>5. CASE ~(driver = "sqlite" \/ op.part \in table.parts)
      <3>1. Gone(sql, op) = {}
        BY <2>5 DEF Gone
      <3>2. gone = {}
        BY <1>3, <3>1
      <3>3. QED
        BY <1>5, <2>5, <3>2
    <2>6. QED
      BY <2>4, <2>5
  <1>6. QED
    BY <1>4, <1>5

\* What RemovesRange says, in the words of the lemmas.
LEMMA RangeStep ==
  ASSUME NEW gone, gone = table.rows \ table'.rows,
         ~(Executes /\ Next_op.cmd \in RemovesRows) => gone = {},
         Executes /\ Next_op.cmd \in RemovesRows
           /\ (driver = "mysql" => IsItsRange(Next_op.part, table.parts)) =>
           /\ gone \in {{}, RangeRows(Next_op.part, Next_op.where)}
           /\ job'.ran = job.ran + 1 /\ (driver = "sqlite" \/ Next_op.part \in table.parts) =>
                gone = RangeRows(Next_op.part, Next_op.where)
  PROVE  RemovesRange
  BY DEF RemovesRange, Executes, RangeRows

LEMMA NoRowsGo ==
  ASSUME table.rows \ table'.rows = {}, Executes => job'.ran # job.ran + 1
  PROVE  RemovesRange
  BY RangeStep

LEMMA NextRange == TypeInv /\ [Next]_vars => [RemovesRange]_vars
  <1> SUFFICES ASSUME TypeInv, Next PROVE RemovesRange
    OBVIOUS
  <1>1. NoJob.todo = <<>> /\ job \in Jobs /\ job.ran \in Nat
    BY NothingToDo, JobParts DEF TypeInv, JobInv
  <1>2. CASE job = NoJob /\ table' = table
    <2>1. ~Executes
      BY <1>2 DEF Executes, Running
    <2>2. QED
      BY <1>2, <2>1, NoRowsGo
  <1>3. CASE job.returned # "nothing_yet" /\ table' = table
    <2>1. ~Executes
      BY <1>3 DEF Executes, Running
    <2>2. QED
      BY <1>3, <2>1, NoRowsGo
  <1>4. CASE Return
    <2>1. ~Executes /\ table' = table
      BY <1>1, <1>4 DEF Return, Executes
    <2>2. QED
      BY <2>1, NoRowsGo
  <1>5. ASSUME NEW k \in Keys, Insert(k) PROVE RemovesRange
    <2>1. table' = [table EXCEPT !.rows = @ \cup {k}] /\ job' = job
      BY <1>5 DEF Insert
    <2>2. table \in Tables
      BY DEF TypeInv, TableInv
    <2>3. table'.rows = table.rows \cup {k}
      BY <2>1, <2>2 DEF Tables
    <2>4. job'.ran # job.ran + 1
      BY <1>1, <2>1
    <2>5. table.rows \ table'.rows = {}
      BY <2>3
    <2>6. QED
      BY <2>4, <2>5, NoRowsGo
  <1>6. CASE Statement \/ AnswerLost
    <2>1. Executes
      BY <1>6, StatementShape
    <2>2. CASE table' = table /\ job'.ran = job.ran
      <3>1. job'.ran # job.ran + 1
        BY <1>1, <2>2
      <3>2. QED
        BY <2>2, <3>1, NoRowsGo
    <2>3. CASE Sql(Next_op) # "none" /\ Accepts(Sql(Next_op), Next_op)
               /\ table' = After(Sql(Next_op), Next_op)
      <3>1. PICK op, sql, gone : /\ op = Next_op /\ sql = Sql(op)
                                 /\ gone = table.rows \ table'.rows
        OBVIOUS
      <3>2. /\ op.cmd \notin RemovesRows => gone = {}
            /\ op.cmd \in RemovesRows
                 /\ (driver = "mysql" => IsItsRange(op.part, table.parts)) =>
                 /\ gone \in {{}, RangeRows(op.part, op.where)}
                 /\ driver = "sqlite" \/ op.part \in table.parts =>
                      gone = RangeRows(op.part, op.where)
        BY <2>1, <2>3, <3>1, ExecutedRange
      <3>3. QED
        BY <2>1, <3>1, <3>2, RangeStep
    <2>4. QED
      <3>1. CASE Statement
        BY <1>1, <2>2, <2>3, <3>1 DEF Statement, Jobs
      <3>2. CASE AnswerLost
        BY <1>1, <2>2, <2>3, <3>2 DEF AnswerLost, Jobs
      <3>3. QED
        BY <1>6, <3>1, <3>2
  <1>7. CASE \/ \E d \in Definitions : Create(d)
             \/ \E ops \in Alterations : Alter(ops)
             \/ \E p \in Descs, where \in {Keys} \cup {{k} : k \in Keys} : Remove(p, where)
    <2>1. job = NoJob /\ table' = table
      BY <1>7 DEF Create, Alter, Remove
    <2>2. QED
      BY <1>2, <2>1
  <1>8. CASE Retry \/ Done
    <2>1. job.returned # "nothing_yet" /\ table' = table
      BY <1>8 DEF Retry, Done
    <2>2. QED
      BY <1>3, <2>1
  <1>9. QED
    BY <1>4, <1>5, <1>6, <1>7, <1>8 DEF Next

\* In every database, clearing, dropping or removing a partition takes the rows
\* of its range that fulfil the condition and no other, whatever partitions the
\* table has got and lost (partition_range_predicate and the statements of
\* alter_table() and remove()); nothing else takes rows.
THEOREM RangesAreRemoved == Spec => RemovesItsRange
  BY Typed, NextRange, PTL DEF Spec, RemovesItsRange

-----------------------------------------------------------------------------
(* create_table()                                                          *)

\* The table as create_table() makes it: with no child tables, some or all.
AsAsked(t, d) ==
  /\ t.exists = TRUE /\ t.auto = d.auto /\ t.key = primary_key(d)
  /\ t.parted = (d.parted /\ driver # "sqlite")
  /\ t.parts \subseteq RangeOf(d.parts)
  /\ driver = "mysql" => t.parts = RangeOf(d.parts)

\* What holds while create_table() that found no table is executed, and until
\* the program is done with it: its first child tables are there.
Creating ==
  job.kind = "create" /\ job.found = NoTable =>
    /\ table.exists = TRUE => AsAsked(table, job.def)
    /\ job.ran > 0 => table.exists = TRUE
    /\ driver = "postgresql" =>
         \A i \in 1..Len(job.def.parts) : i < job.ran => job.def.parts[i] \in table.parts
    /\ job.returned = "true" => job.ran = Len(job.todo)
    /\ job.returned = "false" /\ Creatable(job.def) => job.lost = TRUE

\* The statements of a create_table() that may be executed.
LEMMA CreateTodo ==
  ASSUME TypeInv, job.kind = "create", validate_partition_config(job.def)
  PROVE  /\ job.def \in Definitions /\ job.todo = generate_sqls(job.def)
         /\ Len(job.todo) \in Nat /\ Len(job.todo) > 0
         /\ job.todo[1] = On("none", "create_table")
         /\ job.def.parted /\ driver = "postgresql" =>
              /\ Len(job.todo) = Len(job.def.parts) + 1
              /\ \A i \in 1..Len(job.def.parts) :
                   job.todo[i + 1] = OnPart(job.def.parts[i], "create_child")
         /\ ~(job.def.parted /\ driver = "postgresql") =>
              \A i \in 2..Len(job.todo) : job.todo[i] = On("none", "create_partition_index")
  <1>1. job.def \in Definitions /\ job.todo = generate_sqls(job.def) /\ driver \in Drivers
    BY DEF TypeInv, JobInv
  <1>2. PICK s : s = generate_sqls(job.def)
    OBVIOUS
  <1>3. QED
    BY <1>1, <1>2, CreateSqls

\* Without a partitioned table there are no partitions to ask for.
LEMMA NoPartsAsked ==
  ASSUME NEW d \in Definitions, validate_partition_config(d), ~d.parted
  PROVE  RangeOf(d.parts) = {} /\ Len(d.parts) = 0
  <1>1. d.parts = <<>>
    BY DEF validate_partition_config
  <1>2. Len(<<>>) = 0
    OBVIOUS
  <1>3. QED
    BY <1>1, <1>2, DefFacts

LEMMA Asked ==
  ASSUME TypeInv, Creating
  PROVE  CreatedAsAsked
  <1> DEFINE d == job.def
             key == d.key \cup IF d.auto THEN {"id"} ELSE {}
  <1> SUFFICES ASSUME job.kind = "create", job.found = NoTable
               PROVE  /\ job.returned = "false" /\ Creatable(d) => job.lost
                      /\ job.returned = "true" =>
                           /\ table.exists /\ table.auto = d.auto
                           /\ (driver = "sqlite" /\ d.auto) \/ table.key = key
                           /\ driver # "sqlite" => table.parts = RangeOf(d.parts)
    BY DEF CreatedAsAsked
  <1>1. job.returned = "false" /\ Creatable(d) => job.lost
    BY DEF Creating
  <1>2. ASSUME job.returned = "true"
        PROVE  /\ table.exists /\ table.auto = d.auto
               /\ (driver = "sqlite" /\ d.auto) \/ table.key = key
               /\ driver # "sqlite" => table.parts = RangeOf(d.parts)
    <2>1. validate_partition_config(d)
      BY <1>2 DEF TypeInv, JobInv
    <2>2. /\ d \in Definitions /\ Len(job.todo) > 0 /\ Len(job.todo) \in Nat
          /\ d.parted /\ driver = "postgresql" => Len(job.todo) = Len(d.parts) + 1
      BY <2>1, CreateTodo
    <2>3. job.ran = Len(job.todo) /\ table.exists = TRUE
      BY <1>2, <2>2 DEF Creating
    <2>4. AsAsked(table, d)
      BY <2>3 DEF Creating
    <2>5. d.auto \in BOOLEAN /\ d.key \in {{"id"}, {"id", "bucket"}}
      BY <2>2, DefFacts
    <2>6. (driver = "sqlite" /\ d.auto) \/ primary_key(d) = key
      BY <2>5 DEF primary_key
    <2>7. ASSUME driver # "sqlite" PROVE table.parts = RangeOf(d.parts)
      <3>1. driver = "mysql" \/ driver = "postgresql"
        BY <2>7, SomeDriver DEF TypeInv
      <3>2. CASE driver = "mysql"
        BY <2>4, <3>2 DEF AsAsked
      <3>3. CASE driver = "postgresql" /\ d.parted
        <4>1. /\ DOMAIN d.parts = 1..Len(d.parts) /\ Len(d.parts) \in Nat
          BY <2>2, DefFacts
        <4>2. \A i \in 1..Len(d.parts) : d.parts[i] \in table.parts
          <5>1. \A i \in 1..Len(d.parts) : i < job.ran
            BY <2>2, <2>3, <3>3, <4>1
          <5>2. QED
            BY <3>3, <5>1 DEF Creating
        <4>3. RangeOf(d.parts) \subseteq table.parts
          BY <4>1, <4>2 DEF RangeOf
        <4>4. QED
          BY <2>4, <4>3 DEF AsAsked
      <3>4. CASE driver = "postgresql" /\ ~d.parted
        BY <2>1, <2>2, <2>4, <3>4, NoPartsAsked DEF AsAsked
      <3>5. QED
        BY <3>1, <3>2, <3>3, <3>4
    <2>8. QED
      BY <2>3, <2>4, <2>6, <2>7 DEF AsAsked
  <1>3. QED
    BY <1>1, <1>2

\* A statement of create_table() that is executed makes what was asked for.
LEMMA CreateAfter ==
  ASSUME TypeInv, Creating, Executes, job.kind = "create", job.found = NoTable,
         NEW op, op = Next_op, Accepts(op.cmd, op), NEW t, t = After(op.cmd, op)
  PROVE  /\ AsAsked(t, job.def) /\ table.parts \subseteq t.parts
         /\ op.cmd = "create_child" => op.part \in t.parts
  <1> DEFINE d == job.def
  <1>1. validate_partition_config(d) /\ job.ran \in Nat /\ job.ran < Len(job.todo)
        /\ job.todo \in Seq(Commands)
    BY JobParts DEF TypeInv, JobInv, Executes, Running
  <1>2. /\ d \in Definitions /\ Len(job.todo) \in Nat
        /\ job.todo[1] = On("none", "create_table")
        /\ d.parted /\ driver = "postgresql" =>
             /\ Len(job.todo) = Len(d.parts) + 1
             /\ \A i \in 1..Len(d.parts) : job.todo[i + 1] = OnPart(d.parts[i], "create_child")
        /\ ~(d.parted /\ driver = "postgresql") =>
             \A i \in 2..Len(job.todo) : job.todo[i] = On("none", "create_partition_index")
    BY <1>1, CreateTodo
  <1>3. /\ table \in Tables /\ (table.exists = FALSE => table = NoTable) /\ driver \in Drivers
    BY DEF TypeInv, TableInv
  <1>4. table.exists = TRUE => AsAsked(table, d)
    BY DEF Creating
  <1>5. CASE op.cmd = "create_table"
    <2>1. CASE table.exists = TRUE
      <3>1. t = table
        BY <1>5, <2>1 DEF After, Adding
      <3>2. QED
        BY <1>4, <1>5, <2>1, <3>1
    <2>2. CASE table.exists = FALSE
      <3>1. t = Created(d) /\ table.parts = {}
        BY <1>3, <1>5, <2>2, EmptyTable DEF After, Adding
      <3>2. /\ t.exists = TRUE /\ t.auto = d.auto /\ t.key = primary_key(d)
            /\ t.parted = (d.parted /\ driver # "sqlite")
            /\ t.parts = IF d.parted /\ driver = "mysql" THEN RangeOf(d.parts) ELSE {}
        BY <1>1, <1>2, <1>3, <3>1, CreatedFacts
      <3>3. ~d.parted => RangeOf(d.parts) = {}
        BY <1>1, <1>2, NoPartsAsked
      <3>4. AsAsked(t, d)
        BY <3>2, <3>3 DEF AsAsked
      <3>5. QED
        BY <1>5, <3>1, <3>4
    <2>3. QED
      BY <1>3, <2>1, <2>2 DEF Tables
  <1>6. CASE op.cmd # "create_table"
    <2>1. table.exists = TRUE
      BY <1>3, <1>6 DEF Accepts, Tables
    <2>2. job.ran # 0
      <3>1. job.ran = 0 => op = On("none", "create_table")
        BY <1>2 DEF Next_op
      <3>2. QED
        BY <1>6, <3>1, CommandFields
    <2>3. CASE d.parted /\ driver = "postgresql"
      <3>1. job.ran \in 1..Len(d.parts) /\ Len(d.parts) \in Nat
        BY <1>1, <1>2, <2>2, <2>3, DefFacts
      <3>2. op = OnPart(d.parts[job.ran], "create_child")
        BY <1>2, <2>3, <3>1 DEF Next_op
      <3>3. op.cmd = "create_child" /\ op.part \in RangeOf(d.parts)
        <4>1. DOMAIN d.parts = 1..Len(d.parts)
          BY <1>2, DefFacts
        <4>2. d.parts[job.ran] \in RangeOf(d.parts)
          BY <3>1, <4>1 DEF RangeOf
        <4>3. QED
          BY <3>2, <4>2, CommandFields
      <3>4. t = [table EXCEPT !.parts = @ \cup {op.part}]
        BY <3>3 DEF After, Adding
      <3>5. t.parts = table.parts \cup {op.part} /\ t.exists = table.exists
            /\ t.auto = table.auto /\ t.key = table.key /\ t.parted = table.parted
        BY <1>3, <3>4 DEF Tables
      <3>6. AsAsked(t, d)
        BY <1>4, <2>1, <2>3, <3>3, <3>5 DEF AsAsked
      <3>7. QED
        BY <3>5, <3>6
    <2>4. CASE ~(d.parted /\ driver = "postgresql")
      <3>1. job.ran + 1 \in 2..Len(job.todo)
        BY <1>1, <1>2, <2>2
      <3>2. op.cmd = "create_partition_index"
        BY <1>2, <2>4, <3>1, CommandFields DEF Next_op
      <3>3. Gone(op.cmd, op) = {}
        BY <3>2 DEF Gone, Erasing
      <3>4. t = [table EXCEPT !.rows = @ \ Gone(op.cmd, op)]
        BY <3>2 DEF After, Adding
      <3>5. /\ t.exists = table.exists /\ t.auto = table.auto /\ t.key = table.key
            /\ t.parted = table.parted /\ t.parts = table.parts
        BY <1>3, <3>4 DEF Tables
      <3>6. AsAsked(t, d)
        BY <1>4, <2>1, <3>5 DEF AsAsked
      <3>7. QED
        BY <3>2, <3>5, <3>6
    <2>5. QED
      BY <2>3, <2>4
  <1>7. QED
    BY <1>5, <1>6

\* The server executes every statement for a definition that can be created.
LEMMA CreateAccepted ==
  ASSUME TypeInv, Creating, Executes, job.kind = "create", job.found = NoTable,
         Creatable(job.def), NEW op, op = Next_op
  PROVE  Accepts(op.cmd, op)
  <1> DEFINE d == job.def
  <1>1. validate_partition_config(d) /\ job.ran \in Nat /\ job.ran < Len(job.todo)
    BY JobParts DEF TypeInv, JobInv, Executes, Running
  <1>2. /\ d \in Definitions /\ Len(job.todo) \in Nat
        /\ job.todo[1] = On("none", "create_table")
        /\ d.parted /\ driver = "postgresql" =>
             /\ Len(job.todo) = Len(d.parts) + 1
             /\ \A i \in 1..Len(d.parts) : job.todo[i + 1] = OnPart(d.parts[i], "create_child")
        /\ ~(d.parted /\ driver = "postgresql") =>
             \A i \in 2..Len(job.todo) : job.todo[i] = On("none", "create_partition_index")
    BY <1>1, CreateTodo
  <1>3. CASE job.ran = 0
    <2>1. op.cmd = "create_table"
      <3>1. op = On("none", "create_table")
        BY <1>2, <1>3 DEF Next_op
      <3>2. QED
        BY <3>1, CommandFields
    <2>2. CanCreate(d)
      BY DEF Creatable
    <2>3. QED
      BY <2>1, <2>2 DEF Accepts
  <1>4. CASE job.ran # 0 /\ ~(d.parted /\ driver = "postgresql")
    <2>1. job.ran + 1 \in 2..Len(job.todo)
      BY <1>1, <1>2, <1>4
    <2>2. op.cmd = "create_partition_index"
      <3>1. op = On("none", "create_partition_index")
        BY <1>2, <1>4, <2>1 DEF Next_op
      <3>2. QED
        BY <3>1, CommandFields
    <2>3. table.exists = TRUE
      BY <1>1, <1>4 DEF Creating
    <2>4. QED
      BY <2>2, <2>3 DEF Accepts, Constraints
  <1>5. CASE job.ran # 0 /\ d.parted /\ driver = "postgresql"
    <2>1. job.ran \in 1..Len(d.parts) /\ DOMAIN d.parts = 1..Len(d.parts)
      BY <1>1, <1>2, <1>5, DefFacts
    <2>2. op = OnPart(d.parts[job.ran], "create_child")
      BY <1>2, <1>5, <2>1 DEF Next_op
    <2>3. op.cmd = "create_child" /\ op.part = d.parts[job.ran]
      BY <2>2, CommandFields
    <2>4. table.exists = TRUE /\ AsAsked(table, d)
      BY <1>1, <1>5 DEF Creating
    <2>5. table.parted
      BY <1>5, <2>4 DEF AsAsked
    <2>6. NonEmpty(op.part)
      BY <1>5, <2>1, <2>3 DEF Creatable, RangeOf
    <2>7. ASSUME op.part \notin table.parts, NEW q \in table.parts
          PROVE  ~Overlap(op.part, q)
      <3>1. PICK i \in DOMAIN d.parts : q = d.parts[i]
        BY <2>4, <2>7 DEF AsAsked, RangeOf
      <3>2. i # job.ran
        BY <2>3, <2>7, <3>1
      <3>3. QED
        BY <2>1, <2>3, <3>1, <3>2 DEF Creatable
    <2>8. \/ op.part \in table.parts
          \/ /\ table.parted /\ NonEmpty(op.part)
             /\ \A q \in table.parts : ~Overlap(op.part, q)
      BY <2>5, <2>6, <2>7
    <2>9. QED
      BY <2>3, <2>4, <2>8 DEF Accepts, Constraints
  <1>6. QED
    BY <1>3, <1>4, <1>5

\* A step of the job, with what becomes of the table.
LEMMA CreatingStep ==
  ASSUME driver' = driver, NEW d, job'.def = d, NEW t, table' = t,
         t.exists = TRUE => AsAsked(t, d),
         job'.ran > 0 => t.exists = TRUE,
         driver = "postgresql" =>
           \A i \in 1..Len(d.parts) : i < job'.ran => d.parts[i] \in t.parts,
         job'.returned = "true" => job'.ran = Len(job'.todo),
         job'.returned = "false" /\ Creatable(d) => job'.lost = TRUE
  PROVE  Creating'
  <1>1. AsAsked(table, job.def)' <=> AsAsked(t, d)
    BY DEF AsAsked, primary_key
  <1>2. Creatable(job.def)' <=> Creatable(d)
    <2>1. validate_partition_config(job.def)' <=> validate_partition_config(d)
      BY Carried
    <2>2. CanCreate(job.def)' <=> CanCreate(d)
      BY DEF CanCreate, primary_key
    <2>3. QED
      BY <2>1, <2>2 DEF Creatable
  <1>3. QED
    BY <1>1, <1>2 DEF Creating

LEMMA InitCreating == Init => Creating
  BY NothingToDo DEF Init, Creating

LEMMA NextCreating == TypeInv /\ Creating /\ [Next]_vars => Creating'
  <1> SUFFICES ASSUME TypeInv, Creating, [Next]_vars PROVE Creating'
    OBVIOUS
  <1>1. /\ job \in Jobs /\ job.ran \in Nat /\ Len(job.todo) \in Nat
        /\ table \in Tables /\ (table.exists = FALSE => table = NoTable)
        /\ job.returned \in {"nothing_yet", "true", "false"} /\ driver \in Drivers
    BY JobParts DEF TypeInv, JobInv, TableInv
  <1> DEFINE d == job.def
  <1>2. ASSUME NEW asked \in Definitions, Create(asked) PROVE Creating'
    <2>1. driver' = driver /\ table' = table
      BY <1>2 DEF Create
    <2>2. <<>> \in Seq(Commands) /\ generate_sqls(asked) \in Seq(Commands)
      <3>1. PICK s : s = generate_sqls(asked)
        OBVIOUS
      <3>2. s \in Seq(Commands)
        BY <1>1, <3>1, CreateSqls
      <3>3. QED
        BY <3>1, <3>2
    <2>3. CASE validate_partition_config(asked)
      <3>1. job' = Job("create", asked, generate_sqls(asked))
        BY <1>2, <2>3 DEF Create
      <3>2. IsNew(Job("create", asked, generate_sqls(asked)), "create", asked,
                  generate_sqls(asked))
        BY <2>2, NewJob
      <3>3. /\ job'.def = asked /\ job'.ran = 0 /\ job'.returned = "nothing_yet"
            /\ job'.found = WithoutRows(table)
        BY <3>1, <3>2 DEF IsNew
      <3>4. CASE table.exists = FALSE
        <4>1. /\ ~(job'.ran > 0)
              /\ \A i \in 1..Len(asked.parts) : ~(i < job'.ran)
          BY <3>3, DefFacts
        <4>2. QED
          BY <2>1, <3>3, <3>4, <4>1, CreatingStep
      <3>5. CASE table.exists = TRUE
        <4>1. job'.found # NoTable
          BY <1>1, <3>3, <3>5, EmptyTable DEF WithoutRows, Tables
        <4>2. QED
          BY <4>1 DEF Creating
      <3>6. QED
        BY <1>1, <3>4, <3>5 DEF Tables
    <2>4. CASE ~validate_partition_config(asked)
      <3>1. PICK fresh : fresh = Job("create", asked, <<>>)
        OBVIOUS
      <3>2. fresh \in Jobs /\ fresh.def = asked /\ fresh.ran = 0
            /\ fresh.found = WithoutRows(table)
        <4>1. IsNew(Job("create", asked, <<>>), "create", asked, <<>>)
          BY <2>2, NewJob
        <4>2. QED
          BY <3>1, <4>1 DEF IsNew
      <3>3. job' = [fresh EXCEPT !.returned = "false"]
        BY <1>2, <2>4, <3>1 DEF Create
      <3>4. /\ job'.def = asked /\ job'.ran = 0 /\ job'.returned = "false"
            /\ job'.found = WithoutRows(table)
        BY <3>2, <3>3 DEF Jobs
      <3>5. ~Creatable(asked)
        BY <2>4 DEF Creatable
      <3>6. CASE table.exists = FALSE
        <4>1. /\ ~(job'.ran > 0)
              /\ \A i \in 1..Len(asked.parts) : ~(i < job'.ran)
          BY <3>4, DefFacts
        <4>2. QED
          BY <2>1, <3>4, <3>5, <3>6, <4>1, CreatingStep
      <3>7. CASE table.exists = TRUE
        <4>1. job'.found # NoTable
          BY <1>1, <3>4, <3>7, EmptyTable DEF WithoutRows, Tables
        <4>2. QED
          BY <4>1 DEF Creating
      <3>8. QED
        BY <1>1, <3>6, <3>7 DEF Tables
    <2>5. QED
      BY <2>3, <2>4
  <1>3. ASSUME NEW ops \in Alterations, Alter(ops) PROVE Creating'
    <2>1. job' = Job("alter", NoDefinition, ops)
      BY <1>3 DEF Alter
    <2>2. job'.kind = "alter"
      BY <2>1 DEF Job
    <2>3. QED
      BY <2>2 DEF Creating
  <1>4. ASSUME NEW p \in Descs, NEW where \in {Keys} \cup {{k} : k \in Keys}, Remove(p, where)
        PROVE  Creating'
    <2>1. job'.kind = "remove"
      BY <1>4 DEF Remove, Job
    <2>2. QED
      BY <2>1 DEF Creating
  <1>5. CASE Done
    <2>1. job'.kind = "none"
      BY <1>5, NothingToDo DEF Done
    <2>2. QED
      BY <2>1 DEF Creating
  <1>6. CASE job.kind = "create" /\ job.found = NoTable
    <2>1. /\ table.exists = TRUE => AsAsked(table, d)
          /\ job.ran > 0 => table.exists = TRUE
          /\ driver = "postgresql" =>
               \A i \in 1..Len(d.parts) : i < job.ran => d.parts[i] \in table.parts
          /\ job.returned = "true" => job.ran = Len(job.todo)
          /\ job.returned = "false" /\ Creatable(d) => job.lost = TRUE
      BY <1>6 DEF Creating
    <2>2. d \in Definitions
      BY <1>6 DEF TypeInv, JobInv
    <2>3. Len(d.parts) \in Nat
      BY <2>2, DefFacts
    <2>4. CASE Return
      <3>1. /\ job' = [job EXCEPT !.returned = "true"] /\ driver' = driver /\ table' = table
            /\ job.ran = Len(job.todo)
        BY <2>4 DEF Return
      <3>2. /\ job'.def = d /\ job'.ran = job.ran /\ job'.todo = job.todo
            /\ job'.returned = "true"
        BY <1>1, <3>1 DEF Jobs
      <3>3. QED
        BY <2>1, <3>1, <3>2, CreatingStep
    <2>5. CASE Retry
      <3>1. driver' = driver /\ table' = table
        BY <2>5 DEF Retry
      <3>2. CASE job' = job
        BY <2>1, <3>1, <3>2, CreatingStep
      <3>3. CASE job' = [job EXCEPT !.ran = 0, !.returned = "nothing_yet", !.lost = FALSE]
        <4>1. job'.def = d /\ job'.ran = 0 /\ job'.returned = "nothing_yet"
          BY <1>1, <3>3 DEF Jobs
        <4>2. /\ ~(job'.ran > 0)
              /\ \A i \in 1..Len(d.parts) : ~(i < job'.ran)
          BY <2>3, <4>1
        <4>3. QED
          BY <2>1, <3>1, <4>1, <4>2, CreatingStep
      <3>4. QED
        BY <2>5, <3>2, <3>3 DEF Retry
    <2>6. ASSUME NEW k \in Keys, Insert(k) PROVE Creating'
      <3>1. /\ table' = [table EXCEPT !.rows = @ \cup {k}]
            /\ driver' = driver /\ job' = job
        BY <2>6 DEF Insert
      <3>2. PICK t : t = table'
        OBVIOUS
      <3>3. /\ t.exists = table.exists /\ t.auto = table.auto /\ t.key = table.key
            /\ t.parted = table.parted /\ t.parts = table.parts
        BY <1>1, <3>1, <3>2 DEF Tables
      <3>4. t.exists = TRUE => AsAsked(t, d)
        BY <2>1, <3>3 DEF AsAsked
      <3>5. QED
        BY <2>1, <3>1, <3>2, <3>3, <3>4, CreatingStep
    <2>7. CASE UNCHANGED vars
      <3>1. driver' = driver /\ table' = table /\ job' = job
        BY <2>7 DEF vars
      <3>2. QED
        BY <2>1, <3>1, CreatingStep
    <2>8. CASE Statement \/ AnswerLost
      <3>1. PICK op : op = Next_op
        OBVIOUS
      <3>2. /\ Executes /\ driver' = driver /\ registered' = registered
        BY <2>8, StatementShape
      <3>3. op \in Commands /\ Fits(op) /\ Means(op, Sql(op))
        BY <3>1, <3>2, NextFits, SqlOf
      <3>4. op.cmd \in CreateCommands /\ Sql(op) = op.cmd /\ op.cmd # "none"
        BY <1>6, <3>3 DEF Fits, Means, CreateCommands
      <3>5. /\ job'.def = d /\ job'.todo = job.todo
        BY <2>8, <3>2, StatementShape, ExecutedTypes
      <3>6. job.ran < Len(job.todo) /\ job.returned = "nothing_yet"
            /\ validate_partition_config(d)
        BY <1>6, <3>2 DEF Executes, Running, TypeInv, JobInv
      <3>7. PICK t : t = table'
        OBVIOUS
      <3>8. CASE Accepts(op.cmd, op) /\ t = After(op.cmd, op)
        <4>1. /\ AsAsked(t, d) /\ table.parts \subseteq t.parts
              /\ op.cmd = "create_child" => op.part \in t.parts
          BY <1>6, <3>1, <3>2, <3>8, CreateAfter
        <4>2. \/ job'.ran = job.ran + 1 /\ job'.returned = "nothing_yet"
              \/ job'.ran = job.ran /\ job'.returned = "false" /\ job'.lost = TRUE
          <5>1. CASE Statement
            <6>1. job' = [job EXCEPT !.ran = @ + 1]
              BY <3>1, <3>4, <3>8, <5>1 DEF Statement
            <6>2. QED
              BY <1>1, <3>6, <6>1 DEF Jobs
          <5>2. CASE AnswerLost
            <6>1. job' = [job EXCEPT !.returned = "false", !.lost = TRUE]
              BY <5>2 DEF AnswerLost
            <6>2. QED
              BY <1>1, <6>1 DEF Jobs
          <5>3. QED
            BY <2>8, <5>1, <5>2
        <4>3. ASSUME driver = "postgresql", NEW i \in 1..Len(d.parts), i < job'.ran
              PROVE  d.parts[i] \in t.parts
          <5>1. CASE i < job.ran
            BY <2>1, <4>1, <4>3, <5>1
          <5>2. CASE ~(i < job.ran)
            <6>1. i = job.ran /\ i \in Nat
              BY <1>1, <2>3, <4>2, <4>3, <5>2
            <6>2. d.parted
              <7>1. ~d.parted => Len(d.parts) = 0
                BY <2>2, <3>6, NoPartsAsked
              <7>2. QED
                BY <4>3, <7>1
            <6>3. op = OnPart(d.parts[i], "create_child")
              <7>1. \A n \in 1..Len(d.parts) :
                      job.todo[n + 1] = OnPart(d.parts[n], "create_child")
                BY <1>6, <3>6, <4>3, <6>2, CreateTodo
              <7>2. job.todo[i + 1] = OnPart(d.parts[i], "create_child")
                BY <4>3, <7>1
              <7>3. QED
                BY <3>1, <6>1, <7>2 DEF Next_op
            <6>4. op.cmd = "create_child" /\ op.part = d.parts[i]
              BY <6>3, CommandFields
            <6>5. QED
              BY <4>1, <6>4
          <5>3. QED
            BY <5>1, <5>2
        <4>4. t.exists = TRUE
          BY <4>1 DEF AsAsked
        <4>5. QED
          BY <3>2, <3>5, <3>7, <4>1, <4>2, <4>3, <4>4, CreatingStep
      <3>9. CASE t = table /\ job' = [job EXCEPT !.returned = "false", !.lost = TRUE]
        <4>1. job'.ran = job.ran /\ job'.returned = "false" /\ job'.lost = TRUE
          BY <1>1, <3>9 DEF Jobs
        <4>2. QED
          BY <2>1, <3>2, <3>5, <3>7, <3>9, <4>1, CreatingStep
      <3>10. CASE /\ t = table /\ job' = [job EXCEPT !.returned = "false"]
                  /\ ~Accepts(op.cmd, op)
        <4>1. job'.ran = job.ran /\ job'.returned = "false"
          BY <1>1, <3>10 DEF Jobs
        <4>2. ~Creatable(d)
          BY <1>6, <3>1, <3>2, <3>10, CreateAccepted
        <4>3. QED
          BY <2>1, <3>2, <3>5, <3>7, <3>10, <4>1, <4>2, CreatingStep
      <3>11. QED
        <4>1. CASE Statement
          BY <3>1, <3>4, <3>7, <3>8, <3>10, <4>1 DEF Statement
        <4>2. CASE AnswerLost
          BY <3>1, <3>4, <3>7, <3>8, <3>9, <4>2 DEF AnswerLost
        <4>3. QED
          BY <2>8, <4>1, <4>2
    <2>9. QED
      BY <1>2, <1>3, <1>4, <1>5, <2>4, <2>5, <2>6, <2>7, <2>8 DEF Next
  <1>7. CASE ~(job.kind = "create" /\ job.found = NoTable)
    <2>1. CASE Statement \/ AnswerLost
      BY <1>7, <2>1, StatementShape, ExecutedTypes DEF Creating
    <2>2. CASE Return
      <3>1. job'.kind = job.kind /\ job'.found = job.found
        BY <1>1, <2>2 DEF Return, Jobs
      <3>2. QED
        BY <1>7, <3>1 DEF Creating
    <2>3. CASE Retry
      <3>1. job'.kind = job.kind /\ job'.found = job.found
        <4>1. CASE job' = job
          BY <4>1
        <4>2. CASE job' = [job EXCEPT !.ran = 0, !.returned = "nothing_yet", !.lost = FALSE]
          BY <1>1, <4>2 DEF Jobs
        <4>3. QED
          BY <2>3, <4>1, <4>2 DEF Retry
      <3>2. QED
        BY <1>7, <3>1 DEF Creating
    <2>4. CASE (\E k \in Keys : Insert(k)) \/ UNCHANGED vars
      <3>1. job' = job
        BY <2>4 DEF Insert, vars
      <3>2. QED
        BY <1>7, <3>1 DEF Creating
    <2>5. QED
      BY <1>2, <1>3, <1>4, <1>5, <2>1, <2>2, <2>3, <2>4 DEF Next
  <1>8. QED
    BY <1>6, <1>7

\* create_table() makes the table that was asked for, also when it is executed
\* again because an answer was lost half way, and fails for no other reason
\* (execute() of create_table(), CREATE TABLE IF NOT EXISTS), but for what
\* CreatedAsAsked names of sqlite.
THEOREM TableIsAsAsked == Spec => []CreatedAsAsked
  <1>1. Spec => [](TypeInv /\ Creating)
    BY InitTypes, NextTypes, InitCreating, NextCreating, PTL DEF Spec
  <1>2. TypeInv /\ Creating => CreatedAsAsked
    BY Asked
  <1>3. QED
    BY <1>1, <1>2, PTL

-----------------------------------------------------------------------------
(* alter_table() that takes back what it added                             *)

Added == job.todo[1]
Dropped == job.todo[2]

\* The alter_table() that AddThenDropRestores is about.
TakesBackAll ==
  /\ job.kind = "alter" /\ Len(job.todo) = 2 /\ job.found.exists
  /\ Added.name \notin job.found.things /\ TakesBack(Added)
  /\ Dropped.cmd \in {"drop_column", "drop_index", "drop_constraint", "drop_partition"}
  /\ Dropped.name = Added.name

\* The table that was found, its rows aside, with more things or partitions.
Holds(t, things, parts) ==
  /\ t.exists = job.found.exists /\ t.auto = job.found.auto /\ t.key = job.found.key
  /\ t.parted = job.found.parted /\ t.things = things /\ t.parts = parts

MoreThings == IF Added.cmd = "add_partition" THEN job.found.things
                                             ELSE job.found.things \cup {Added.name}
MoreParts == IF Added.cmd = "add_partition" THEN job.found.parts \cup {Added.part}
                                            ELSE job.found.parts

\* What an alter_table() found was a table; one that takes back what it adds has
\* added it after its first statement, and nothing after its second.
Restoring ==
  /\ job.kind = "alter" => TableInv(job.found) /\ job.found.rows = {}
  /\ TakesBackAll =>
       /\ job.returned = "nothing_yet" =>
            IF job.ran = 1 THEN Holds(table, MoreThings, MoreParts)
                           ELSE Holds(table, job.found.things, job.found.parts)
       /\ job.returned = "true" => Holds(table, job.found.things, job.found.parts)
       /\ job.returned = "false" => job.lost = TRUE

\* The four things and the statements that add and drop them.
LEMMA ThingPairs ==
  ASSUME NEW S \in ThingOps, NEW add \in S, NEW drop \in S,
         add.cmd \in Adding, drop.name = add.name,
         drop.cmd \in {"drop_column", "drop_index", "drop_constraint", "drop_partition"}
  PROVE  \/ add.cmd = "add_column" /\ drop.cmd = "drop_column"
         \/ add.cmd = "add_index" /\ drop.cmd = "drop_index" /\ add.name = "i"
         \/ add.cmd = "add_unique" /\ drop.cmd = "drop_constraint" /\ add.name = "u"
         \/ add.cmd = "add_check" /\ drop.cmd = "drop_constraint"
  <1> USE CommandFields
  <1>1. CASE S = {On("c", "add_column"), On("c", "drop_column"), On("c", "modify_column"),
                  On("d", "rename_column"), On("d", "drop_column")}
    <2>1. add.cmd \in {"add_column", "drop_column", "modify_column", "rename_column"}
      BY <1>1
    <2>2. drop.cmd \in {"add_column", "drop_column", "modify_column", "rename_column"}
      BY <1>1
    <2>3. QED
      BY <2>1, <2>2 DEF Adding
  <1>2. CASE S = {On("i", "add_index"), On("i", "drop_index")}
    BY <1>2 DEF Adding
  <1>3. CASE S = {On("u", "add_unique"), On("u", "drop_constraint")}
    BY <1>3 DEF Adding
  <1>4. CASE S = {On("k", "add_check"), On("k", "drop_constraint")}
    BY <1>4 DEF Adding
  <1>5. QED
    BY <1>1, <1>2, <1>3, <1>4 DEF ThingOps

LEMMA Pairs ==
  ASSUME TypeInv, TakesBackAll
  PROVE  \/ /\ Added.cmd \in Adding /\ Added.cmd # "add_partition"
            /\ Added.name \in ThingNames
            /\ \/ Added.cmd = "add_column" /\ Dropped.cmd = "drop_column"
               \/ Added.cmd = "add_index" /\ Dropped.cmd = "drop_index" /\ Added.name = "i"
               \/ /\ Added.cmd = "add_unique" /\ Dropped.cmd = "drop_constraint"
                  /\ Added.name = "u" /\ driver # "sqlite"
               \/ /\ Added.cmd = "add_check" /\ Dropped.cmd = "drop_constraint"
                  /\ driver = "postgresql"
         \/ /\ Added.cmd = "add_partition" /\ Dropped.cmd = "drop_partition"
            /\ Added.part \in Descs /\ Dropped.part = Added.part
  <1>1. job.todo \in Alterations /\ Len(job.todo) = 2
    BY DEF TypeInv, JobInv, TakesBackAll
  <1>2. PICK S \in ThingOps \cup PartOps : \A i \in 1..Len(job.todo) : job.todo[i] \in S
    BY <1>1, Altering
  <1>3. Added \in S /\ Dropped \in S
    BY <1>1, <1>2 DEF Added, Dropped
  <1>4. TakesBack(Added) /\ Dropped.name = Added.name
        /\ Dropped.cmd \in {"drop_column", "drop_index", "drop_constraint", "drop_partition"}
    BY DEF TakesBackAll
  <1>5. /\ Added.cmd \in Adding \cup {"add_partition"}
        /\ Added.cmd = "add_unique" => driver # "sqlite"
        /\ Added.cmd = "add_check" => driver = "postgresql"
    BY <1>4 DEF TakesBack, Adding
  <1>6. CASE S \in ThingOps
    <2>1. Added.cmd \in ThingCommands /\ Added.name \in ThingNames
      BY <1>3, <1>6, OpOfThing
    <2>2. Added.cmd # "add_partition" /\ Added.cmd \in Adding
      BY <1>5, <2>1 DEF ThingCommands
    <2>3. QED
      BY <1>3, <1>4, <1>5, <1>6, <2>1, <2>2, ThingPairs
  <1>7. CASE S \in PartOps
    <2>1. Added.cmd \in PartCommands /\ Dropped.cmd \in PartCommands
      BY <1>3, <1>7, OpOfPart
    <2>2. Added.cmd = "add_partition" /\ Dropped.cmd = "drop_partition"
      BY <1>4, <1>5, <2>1 DEF PartCommands, Adding
    <2>3. PICK p \in Descs : \A other \in S : other.part = p
      BY <1>3, <1>7, OpOfPart
    <2>4. QED
      BY <1>3, <2>2, <2>3
  <1>8. QED
    BY <1>2, <1>6, <1>7

LEMMA ThingSql ==
  ASSUME job.kind = "alter", NEW op, op.cmd \in ThingCommands
  PROVE  Sql(op) = IF op.cmd = "add_index" /\ driver = "postgresql"
                     THEN "create_index_if_not_exists" ELSE ClauseOf(op.cmd)
  <1>1. op.cmd \notin DOMAIN PartitionSql
    BY DEF PartitionSql, ThingCommands
  <1>2. QED
    BY <1>1 DEF Sql, build_operation_sql

LEMMA AddsThing ==
  ASSUME table \in Tables, table.exists, NEW op, NEW sql,
         sql \in Adding \cup {"create_index_if_not_exists"},
         sql \in Constraints => driver # "sqlite",
         op.name \notin table.things, NEW t, t = After(sql, op)
  PROVE  /\ Accepts(sql, op) /\ sql # "none"
         /\ t.exists = table.exists /\ t.auto = table.auto /\ t.key = table.key
         /\ t.parted = table.parted /\ t.parts = table.parts
         /\ t.things = table.things \cup {op.name}
  <1>1. sql \in {"add_column", "add_index", "add_unique", "add_check",
                 "create_index_if_not_exists"}
    BY DEF Adding
  <1>2. Accepts(sql, op)
    BY <1>1 DEF Accepts, Constraints
  <1>3. t = [table EXCEPT !.things = @ \cup {op.name}]
    BY <1>1 DEF After, Adding
  <1>4. QED
    BY <1>1, <1>2, <1>3 DEF Tables

LEMMA DropsThing ==
  ASSUME table \in Tables, table.exists, NEW op, NEW sql,
         sql \in {"drop_column", "drop_index", "drop_constraint"},
         sql = "drop_constraint" => driver # "sqlite",
         sql = "drop_index" => op.name \in Indexes,
         op.name \in table.things, NEW t, t = After(sql, op)
  PROVE  /\ Accepts(sql, op) /\ sql # "none"
         /\ t.exists = table.exists /\ t.auto = table.auto /\ t.key = table.key
         /\ t.parted = table.parted /\ t.parts = table.parts
         /\ t.things = table.things \ {op.name}
  <1>1. Accepts(sql, op)
    BY DEF Accepts, Constraints
  <1>2. t = [table EXCEPT !.things = @ \ {op.name}]
    BY DEF After, Adding
  <1>3. QED
    BY <1>1, <1>2 DEF Tables

\* A partition that fits is not there yet.
LEMMA FitsOnce ==
  ASSUME NEW p \in Descs, NEW q \in Descs
  PROVE  /\ Overlap(q, p) => Overlap(p, q)
         /\ NonEmpty(p) => Overlap(p, p)
         /\ ~Grows(p, p)
  <1>1. Overlap(q, p) => Overlap(p, q)
    BY DEF Overlap
  <1>2. p.from \in Nat /\ p.to \in Nat
    BY DescFacts
  <1>3. ASSUME NonEmpty(p) PROVE Overlap(p, p)
    <2>1. partition_range_predicate(p, p.from)
      BY <1>2, <1>3 DEF partition_range_predicate, NonEmpty, Below
    <2>2. QED
      BY <2>1 DEF Overlap
  <1>4. ~Grows(p, p)
    BY <1>2 DEF Grows
  <1>5. QED
    BY <1>1, <1>3, <1>4

\* What TakesBack says of a partition.
LEMMA PartTakenBack ==
  ASSUME TypeInv, TakesBackAll, Added.cmd = "add_partition", Added.part \in Descs,
         TableInv(job.found)
  PROVE  LET p == Added.part
             parts == job.found.parts
         IN  /\ driver \in {"mysql", "postgresql"} /\ is_valid_partition(p)
             /\ job.found.parted = TRUE /\ p \notin parts
             /\ driver = "mysql" => /\ \A q \in parts : Grows(q, p)
                                    /\ \E q \in parts : q # p
             /\ driver = "postgresql" => /\ NonEmpty(p)
                                         /\ \A q \in parts : ~Overlap(p, q)
  <1> DEFINE p == Added.part
             parts == job.found.parts
  <1>1. TakesBack(Added)
    BY DEF TakesBackAll
  <1>2. /\ driver # "sqlite" /\ job.found.parted /\ is_valid_partition(p)
        /\ \A q \in parts : IF driver = "mysql" THEN Grows(q, p) ELSE ~Overlap(q, p)
        /\ driver = "postgresql" => NonEmpty(p)
    BY <1>1 DEF TakesBack
  <1>3. driver \in {"mysql", "postgresql"}
    BY <1>2, SomeDriver DEF TypeInv
  <1>4. /\ parts \subseteq Descs /\ job.found.parted \in BOOLEAN
        /\ job.found.parted = TRUE /\ driver = "mysql" => parts # {}
    BY DEF TableInv, Tables
  <1>5. CASE driver = "mysql"
    <2>1. \A q \in parts : Grows(q, p)
      BY <1>2, <1>5
    <2>2. p \notin parts
      BY <2>1, FitsOnce
    <2>3. \E q \in parts : q # p
      BY <1>2, <1>4, <1>5, <2>2
    <2>4. QED
      BY <1>2, <1>3, <1>4, <1>5, <2>1, <2>2, <2>3
  <1>6. CASE driver = "postgresql"
    <2>1. NonEmpty(p) /\ \A q \in parts : ~Overlap(q, p)
      BY <1>2, <1>6
    <2>2. \A q \in parts : ~Overlap(p, q)
      BY <1>4, <2>1, FitsOnce
    <2>3. p \notin parts
      BY <2>1, FitsOnce
    <2>4. QED
      BY <1>2, <1>3, <1>4, <1>6, <2>1, <2>2, <2>3
  <1>7. QED
    BY <1>3, <1>5, <1>6

LEMMA FirstAdds ==
  ASSUME TypeInv, TakesBackAll, Executes, TableInv(job.found), job.ran = 0,
         Holds(table, job.found.things, job.found.parts),
         NEW op, op = Next_op, NEW sql, sql = Sql(op), NEW t, t = After(sql, op)
  PROVE  Accepts(sql, op) /\ sql # "none" /\ Holds(t, MoreThings, MoreParts)
  <1>1. op = Added /\ job.kind = "alter"
    BY DEF Next_op, Added, TakesBackAll
  <1>2. /\ table \in Tables /\ table.exists /\ op.name \notin table.things
        /\ table.things = job.found.things /\ table.parts = job.found.parts
        /\ table.parted = job.found.parted
    BY <1>1 DEF TypeInv, TableInv, Holds, TakesBackAll
  <1>3. CASE Added.cmd = "add_partition" /\ Added.part \in Descs
    <2>1. /\ driver \in {"mysql", "postgresql"} /\ is_valid_partition(op.part)
          /\ table.parted = TRUE
          /\ driver = "mysql" => \A q \in table.parts : Grows(q, op.part)
          /\ driver = "postgresql" => /\ NonEmpty(op.part)
                                      /\ \A q \in table.parts : ~Overlap(op.part, q)
      BY <1>1, <1>2, <1>3, PartTakenBack
    <2>2. Means(op, sql) /\ driver \in Drivers
      BY SqlOf DEF TypeInv
    <2>3. sql = PartitionSql["add_partition"][driver]
      BY <1>1, <1>3, <2>1, <2>2 DEF Means, PartCommands
    <2>4. sql = IF driver = "mysql" THEN "add_partition" ELSE "create_child"
      <3>1. "add_partition" \in PartCommands \cup {"remove"}
        BY DEF PartCommands
      <3>2. QED
        BY <2>1, <2>2, <2>3, <3>1, SqlOfPart
    <2>5. Accepts(sql, op)
      <3>1. CASE driver = "mysql"
        BY <1>2, <2>1, <2>4, <3>1 DEF Accepts, Constraints
      <3>2. CASE driver = "postgresql"
        BY <1>2, <2>1, <2>4, <3>2 DEF Accepts, Constraints
      <3>3. QED
        BY <2>1, <3>1, <3>2
    <2>6. t = [table EXCEPT !.parts = @ \cup {op.part}]
      BY <2>1, <2>4 DEF After, Adding
    <2>7. /\ t.exists = table.exists /\ t.auto = table.auto /\ t.key = table.key
          /\ t.parted = table.parted /\ t.things = table.things
          /\ t.parts = table.parts \cup {op.part}
      BY <1>2, <2>6 DEF Tables
    <2>8. Holds(t, MoreThings, MoreParts)
      BY <1>1, <1>3, <2>7 DEF Holds, MoreThings, MoreParts
    <2>9. sql # "none"
      BY <2>4
    <2>10. QED
      BY <2>5, <2>8, <2>9
  <1>4. CASE /\ Added.cmd \in Adding /\ Added.cmd # "add_partition"
             /\ Added.cmd \in {"add_unique"} => driver # "sqlite"
             /\ Added.cmd = "add_check" => driver = "postgresql"
    <2>1. op.cmd \in {"add_column", "add_index", "add_unique", "add_check"}
      BY <1>1, <1>4 DEF Adding
    <2>2. sql = IF op.cmd = "add_index" /\ driver = "postgresql"
                  THEN "create_index_if_not_exists" ELSE ClauseOf(op.cmd)
      BY <1>1, <2>1, ThingSql DEF ThingCommands
    <2>3. ClauseOf(op.cmd) = op.cmd
      BY <2>1 DEF ClauseOf
    <2>4. /\ sql \in Adding \cup {"create_index_if_not_exists"}
          /\ sql \in Constraints => driver # "sqlite"
      BY <1>1, <1>4, <2>1, <2>2, <2>3 DEF Adding, Constraints
    <2>5. /\ Accepts(sql, op) /\ sql # "none"
          /\ t.exists = table.exists /\ t.auto = table.auto /\ t.key = table.key
          /\ t.parted = table.parted /\ t.parts = table.parts
          /\ t.things = table.things \cup {op.name}
      BY <1>2, <2>4, AddsThing
    <2>6. Holds(t, MoreThings, MoreParts)
      BY <1>1, <1>4, <2>5 DEF Holds, MoreThings, MoreParts
    <2>7. QED
      BY <2>5, <2>6
  <1>5. QED
    BY <1>3, <1>4, Pairs

LEMMA SecondDrops ==
  ASSUME TypeInv, TakesBackAll, Executes, TableInv(job.found), job.ran = 1,
         Holds(table, MoreThings, MoreParts),
         NEW op, op = Next_op, NEW sql, sql = Sql(op), NEW t, t = After(sql, op)
  PROVE  /\ Accepts(sql, op) /\ sql # "none"
         /\ Holds(t, job.found.things, job.found.parts)
  <1>1. op = Dropped /\ job.kind = "alter" /\ op.name = Added.name
        /\ Added.name \notin job.found.things
    BY DEF Next_op, Dropped, TakesBackAll
  <1>2. /\ table \in Tables /\ table.exists
        /\ table.things = MoreThings /\ table.parts = MoreParts
        /\ table.parted = job.found.parted
    BY DEF TypeInv, TableInv, Holds, TakesBackAll
  <1>3. CASE /\ Added.cmd = "add_partition" /\ Dropped.cmd = "drop_partition"
             /\ Added.part \in Descs /\ Dropped.part = Added.part
    <2>1. /\ driver \in {"mysql", "postgresql"} /\ is_valid_partition(op.part)
          /\ op.part \notin job.found.parts
          /\ driver = "mysql" => \E q \in job.found.parts : q # op.part
      BY <1>1, <1>3, PartTakenBack
    <2>2. table.parts = job.found.parts \cup {op.part} /\ table.things = job.found.things
      BY <1>1, <1>2, <1>3 DEF MoreParts, MoreThings
    <2>3. Means(op, sql) /\ driver \in Drivers
      BY SqlOf DEF TypeInv
    <2>4. sql = PartitionSql["drop_partition"][driver]
      BY <1>1, <1>3, <2>1, <2>3 DEF Means, PartCommands
    <2>5. sql = IF driver = "mysql" THEN "drop_partition" ELSE "drop_child"
      <3>1. "drop_partition" \in PartCommands \cup {"remove"}
        BY DEF PartCommands
      <3>2. QED
        BY <2>1, <2>3, <2>4, <3>1, SqlOfPart
    <2>6. Accepts(sql, op)
      <3>1. CASE driver = "mysql"
        <4>1. op.part \in table.parts /\ table.parts # {op.part}
          BY <2>1, <2>2, <3>1
        <4>2. QED
          BY <1>2, <2>5, <3>1, <4>1 DEF Accepts, Constraints
      <3>2. CASE driver = "postgresql"
        BY <1>2, <2>5, <3>2 DEF Accepts, Constraints
      <3>3. QED
        BY <2>1, <3>1, <3>2
    <2>7. PICK kept : kept = [table EXCEPT !.rows = @ \ Gone(sql, op)]
      OBVIOUS
    <2>8. t = [kept EXCEPT !.parts = @ \ {op.part}]
      BY <2>1, <2>5, <2>7 DEF After, Adding
    <2>9. /\ kept \in Tables
          /\ kept.exists = table.exists /\ kept.auto = table.auto /\ kept.key = table.key
          /\ kept.parted = table.parted /\ kept.things = table.things
          /\ kept.parts = table.parts
      BY <1>2, <2>7 DEF Tables
    <2>10. /\ t.exists = table.exists /\ t.auto = table.auto /\ t.key = table.key
           /\ t.parted = table.parted /\ t.things = table.things
           /\ t.parts = table.parts \ {op.part}
      BY <2>8, <2>9 DEF Tables
    <2>11. t.parts = job.found.parts
      BY <2>1, <2>2, <2>10
    <2>12. Holds(t, job.found.things, job.found.parts)
      BY <2>2, <2>10, <2>11 DEF Holds
    <2>13. sql # "none"
      BY <2>5
    <2>14. QED
      BY <2>6, <2>12, <2>13
  <1>4. CASE /\ Added.cmd # "add_partition"
             /\ \/ Added.cmd = "add_column" /\ Dropped.cmd = "drop_column"
                \/ Added.cmd = "add_index" /\ Dropped.cmd = "drop_index" /\ Added.name = "i"
                \/ /\ Added.cmd = "add_unique" /\ Dropped.cmd = "drop_constraint"
                   /\ Added.name = "u" /\ driver # "sqlite"
                \/ /\ Added.cmd = "add_check" /\ Dropped.cmd = "drop_constraint"
                   /\ driver = "postgresql"
    <2>1. op.cmd \in {"drop_column", "drop_index", "drop_constraint"}
      BY <1>1, <1>4
    <2>2. sql = ClauseOf(op.cmd)
      BY <1>1, <2>1, ThingSql DEF ThingCommands
    <2>3. sql = IF op.cmd = "drop_constraint" /\ driver = "mysql" THEN "drop_index" ELSE op.cmd
      BY <2>1, <2>2 DEF ClauseOf
    <2>4. /\ sql \in {"drop_column", "drop_index", "drop_constraint"}
          /\ sql = "drop_constraint" => driver # "sqlite"
          /\ sql = "drop_index" => op.name \in Indexes
      BY <1>1, <1>4, <2>1, <2>3 DEF Indexes
    <2>5. /\ table.things = job.found.things \cup {op.name}
          /\ table.parts = job.found.parts
      BY <1>1, <1>2, <1>4 DEF MoreThings, MoreParts
    <2>6. /\ Accepts(sql, op) /\ sql # "none"
          /\ t.exists = table.exists /\ t.auto = table.auto /\ t.key = table.key
          /\ t.parted = table.parted /\ t.parts = table.parts
          /\ t.things = table.things \ {op.name}
      <3>1. op.name \in table.things
        BY <2>5
      <3>2. QED
        BY <1>2, <2>4, <3>1, DropsThing
    <2>7. t.things = job.found.things
      BY <1>1, <2>5, <2>6
    <2>8. Holds(t, job.found.things, job.found.parts)
      BY <2>5, <2>6, <2>7 DEF Holds
    <2>9. QED
      BY <2>6, <2>8
  <1>5. QED
    BY <1>3, <1>4, Pairs

LEMMA RestoringCarried ==
  ASSUME driver' = driver, job'.kind = job.kind, job'.todo = job.todo,
         job'.found = job.found, NEW t, table' = t
  PROVE  /\ TakesBackAll' <=> TakesBackAll
         /\ Holds(table, MoreThings, MoreParts)' <=> Holds(t, MoreThings, MoreParts)
         /\ Holds(table, job.found.things, job.found.parts)'
              <=> Holds(t, job.found.things, job.found.parts)
         /\ TableInv(job.found)' <=> TableInv(job.found)
  <1>1. TakesBackAll' <=> TakesBackAll
    <2>1. Added' = Added /\ Dropped' = Dropped
      BY DEF Added, Dropped
    <2>2. TakesBack(Added)' <=> TakesBack(Added)
      BY <2>1 DEF TakesBack
    <2>3. QED
      BY <2>1, <2>2 DEF TakesBackAll
  <1>2. MoreThings' = MoreThings /\ MoreParts' = MoreParts
    BY DEF MoreThings, MoreParts, Added
  <1>3. QED
    BY <1>1, <1>2 DEF Holds, TableInv

\* A step of the job, with what becomes of the table.
LEMMA RestoringStep ==
  ASSUME Restoring, driver' = driver, job'.kind = job.kind, job'.todo = job.todo,
         job'.found = job.found, NEW t, table' = t,
         TakesBackAll =>
           /\ job'.returned = "nothing_yet" =>
                IF job'.ran = 1 THEN Holds(t, MoreThings, MoreParts)
                                ELSE Holds(t, job.found.things, job.found.parts)
           /\ job'.returned = "true" => Holds(t, job.found.things, job.found.parts)
           /\ job'.returned = "false" => job'.lost = TRUE
  PROVE  Restoring'
  <1>1. /\ TakesBackAll' <=> TakesBackAll
        /\ Holds(table, MoreThings, MoreParts)' <=> Holds(t, MoreThings, MoreParts)
        /\ Holds(table, job.found.things, job.found.parts)'
             <=> Holds(t, job.found.things, job.found.parts)
        /\ TableInv(job.found)' <=> TableInv(job.found)
    BY RestoringCarried
  <1>2. job.kind = "alter" => TableInv(job.found) /\ job.found.rows = {}
    BY DEF Restoring
  <1>3. QED
    BY <1>1, <1>2 DEF Restoring

\* No builder but alter_table() takes back.
LEMMA NoAlter ==
  ASSUME job.kind # "alter"
  PROVE  Restoring
  BY DEF Restoring, TakesBackAll

LEMMA InitRestoring == Init => Restoring
  BY NothingToDo, NoAlter DEF Init

LEMMA NextRestoring == TypeInv /\ Restoring /\ [Next]_vars => Restoring'
  <1> SUFFICES ASSUME TypeInv, Restoring, [Next]_vars PROVE Restoring'
    OBVIOUS
  <1>1. /\ job \in Jobs /\ job.ran \in Nat /\ Len(job.todo) \in Nat
        /\ table \in Tables /\ TableInv(table) /\ driver \in Drivers
        /\ job.returned \in {"nothing_yet", "true", "false"} /\ job.ran <= Len(job.todo)
    BY JobParts DEF TypeInv, JobInv, TableInv
  <1>2. /\ TakesBackAll => Len(job.todo) = 2 /\ job.kind = "alter" /\ TableInv(job.found)
        /\ TakesBackAll /\ job.returned = "nothing_yet" =>
             IF job.ran = 1 THEN Holds(table, MoreThings, MoreParts)
                            ELSE Holds(table, job.found.things, job.found.parts)
        /\ TakesBackAll /\ job.returned = "true" =>
             Holds(table, job.found.things, job.found.parts)
        /\ TakesBackAll /\ job.returned = "false" => job.lost = TRUE
    BY DEF Restoring, TakesBackAll
  <1>3. ASSUME NEW d \in Definitions, Create(d) PROVE Restoring'
    <2>1. job'.kind = "create"
      <3>1. /\ Job("create", d, generate_sqls(d)).kind = "create"
            /\ Job("create", d, <<>>).kind = "create"
            /\ [Job("create", d, <<>>) EXCEPT !.returned = "false"].kind = "create"
        BY DEF Job
      <3>2. QED
        BY <1>3, <3>1 DEF Create
    <2>2. QED
      BY <2>1 DEF Restoring, TakesBackAll
  <1>4. ASSUME NEW ops \in Alterations, Alter(ops) PROVE Restoring'
    <2>1. IsNew(Job("alter", NoDefinition, ops), "alter", NoDefinition, ops)
      <3>1. ops \in Seq(Commands) /\ NoDefinition \in Definitions \cup {NoDefinition}
        BY Altering
      <3>2. QED
        BY <3>1, NewJob
    <2>2. driver' = driver /\ table' = table /\ job' = Job("alter", NoDefinition, ops)
      BY <1>4 DEF Alter
    <2>3. job'.ran = 0 /\ job'.returned = "nothing_yet" /\ job'.found = WithoutRows(table)
      BY <2>1, <2>2 DEF IsNew
    <2>4. PICK found : found = WithoutRows(table)
      OBVIOUS
    <2>5. /\ found \in Tables /\ found.rows = {} /\ found.exists = table.exists
          /\ found.auto = table.auto /\ found.key = table.key /\ found.parted = table.parted
          /\ found.things = table.things /\ found.parts = table.parts
      BY <1>1, <2>4 DEF WithoutRows, Tables
    <2>6. table = NoTable => found = NoTable
      BY <2>4 DEF WithoutRows, NoTable
    <2>7. TableInv(found)'
      BY <1>1, <2>2, <2>5, <2>6 DEF TableInv
    <2>8. TableInv(job.found)' /\ job'.found.rows = {}
      BY <2>3, <2>4, <2>5, <2>7 DEF TableInv
    <2>9. Holds(table, job.found.things, job.found.parts)'
      BY <2>2, <2>3, <2>4, <2>5 DEF Holds
    <2>10. QED
      BY <2>3, <2>8, <2>9 DEF Restoring
  <1>5. ASSUME NEW p \in Descs, NEW where \in {Keys} \cup {{k} : k \in Keys}, Remove(p, where)
        PROVE  Restoring'
    <2>1. job'.kind = "remove"
      BY <1>5 DEF Remove, Job
    <2>2. QED
      BY <2>1 DEF Restoring, TakesBackAll
  <1>6. CASE Done
    <2>1. job'.kind = "none"
      BY <1>6, NothingToDo DEF Done
    <2>2. QED
      BY <2>1 DEF Restoring, TakesBackAll
  <1>7. CASE Return
    <2>1. /\ job' = [job EXCEPT !.returned = "true"] /\ driver' = driver /\ table' = table
          /\ job.ran = Len(job.todo) /\ job.returned = "nothing_yet"
      BY <1>7 DEF Return, Running
    <2>2. /\ job'.kind = job.kind /\ job'.todo = job.todo /\ job'.found = job.found
          /\ job'.returned = "true"
      BY <1>1, <2>1 DEF Jobs
    <2>3. ASSUME TakesBackAll
          PROVE  Holds(table, job.found.things, job.found.parts)
      <3>1. job.ran # 1
        BY <2>1, <2>3 DEF TakesBackAll
      <3>2. QED
        BY <1>2, <2>1, <2>3, <3>1
    <2>4. QED
      BY <2>1, <2>2, <2>3, RestoringStep
  <1>8. CASE Retry
    <2>1. job.kind = "create"
      BY <1>8 DEF Retry
    <2>2. job'.kind = "create"
      <3>1. CASE job' = job
        BY <2>1, <3>1
      <3>2. CASE job' = [job EXCEPT !.ran = 0, !.returned = "nothing_yet", !.lost = FALSE]
        BY <1>1, <2>1, <3>2 DEF Jobs
      <3>3. QED
        BY <1>8, <3>1, <3>2 DEF Retry
    <2>3. QED
      BY <2>2 DEF Restoring, TakesBackAll
  <1>9. ASSUME NEW k \in Keys, Insert(k) PROVE Restoring'
    <2>1. table' = [table EXCEPT !.rows = @ \cup {k}] /\ driver' = driver /\ job' = job
      BY <1>9 DEF Insert
    <2>2. PICK t : t = table'
      OBVIOUS
    <2>3. /\ t.exists = table.exists /\ t.auto = table.auto /\ t.key = table.key
          /\ t.parted = table.parted /\ t.things = table.things /\ t.parts = table.parts
      BY <1>1, <2>1, <2>2 DEF Tables
    <2>4. \A things, parts : Holds(t, things, parts) <=> Holds(table, things, parts)
      BY <2>3 DEF Holds
    <2>5. QED
      BY <1>2, <2>1, <2>2, <2>4, RestoringStep
  <1>10. CASE Statement \/ AnswerLost
    <2>1. /\ Executes /\ driver' = driver /\ registered' = registered
          /\ job'.kind = job.kind /\ job'.todo = job.todo /\ job'.found = job.found
      BY <1>10, StatementShape, ExecutedTypes
    <2>2. PICK op, sql, t : op = Next_op /\ sql = Sql(op) /\ t = table'
      OBVIOUS
    <2>3. job.returned = "nothing_yet" /\ job.ran < Len(job.todo)
      BY <2>1 DEF Executes, Running
    <2>4. ASSUME TakesBackAll
          PROVE  /\ Accepts(sql, op) /\ sql # "none"
                 /\ t = After(sql, op) =>
                      IF job.ran = 0 THEN Holds(t, MoreThings, MoreParts)
                                     ELSE Holds(t, job.found.things, job.found.parts)
      <3>1. CASE job.ran = 0
        <4>1. Holds(table, job.found.things, job.found.parts) /\ TableInv(job.found)
          BY <1>2, <2>3, <2>4, <3>1
        <4>2. PICK after : after = After(sql, op)
          OBVIOUS
        <4>3. Accepts(sql, op) /\ sql # "none" /\ Holds(after, MoreThings, MoreParts)
          BY <2>1, <2>2, <2>4, <3>1, <4>1, <4>2, FirstAdds
        <4>4. QED
          BY <3>1, <4>2, <4>3
      <3>2. CASE job.ran # 0
        <4>1. job.ran = 1
          <5>1. Len(job.todo) = 2
            BY <2>4 DEF TakesBackAll
          <5>2. QED
            BY <1>1, <2>3, <3>2, <5>1
        <4>2. Holds(table, MoreThings, MoreParts) /\ TableInv(job.found)
          BY <1>2, <2>3, <2>4, <4>1
        <4>3. PICK after : after = After(sql, op)
          OBVIOUS
        <4>4. Accepts(sql, op) /\ sql # "none"
              /\ Holds(after, job.found.things, job.found.parts)
          BY <2>1, <2>2, <2>4, <4>1, <4>2, <4>3, SecondDrops
        <4>5. QED
          BY <3>2, <4>3, <4>4
      <3>3. QED
        BY <3>1, <3>2
    <2>5. CASE Statement
      <3>1. TakesBackAll => t = After(sql, op) /\ job' = [job EXCEPT !.ran = @ + 1]
        BY <2>2, <2>4, <2>5 DEF Statement
      <3>2. ASSUME TakesBackAll
            PROVE  /\ job'.returned = "nothing_yet"
                   /\ IF job'.ran = 1 THEN Holds(t, MoreThings, MoreParts)
                                      ELSE Holds(t, job.found.things, job.found.parts)
        <4>1. job'.returned = "nothing_yet" /\ job'.ran = job.ran + 1
          BY <1>1, <2>3, <3>1, <3>2 DEF Jobs
        <4>2. job'.ran = 1 <=> job.ran = 0
          BY <1>1, <4>1
        <4>3. QED
          BY <2>4, <3>1, <3>2, <4>1, <4>2
      <3>3. QED
        BY <2>1, <2>2, <3>2, RestoringStep
    <2>6. CASE AnswerLost
      <3>1. job' = [job EXCEPT !.returned = "false", !.lost = TRUE]
        BY <2>6 DEF AnswerLost
      <3>2. job'.returned = "false" /\ job'.lost = TRUE
        BY <1>1, <3>1 DEF Jobs
      <3>3. QED
        BY <2>1, <2>2, <3>2, RestoringStep
    <2>7. QED
      BY <1>10, <2>5, <2>6
  <1>11. CASE UNCHANGED vars
    <2>1. driver' = driver /\ table' = table /\ job' = job
      BY <1>11 DEF vars
    <2>2. QED
      BY <1>2, <2>1, RestoringStep
  <1>12. QED
    BY <1>3, <1>4, <1>5, <1>6, <1>7, <1>8, <1>9, <1>10, <1>11 DEF Next

LEMMA Restored ==
  ASSUME TypeInv, Restoring
  PROVE  AddThenDropRestores
  <1> SUFFICES ASSUME TakesBackAll
               PROVE  /\ job.returned = "false" => job.lost
                      /\ job.returned = "true" => WithoutRows(table) = job.found
    BY DEF AddThenDropRestores, TakesBackAll, Added, Dropped
  <1>1. job.returned = "false" => job.lost
    BY DEF Restoring
  <1>2. ASSUME job.returned = "true" PROVE WithoutRows(table) = job.found
    <2>1. Holds(table, job.found.things, job.found.parts)
      BY <1>2 DEF Restoring
    <2>2. job.found \in Tables /\ job.found.rows = {} /\ table \in Tables
      BY DEF Restoring, TakesBackAll, TableInv, TypeInv
    <2>3. PICK bare, found : bare = WithoutRows(table) /\ found = job.found
      OBVIOUS
    <2>4. /\ bare \in Tables /\ bare.rows = {} /\ bare.exists = table.exists
          /\ bare.auto = table.auto /\ bare.key = table.key /\ bare.parted = table.parted
          /\ bare.things = table.things /\ bare.parts = table.parts
      BY <2>2, <2>3 DEF WithoutRows, Tables
    <2>5. /\ bare.exists = found.exists /\ bare.auto = found.auto /\ bare.key = found.key
          /\ bare.parted = found.parted /\ bare.parts = found.parts
          /\ bare.things = found.things /\ bare.rows = found.rows /\ found \in Tables
      BY <2>1, <2>2, <2>3, <2>4 DEF Holds
    <2>6. bare = found
      BY <2>4, <2>5 DEF Tables
    <2>7. QED
      BY <2>3, <2>6
  <1>3. QED
    BY <1>1, <1>2

\* An alter_table() that adds a column, index, constraint or partition and drops
\* it again is executed in full and leaves the table as it was found, whatever
\* other connections insert, unless an answer is lost (build_operation_sql() in
\* each of the databases).
THEOREM AddedIsTakenBack == Spec => []AddThenDropRestores
  <1>1. Spec => [](TypeInv /\ Restoring)
    BY InitTypes, NextTypes, InitRestoring, NextRestoring, PTL DEF Spec
  <1>2. TypeInv /\ Restoring => AddThenDropRestores
    BY Restored
  <1>3. QED
    BY <1>1, <1>2, PTL

=============================================================================
