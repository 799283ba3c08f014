------------------------------ MODULE QueryBuilder ------------------------------
(***************************************************************************)
(* Statements and their arguments: the builders of select, update and      *)
(* delete in src/ormpp/query.hpp, and the texts a program writes itself    *)
(* for query_s() and query(), on their way to the server.                  *)
(*                                                                         *)
(* The stages of a select share one context; each call of a stage writes   *)
(* its clause there.  collect() and execute() of mysql_async only make an  *)
(* awaitable, and the text is built when that is started.  Stages may be   *)
(* kept and called again, and more clauses called before the start.        *)
(***************************************************************************)
EXTENDS SqlText

CONSTANTS
  Drivers,
  Values,        \* texts a program has as values and as arguments
  Fragments,     \* what texts of the program are put together from
  MaxFragments,  \* bound on the fragments of such a text
  MaxCalls,      \* bound on the calls of the stages of a builder
  MaxMixed,      \* the same, when an earlier stage is called again
  MaxArgs        \* bound on the arguments of a statement

ASSUME BuilderAssumption ==
  /\ Drivers \subseteq {"sqlite", "mysql", "mysql_async", "postgresql"}
  /\ \A n \in {MaxFragments, MaxCalls, MaxMixed, MaxArgs} : n \in Nat
  /\ MaxMixed <= MaxCalls

\* The words the builders write.
Words == {"a", "b", "and", "1", "NULL", ",", "select", "update", "delete", "set", "join", "where",
          "group by", "having", "order by", "limit", "offset"}

\* What a program's texts are put together from: the parameters are not in them.
Characters == STRING \ {Parameters[n] : n \in DOMAIN Parameters}

ASSUME TextAssumption ==
  /\ Parameters \in Seq(STRING) /\ MaxArgs <= Len(Parameters)
  /\ \A m, n \in DOMAIN Parameters : Parameters[m] = Parameters[n] => m = n
  /\ Words \cup Special \subseteq Characters
  /\ Values \cup Fragments \subseteq Seq(Characters)

VARIABLES
  driver, lang,  \* the driver, and how its server reads texts
  builder,       \* "select", "update", "delete", or "none" for a text
  ctx,           \* [Clauses -> text]: the context
  held,          \* the stages the program can call
  calls,         \* the calls that wrote the context
  linear,        \* each was made on the stage the one before returned
  pending,       \* the awaitable that was not started yet: at most one
  sent           \* the last statement

vars == <<driver, lang, builder, ctx, held, calls, linear, pending, sent>>
server == <<driver, lang, builder>>

SeqUpTo(S, n) == UNION {[1..m -> S] : m \in 0..n}

Clauses == {"set", "join", "where", "group by", "having", "order by", "limit", "offset"}

\* The stages, and the clauses each offers.
Offers ==
  LET tail == {"group by", "order by", "limit"}
  IN  [select |-> tail \cup {"join", "where"}, join |-> tail \cup {"join", "where"},
       where |-> tail, groupby |-> {"having", "order by"}, having |-> {"order by"},
       orderby |-> {"limit"}, limit |-> {"offset"}, offset |-> {},
       update |-> {"set"}, set |-> {"set", "where"}, update_where |-> {},
       delete |-> {"where"}, delete_where |-> {}]

\* The stage the call of a clause returns.
Returned(stage, clause) ==
  CASE clause = "group by" -> "groupby"
    [] clause = "order by" -> "orderby"
    [] clause = "where" /\ stage = "set" -> "update_where"
    [] clause = "where" /\ stage = "delete" -> "delete_where"
    [] OTHER -> clause

Roots == [select |-> {"select"}, update |-> {"update"}, delete |-> {"delete"}, none |-> {}]

Emptied == [c \in Clauses |-> <<>>]

\* A statement: how it ended, its text, what the driver binds, what the program
\* wrote, the arguments, the stage, and whether it was written in one go.
Statement(kind, sql, bound, meant, args, via, plain) ==
  [kind |-> kind, sql |-> sql, bound |-> bound, meant |-> meant, args |-> args,
   via |-> via, plain |-> plain]

Nothing == Statement("nothing", <<>>, <<>>, <<>>, <<>>, "none", FALSE)

Init ==
  /\ driver \in Drivers
  /\ lang \in IF driver \in {"mysql", "mysql_async"} THEN {"mysql", "mysql_plain"} ELSE {driver}
  /\ builder \in DOMAIN Roots
  /\ ctx = Emptied
  /\ held = Roots[builder]
  /\ calls = <<>>
  /\ linear = TRUE
  /\ pending = <<>>
  /\ sent = Nothing

-----------------------------------------------------------------------------
(* Clauses: what the program says, and the text that is written for it.    *)

Plain(word) == Word(word)
MarkText == <<"?", " ", " ">>

\* Values, and texts of the program, that hold the mark itself are written as
\* if they were a mark.
build_where(value) == IF value = MarkText THEN value ELSE escape_sql_string(value)

append_set(value) == escape_sql_string(value)

OperandText(operand, write(_)) ==
  CASE operand.kind = "mark" -> MarkText
    [] operand.kind = "value" -> write(operand.text)
    [] OTHER -> operand.text

OperandsText(operands, write(_)) ==
  Joined([i \in DOMAIN operands |-> OperandText(operands[i], write)])

\* A condition compares a column with a value or a mark; && joins two.
Conditions ==
  {<<Plain("a"), operand>> : operand \in {Mark} \cup {Value(v) : v \in Values}}
    \cup {<<Plain("a"), Value(v), Plain("and"), Plain("b"), Mark>> : v \in Values}

\* Arguments are passed with collect() only.
Unmarked(operands) == \A i \in DOMAIN operands : operands[i] # Mark

Operands(clause) ==
  CASE clause \in {"where", "having"} ->
         {c \in Conditions : builder = "select" \/ Unmarked(c)}
    [] clause \in {"limit", "offset"} -> {<<Plain("1")>>, <<Mark>>}
    [] clause = "set" -> {<<Plain("a"), Plain("NULL")>>}
                           \cup {<<Plain("a"), Value(v)>> : v \in Values}
    [] OTHER -> {<<Plain("a")>>}

\* The keyword a clause begins with; that of where() is written with the text.
Keyword(stage, clause) == IF stage = "set" /\ clause = "set" THEN "," ELSE clause

ClauseText(stage, clause, operands) ==
  CASE clause = "where" -> OperandsText(operands, build_where)
    [] clause = "set" ->
         <<Keyword(stage, clause)>> \o OperandsText(operands, append_set)
    [] OTHER -> <<Keyword(stage, clause)>> \o OperandsText(operands, build_where)

\* Mutant of Appends: a condition is added to the one before.
AppendsConditions(stage, clause) == clause \in {"set", "where", "offset"}

\* Only further joins, further columns to set, and offset() add to what is there.
Appends(stage, clause) ==
  \/ clause = "offset"
  \/ clause = "set"
  \/ clause = "join" /\ stage = "join"

\* update() and remove() make a context for each chain: what is called on them
\* begins anew.
Fresh(stage) == stage \in {"update", "delete"}

\* Mutant of ContextFor.
SharedContext(stage) == ctx

ContextFor(stage) == IF Fresh(stage) THEN Emptied ELSE ctx

CallStage(stage, clause, operands) ==
  LET old == ContextFor(stage)
      made == IF Fresh(stage) THEN <<>> ELSE calls
      text == ClauseText(stage, clause, operands)
      goes_on == \/ made = <<>>
                 \/ /\ linear
                    /\ stage = Returned(made[Len(made)].stage, made[Len(made)].clause)
  IN  /\ sent = Nothing
      /\ stage \in held /\ clause \in Offers[stage]
      /\ Len(made) < IF goes_on THEN MaxCalls ELSE MaxMixed
      /\ Fresh(stage) => pending = <<>>
      /\ ctx' = [old EXCEPT ![clause] = IF Appends(stage, clause) THEN @ \o text ELSE text]
      /\ held' = (IF Fresh(stage) THEN {stage} ELSE held) \cup {Returned(stage, clause)}
      /\ calls' = Append(made, [stage |-> stage, clause |-> clause, operands |-> operands])
      /\ linear' = goes_on
      /\ UNCHANGED <<server, pending, sent>>

-----------------------------------------------------------------------------
(* The text                                                                *)

WhereText(c) == IF c["where"] = <<>> THEN <<>> ELSE <<"where">> \o c["where"]

select_sql(c) ==
  LET sql == Joined(<< <<"select">>, c["join"], WhereText(c), c["group by"], c["having"],
                       c["order by"], c["limit"], c["offset"] >>)
  IN  IF driver = "postgresql" THEN replace_postgresql_placeholders(sql) ELSE sql

update_sql(c) == Joined(<< <<"update">>, c["set"], WhereText(c) >>)

delete_sql(c) == Joined(<< <<"delete">>, WhereText(c) >>)

build_sql(c) ==
  CASE builder = "select" -> select_sql(c)
    [] builder = "update" -> update_sql(c)
    [] builder = "delete" -> delete_sql(c)

\* What the program wrote, call by call.
Meant(made) ==
  <<Plain(builder)>> \o
    Joined([i \in DOMAIN made |->
              <<Plain(Keyword(made[i].stage, made[i].clause))>> \o made[i].operands])

-----------------------------------------------------------------------------
(* Sending a statement                                                     *)

Arguments == SeqUpTo(Values, MaxArgs)

\* query_s(): mysql_async writes the arguments into the text and may throw, the
\* others hand them to the server, apart.
query_s(sql, meant, args, via, plain) ==
  LET done == format_query_args(sql, lang = "mysql_plain", args)
  IN  IF driver # "mysql_async" \/ args = <<>>
        THEN Statement("text", sql, args, meant, args, via, plain)
        ELSE IF done.thrown THEN Statement("refused", <<>>, <<>>, meant, args, via, plain)
                            ELSE Statement("text", done.sql, <<>>, meant, args, via, plain)

\* What a stage sends when it is asked for rows, or to execute.
Sends(stage) ==
  /\ stage \in held
  /\ stage # "update"

\* execute_all() of remove() has a context of its own.
ContextOf(stage) == IF stage = "delete" THEN Emptied ELSE ctx

CallsOf(stage) == IF stage = "delete" THEN <<>> ELSE calls

Execute(stage, args, plain) ==
  sent' = IF builder = "select"
            THEN query_s(build_sql(ctx), Meant(calls), args, stage, plain)
            ELSE Statement("text", build_sql(ContextOf(stage)), <<>>, Meant(CallsOf(stage)),
                           <<>>, stage, plain)

\* Whether the program wrote the chain in one go and asks its last stage.
InOneGo(stage) ==
  \/ CallsOf(stage) = <<>>
  \/ linear /\ stage = Returned(calls[Len(calls)].stage, calls[Len(calls)].clause)

Collect(stage, args) ==
  /\ sent = Nothing
  /\ Sends(stage)
  /\ builder = "select" \/ args = <<>>
  /\ pending = <<>>
  /\ IF driver = "mysql_async"
       THEN /\ pending' = <<[stage |-> stage, args |-> args, calls |-> calls,
                             plain |-> InOneGo(stage)]>>
            /\ UNCHANGED sent
       ELSE Execute(stage, args, InOneGo(stage)) /\ UNCHANGED pending
  /\ UNCHANGED <<server, ctx, held, calls, linear>>

\* The stages go out of scope before the awaitable is started.
LetGo ==
  /\ pending # <<>> /\ held # {}
  /\ held' = {}
  /\ UNCHANGED <<server, ctx, calls, linear, pending, sent>>

\* The awaitable of a select holds the context.  Those of update and delete only
\* point to it: the stage has to be kept, and execute_all() of remove() has given
\* its own context up when it returns.
ContextThere(stage) ==
  \/ builder = "select"
  \/ held # {} /\ stage # "delete"

Start ==
  /\ pending # <<>>
  /\ LET p == pending[1]
     IN  IF ContextThere(p.stage)
           THEN Execute(p.stage, p.args, p.plain /\ p.calls = calls)
           ELSE sent' = Statement("undefined", <<>>, <<>>, <<>>, p.args, p.stage, FALSE)
  /\ pending' = <<>>
  /\ UNCHANGED <<server, ctx, held, calls, linear>>

\* What a program's own text is: quotes and comments are closed, a mark touches
\* no quote and no mark; and in MySQL two dashes are followed by a blank, as the driver
\* takes them for a comment in any case.
Sound(text) ==
  /\ Complete(text, lang)
  /\ \A i \in 1..Len(text) - 1 : \A c \in {"?", "'", DoubleQuote, Backquote} :
       {text[i], text[i + 1]} # {"?", c}
  /\ \A i \in 1..Len(text) - 2 :
       IsMysql(lang) /\ Two(text, i, "-", "-") => text[i + 2] \in Blank

\* A text of the program; a mark is at its end, so that one follows whatever
\* the text begins with.
Texts == {Joined(parts) \o <<"?">> : parts \in SeqUpTo(Fragments, MaxFragments)}

\* A where_condition is a structure a program may fill in itself; with
\* postgresql, the marks of such a text become numbers.
OwnCondition(text) == [Emptied EXCEPT !["where"] = text]

\* query() of a tuple: the marks in the text, wherever they are, are counted.
\* postgresql counts `$' and then looks for `?'.
query_tuple(sql, args) ==
  LET meant == Says(sql, lang)
      marks == Cardinality({i \in DOMAIN sql : sql[i] = "?"})
      plain == Sound(sql) /\ marks = Marks(meant)
      fits == args = <<>> \/ (Len(args) = marks /\ driver # "postgresql")
      text == IF args = <<>> THEN sql ELSE get_sql(sql, args)
  IN  IF fits THEN Statement("text", text, <<>>, meant, args, "tuple", plain)
              ELSE Statement("refused", <<>>, <<>>, meant, args, "tuple", plain)

WriteText ==
  /\ builder = "none" /\ sent = Nothing
  /\ \E text \in Texts, args \in Arguments :
       sent' \in {query_s(select_sql(OwnCondition(text)),
                         <<Plain("select"), Plain("where")>> \o Says(text, lang),
                         args, "text", Sound(text)),
                 query_tuple(text, args)}
  /\ UNCHANGED <<server, ctx, held, calls, linear, pending>>

\* The statement is done; the program goes on with the stages it has.
Done ==
  /\ sent # Nothing
  /\ sent' = Nothing
  /\ UNCHANGED <<server, ctx, held, calls, linear, pending>>

Next ==
  \/ \E stage \in held, clause \in Clauses :
       \E operands \in Operands(clause) : CallStage(stage, clause, operands)
  \/ \E stage \in held, args \in Arguments : Collect(stage, args)
  \/ LetGo
  \/ Start
  \/ WriteText
  \/ Done

Spec == Init /\ [][Next]_vars
-----------------------------------------------------------------------------
(* Properties                                                              *)

\* Types; only an awaitable waits, and no stage is there that was not offered.
TypeOK ==
  /\ driver \in Drivers /\ builder \in DOMAIN Roots
  /\ DOMAIN ctx = Clauses
  /\ held \subseteq DOMAIN Offers
  /\ Len(calls) <= MaxCalls
  /\ linear \in BOOLEAN
  /\ pending # <<>> => driver = "mysql_async" /\ Len(pending) = 1
  /\ sent.kind \in {"nothing", "text", "refused", "undefined"}
  /\ \A c \in Clauses : ctx[c] # <<>> => \E i \in DOMAIN calls : calls[i].clause = c

\* What the server is told: the lexemes of the text with what is bound to it.
Bound(lexemes, args) ==
  [i \in DOMAIN lexemes |->
     IF \E n \in DOMAIN args : lexemes[i] = Word(Parameter(n))
       THEN Value(args[CHOOSE n \in DOMAIN args : lexemes[i] = Word(Parameter(n))])
       ELSE lexemes[i]]

Told ==
  IF driver = "postgresql" THEN Bound(Says(sent.sql, lang), sent.bound)
  ELSE IF sent.bound = <<>> THEN Says(sent.sql, lang)
  ELSE Filled(Says(sent.sql, lang), sent.bound)

Occurs(c, text) == \E i \in DOMAIN text : text[i] = c

Misread(value) ==
  \/ lang = "mysql" /\ Occurs(Backslash, value)
  \/ value = MarkText

\* Values that are written into the text as '...' and that the server reads
\* otherwise: one that takes \ for an escape; and the value "?  " of a condition
\* is taken for the mark.  get_sql() may find a mark in a value it has written.
Misreadable ==
  CASE sent.via = "text" -> FALSE
    [] sent.via = "tuple" -> \E n \in DOMAIN sent.args : Occurs("?", sent.args[n])
                                                        \/ Misread(sent.args[n])
    [] OTHER -> \E i \in DOMAIN sent.meant :
                  sent.meant[i].kind = "value" /\ Misread(sent.meant[i].text)

WritesArguments ==
  IF sent.via = "tuple" THEN driver # "postgresql" ELSE driver = "mysql_async"

\* A statement whose chain was written in one go tells the server what the
\* program wrote, in that order, each argument in the place of its own mark and
\* no other: whatever the values hold, marks in them included, whether marks are
\* replaced by the driver or bound by the server, and whatever becomes of the
\* stages before the awaitable is started.  Where the driver puts the arguments
\* into the text itself, a number of arguments that differs from that of the
\* marks is refused, and no other.  No text of a select is built from a context
\* that is gone; an awaitable of update or remove needs its stage.
ReadsAsWritten ==
  /\ sent.kind \in {"text", "refused"} /\ sent.plain /\ ~Misreadable =>
       /\ sent.kind = "text" /\ Len(sent.args) = Marks(sent.meant)
            => Told = Filled(sent.meant, sent.args)
       /\ sent.args # <<>> /\ WritesArguments
            => (sent.kind = "refused" <=> Len(sent.args) # Marks(sent.meant))
  /\ sent.kind = "undefined" => builder \in {"update", "delete"}

\* However stages are kept and called again: once where() was called, what is
\* sent has a condition, the last one that was given; but for execute_all() of
\* remove(), which asks for all.
ConditionIsSent ==
  LET wheres == {i \in DOMAIN calls : calls[i].clause = "where"}
      last == calls[CHOOSE i \in wheres : \A j \in wheres : j <= i].operands
      says == Says(sent.sql, lang)
      follow(i) == Len(says) >= i + Len(last) /\
                   \A j \in DOMAIN last : last[j] = Mark \/ says[i + j] = last[j]
  IN  sent.kind = "text" /\ wheres # {} /\ sent.via # "delete" /\ ~Misreadable
        => \E i \in DOMAIN says : says[i] = Plain("where") /\ follow(i)
===============================================================================
