-------------------------- MODULE BuilderInvariant --------------------------
(***************************************************************************)
(* The inductive invariant of QueryBuilder, and the notions it is made of: *)
(* the tokens the builders write, the order in which they write their      *)
(* clauses, what the calls mean and what a context holds of them, and what *)
(* a stage sends.  Its last conjuncts say of the statement that was sent   *)
(* from which calls it was made.                                           *)
(***************************************************************************)
EXTENDS QueryBuilder, TextReading

-----------------------------------------------------------------------------
(* The types                                                               *)

Operand == {Mark} \cup {Word(c) : c \in {"a", "b", "and", "1", "NULL"}}
             \cup {Value(v) : v \in Values}

Call == [stage : DOMAIN Offers, clause : Clauses, operands : Seq(Operand)]

Awaitable == [stage : DOMAIN Offers, args : Arguments, calls : Seq(Call), plain : BOOLEAN]

\* The types of the variables, and that each clause of the context is a call's.
TypeInv ==
  /\ driver \in Drivers
  /\ lang \in {"sqlite", "mysql", "mysql_plain", "postgresql"}
  /\ driver \in {"mysql", "mysql_async"} <=> IsMysql(lang)
  /\ driver = "postgresql" <=> lang = "postgresql"
  /\ builder \in DOMAIN Roots
  /\ DOMAIN ctx = Clauses
  /\ held \subseteq DOMAIN Offers
  /\ calls \in Seq(Call) /\ Len(calls) <= MaxCalls
  /\ linear \in BOOLEAN
  /\ pending # <<>> => driver = "mysql_async" /\ pending \in Seq(Awaitable) /\ Len(pending) = 1
  /\ sent.kind \in {"nothing", "text", "refused", "undefined"}
  /\ \A c \in Clauses : ctx[c] # <<>> => \E i \in DOMAIN calls : calls[i].clause = c

-----------------------------------------------------------------------------
(* Texts of the builders                                                   *)

\* What the builders write, each in a piece of text: words, marks, and the values
\* that are read as they are written.
Tokens(C, l) ==
  {Mark} \cup {Word(c) : c \in C \ Special} \cup {Value(v) : v \in Seq(Legible(C, l)) \ {MarkText}}

Pieces(C, l) == [k \in Tokens(C, l) |-> OperandText(k, build_where)]

\* The text of K is read as K.
SaysTokens(K, C, l) ==
  LET T == Spelt(Pieces(C, l), K)
      s == Runs(Outset, T, l)
  IN  /\ Ready(T, l, C)
      /\ s.mode \in {"plain", "value_end"}
      /\ Settled(s) = K
      /\ s.mode = "value_end" => K # <<>> /\ K[Len(K)].kind = "value"

-----------------------------------------------------------------------------
(* The stages and the clauses of a builder                                 *)

Stages ==
  [select |-> {"select", "join", "where", "groupby", "having", "orderby", "limit", "offset"},
   update |-> {"update", "set", "update_where"}, delete |-> {"delete", "delete_where"},
   none |-> {}]

\* The order in which the clauses are written.
Order ==
  [select |-> <<"select", "join", "where", "group by", "having", "order by", "limit", "offset">>,
   update |-> <<"update", "set", "where">>, delete |-> <<"delete", "where">>, none |-> <<>>]

Place(b, c) ==
  CASE c = "where" -> IF b = "delete" THEN 2 ELSE 3
    [] c \in {"join", "set"} -> 2
    [] c = "group by" -> 4
    [] c = "having" -> 5
    [] c = "order by" -> 6
    [] c = "limit" -> 7
    [] c = "offset" -> 8

\* A clause stands at its place and at no other.
Placed(b, c) ==
  /\ Place(b, c) \in 2..Len(Order[b])
  /\ Order[b][Place(b, c)] = c
  /\ \A j \in 2..Len(Order[b]) : j # Place(b, c) => Order[b][j] # c

\* In one go, a clause is written behind the one before, or added to it.
Behind(b, c, d, stage) == Place(b, d) > Place(b, c) \/ (d = c /\ Appends(stage, d))

-----------------------------------------------------------------------------
(* What the calls of a builder write                                       *)

\* Each mark and each value is the first, or comes after a word.
Loose(K) == \A i \in DOMAIN K : K[i].kind # "word" => i = 1 \/ K[i - 1].kind = "word"

Toks(l) == Tokens(Characters, l)
Spelling(l) == Pieces(Characters, l)

\* A call whose values the server reads as they are written.
CleanCalls(l) == {call \in Call : call.operands \in Seq(Toks(l))}

Segment(call) == <<Word(Keyword(call.stage, call.clause))>> \o call.operands

\* The text of a segment.
SegmentText(l, call) ==
  Spelt(Spelling(l), Segment(call))
    = <<Keyword(call.stage, call.clause)>> \o Spelt(Spelling(l), call.operands)

\* The text of a clause, with its keyword.
FullText(c, w) == IF w = "where" THEN WhereText(c) ELSE c[w]

\* tok has the lexemes of each clause of the context that was written by the calls.
TextOf(c, w, K, l) == FullText(c, w) = Spelt(Spelling(l), K) /\ Steady(K)

LastWhere(made, i) ==
  /\ i \in DOMAIN made /\ made[i].clause = "where"
  /\ \A j \in DOMAIN made : j > i => made[j].clause # "where"

Written(c, made, tok, l) ==
  /\ tok \in [Clauses -> Seq(Toks(l))]
  /\ \A w \in Clauses : TextOf(c, w, tok[w], l)
  /\ \A i : LastWhere(made, i) => tok["where"] = <<Word("where")>> \o made[i].operands

Changed(c, call) ==
  [c EXCEPT ![call.clause] =
     IF Appends(call.stage, call.clause)
       THEN @ \o ClauseText(call.stage, call.clause, call.operands)
       ELSE ClauseText(call.stage, call.clause, call.operands)]

Retold(tok, call) ==
  [tok EXCEPT ![call.clause] =
     IF Appends(call.stage, call.clause) THEN @ \o Segment(call) ELSE Segment(call)]

\* The operands of the call are put together as the clause asks.
Shaped(call) ==
  /\ Loose(call.operands)
  /\ call.clause = "where" => Steady(call.operands) /\ call.operands # <<>>

-----------------------------------------------------------------------------
(* Chains that are written in one go                                       *)

Segments(l) == [call \in CleanCalls(l) |-> Segment(call)]

\* What the calls mean.
MeantBy(made, b, l) == <<Word(b)>> \o Spelt(Segments(l), made)

\* The parts of a statement, in the order in which they are written.
PartsOf(tok, b) == [i \in 1..Len(Order[b]) |-> IF i = 1 THEN <<Word(b)>> ELSE tok[Order[b][i]]]

Builders == {"select", "update", "delete"}

\* The clauses are written in the order in which they were called.
Ordered(made, tok, b, l) ==
  /\ Joined(PartsOf(tok, b)) = MeantBy(made, b, l)
  /\ made = <<>> => \A w \in Clauses : tok[w] = <<>>
  /\ made # <<>> => \A i \in 2..Len(Order[b]) :
                      i > Place(b, made[Len(made)].clause) => tok[Order[b][i]] = <<>>

Legal(call, b) == call.stage \in Stages[b] /\ call.clause \in Offers[call.stage]

GoesOn(made, call, b) ==
  made # <<>> =>
    /\ Legal(made[Len(made)], b)
    /\ call.stage = Returned(made[Len(made)].stage, made[Len(made)].clause)

-----------------------------------------------------------------------------
(* The invariant of the builders                                           *)

Untold == [w \in Clauses |-> <<>>]

\* What the context holds is the text of what the calls mean.
TextInv(c, made, lin, b, l) ==
  made \in Seq(CleanCalls(l)) =>
    \E tok : Written(c, made, tok, l) /\ (lin => Ordered(made, tok, b, l))

CallsInv ==
  /\ held \subseteq Stages[builder]
  /\ \A i \in DOMAIN calls : Legal(calls[i], builder) /\ Shaped(calls[i])
  /\ calls = <<>> => ctx = Emptied
  /\ builder \in Builders => TextInv(ctx, calls, linear, builder, lang)

\* What a stage sends.
Executed(stage, args, plain) ==
  IF builder = "select"
    THEN query_s(build_sql(ctx), Meant(calls), args, stage, plain)
    ELSE Statement("text", build_sql(ContextOf(stage)), <<>>, Meant(CallsOf(stage)),
                   <<>>, stage, plain)

SentBy(stage, args, plain) ==
  /\ stage \in Stages[builder] /\ args \in Arguments
  /\ builder = "select" \/ args = <<>>
  /\ plain => InOneGo(stage)
  /\ sent = Executed(stage, args, plain)

SentText(text, args) ==
  \/ sent = query_s(select_sql(OwnCondition(text)),
                    <<Plain("select"), Plain("where")>> \o Says(text, lang),
                    args, "text", Sound(text))
  \/ sent = query_tuple(text, args)

\* An awaitable knows what its stage can send; if no call was made since it was
\* made, what is sent is as plain as it was then.
PendingInv ==
  pending # <<>> =>
    /\ pending[1].stage \in Stages[builder] /\ pending[1].args \in Arguments
    /\ builder = "select" \/ pending[1].args = <<>>
    /\ Len(pending[1].calls) <= Len(calls)
    /\ pending[1].plain /\ pending[1].calls = calls => InOneGo(pending[1].stage)

\* The last statement is one of the context as it is.
SentInv ==
  \/ sent = Nothing
  \/ sent.kind = "undefined" /\ builder \in {"update", "delete"}
  \/ builder \in Builders /\ \E stage, args, plain : SentBy(stage, args, plain)
  \/ builder = "none" /\ \E text \in Texts, args \in Arguments : SentText(text, args)

SendInv == PendingInv /\ SentInv

IInv == TypeInv /\ CallsInv /\ SendInv

-----------------------------------------------------------------------------
(* The calls that a server reads as they are written                       *)

Stands(x, s) == \E i \in DOMAIN s : s[i] = x

\* What the calls of any program mean is put together from these.
Meanings == Operand \cup {Word(c) : c \in Words}

-----------------------------------------------------------------------------
(* The texts that are built                                                *)

SpelledBy(f, parts, i, text) == text = Spelt(f, parts[i])

SpeltBy(X, Y, f, parts, N) == f \in [X -> Seq(Y)] /\ parts \in Seq(Seq(X)) /\ Len(parts) = N

EightSpelt(f, parts, a, b, c, d, e, g, h, k) ==
  /\ SpelledBy(f, parts, 1, a) /\ SpelledBy(f, parts, 2, b) /\ SpelledBy(f, parts, 3, c)
  /\ SpelledBy(f, parts, 4, d) /\ SpelledBy(f, parts, 5, e) /\ SpelledBy(f, parts, 6, g)
  /\ SpelledBy(f, parts, 7, h) /\ SpelledBy(f, parts, 8, k)

ThreeSpelt(f, parts, a, b, c) ==
  SpelledBy(f, parts, 1, a) /\ SpelledBy(f, parts, 2, b) /\ SpelledBy(f, parts, 3, c)

TwoSpelt(f, parts, a, b) == SpelledBy(f, parts, 1, a) /\ SpelledBy(f, parts, 2, b)

\* The parts of a statement are spelt as their clauses.
SpeltParts(parts, c, b, l) ==
  /\ parts \in Seq(Seq(Toks(l))) /\ Len(parts) = Len(Order[b])
  /\ Spelt(Spelling(l), parts[1]) = <<b>>
  /\ \A i \in 2..Len(Order[b]) :
       Spelt(Spelling(l), parts[i]) = FullText(c, Order[b][i])
  /\ Steady(Joined(parts))

\* The text of the statement, before the marks are numbered.
RawText(c, b) ==
  CASE b = "select" -> Joined(<< <<"select">>, c["join"], WhereText(c), c["group by"], c["having"],
                                 c["order by"], c["limit"], c["offset"] >>)
    [] b = "update" -> Joined(<< <<"update">>, c["set"], WhereText(c) >>)
    [] b = "delete" -> Joined(<< <<"delete">>, WhereText(c) >>)

\* A condition stands in the lexemes.
HasCondition(K, operands, l) ==
  \E a \in Seq(Toks(l)), b \in Seq(Toks(l)) : Holds(K, a, <<Word("where")>> \o operands, b)

\* K is what the text built from the context says.
Spoken(c, made, lin, K) ==
  /\ K \in Seq(Toks(lang)) /\ Steady(K)
  /\ RawText(c, builder) = Spelt(Spelling(lang), K)
  /\ \A i : LastWhere(made, i) => HasCondition(K, made[i].operands, lang)
  /\ lin => K = Meant(made)

\* What the marks are filled with leaves the other lexemes where they are.
Refilled(K, S) ==
  /\ DOMAIN S = 1..Len(K) /\ Len(S) = Len(K)
  /\ \A i \in 1..Len(K) : K[i] # Mark => S[i] = K[i]

Sized(X, s, m) == s \in Seq(X) /\ m \in Nat /\ Len(s) = m

Concats(u, s, t) == u = s \o t

Comprises(u, s, t, m, n) == (\A j \in 1..m : u[j] = s[j]) /\ (\A j \in 1..n : u[m + j] = t[j])

\* The lexemes have a condition, but for what its marks are filled with.
SaysCondition(S, operands) ==
  \E i \in DOMAIN S :
    /\ S[i] = Word("where") /\ Len(S) >= i + Len(operands)
    /\ \A j \in DOMAIN operands : operands[j] = Mark \/ S[i + j] = operands[j]

-----------------------------------------------------------------------------
(* What is sent of a text                                                  *)

\* The characters, the parameters among them.
Numbering == Characters \cup {Parameter(n) : n \in Nat}

\* A text that can be looked through for marks, and what it says.
Readable(T, K) ==
  /\ T \in Seq(Characters) /\ Good(T, lang, Characters)
  /\ Says(T, lang) = K /\ K \in Seq(Lexemes(Characters))

\* A text given to query_s, with the marks numbered for postgresql.
Queried(T, meant, args, via, plain) ==
  sent = query_s(IF driver = "postgresql" THEN replace_postgresql_placeholders(T) ELSE T,
                 meant, args, via, plain)

-----------------------------------------------------------------------------
(* What a stage sends                                                      *)

NoneMisread(lexemes) ==
  \A i \in DOMAIN lexemes : lexemes[i].kind = "value" => ~Misread(lexemes[i].text)

-----------------------------------------------------------------------------
(* The condition is sent                                                   *)

Wheres == {i \in DOMAIN calls : calls[i].clause = "where"}

-----------------------------------------------------------------------------
(* What the server is told                                                 *)

ReadsWell ==
  /\ sent.kind = "text" /\ Len(sent.args) = Marks(sent.meant) => Told = Filled(sent.meant, sent.args)
  /\ sent.args # <<>> /\ WritesArguments
       => (sent.kind = "refused" <=> Len(sent.args) # Marks(sent.meant))

-----------------------------------------------------------------------------
(* A text of the program as the condition of a select                      *)

Prefixed(u, h, w) == u = h \o w

-----------------------------------------------------------------------------
(* The marks of a text, replaced one after the other by get_str()          *)

\* In a text whose `?' are all marks, the first `?' is the first mark.
Leads(B, t, w, l, C) ==
  /\ t \in Seq(C) /\ w \in Seq(C) /\ B = Around(t, "?", w) /\ Times("?", t) = 0
  /\ Runs(Outset, t, l).mode \in Rest /\ NoMark(Runs(Outset, t, l).read)

\* n marks of u are replaced in sql, and every `?' that is left is a mark.
Replacing(u, sql, n, g, l, C) ==
  \E O, B, D, R : /\ Along(O, B, D, R, n, g, l, C) /\ Splits(u, O, B) /\ Splits(sql, D, B)
                  /\ Times("?", D) = 0
                  /\ Times("?", B) = Marks(Runs(Outset, B, l).read)

\* Where get_str() finds its mark.
Found(sql, p) == p = Least({i \in DOMAIN sql : sql[i] = "?"}, npos)

StrSteps(f, sql, args, n) ==
  f = [k \in 0..n |-> IF k = 0 THEN sql ELSE get_str(f[k - 1], escape_sql_string(args[k]))]

=============================================================================
