----------------------------- MODULE TextReading -----------------------------
(***************************************************************************)
(* The notions with which QueryBuilder_proofs speaks of texts of SQL:      *)
(* alphabets, what a server has read of a text and where a lexeme is over, *)
(* the marks of a text and what is put in their place, and the state of    *)
(* the loops that put it there.                                            *)
(*                                                                         *)
(* C is an alphabet, l the language of a server, m a mode of the reader    *)
(* and o what the open lexeme holds so far.  The definitions that only     *)
(* name a term with \o or Append (Around, Splits, Holds, Crosses, ...) are *)
(* there so that a cited fact can speak of the name.                       *)
(***************************************************************************)
EXTENDS SqlText, Integers, FiniteSets

-----------------------------------------------------------------------------
(* Induction                                                               *)

IsStep(step, S, N) == step \in [S \X (1..N) -> S]

\* The function begins with e and goes on step by step.
Follows(f, S, e, N, step) ==
  f \in [0..N -> S] /\ f[0] = e /\ \A i \in 1..N : f[i] = step[<<f[i - 1], i>>]

-----------------------------------------------------------------------------
(* What a server does with one character                                   *)

\* A set of characters that holds those a server or a driver adds.
Alphabet(C) == {"-", "/", "n", "'", " ", Newline, Backslash} \subseteq C

Lexemes(C) == [kind : {"word", "value", "name", "mark"}, text : Seq(C)]

Quotes == {"value", "text", "name", "backquoted"}

QuoteEnds == {"value_end", "text_end", "name_end", "backquoted_end"}

Escapes == {"value_escape", "text_escape"}

Comments == {"line", "comment", "star"}

Modes == {"plain", "dash", "two_dashes", "slash"} \cup Quotes \cup QuoteEnds \cup Escapes
           \cup Comments

States(C) == [mode : Modes, read : Seq(Lexemes(C)), open : Seq(C)]

-----------------------------------------------------------------------------
(* One character, in whatever mode                                         *)

\* What a character outside of everything leads to, and adds to what was read.
PlainMode(c, l) == InPlain(<<>>, c, l).mode
PlainEmits(c, l) == InPlain(<<>>, c, l).read

\* The modes in which a lexeme, if any, may be over.
Rests(l) == {"plain", "dash", "slash"} \cup QuoteEnds
              \cup (IF IsMysql(l) THEN {"two_dashes"} ELSE {})

NoMark(p) == \A i \in DOMAIN p : p[i] # Mark

\* The lexemes p are over, and c is read outside of everything.
Outer(m, o, c, l, p) ==
  \A C : \A r \in Seq(Lexemes(C)) :
    p \in Seq(Lexemes(C)) => Reads(Reading(m, r, o), c, l) = InPlain(r \o p, c, l)

\* No lexeme is over.
Inner(m, o, c, l, m2, o2) == \A r : Reads(Reading(m, r, o), c, l) = Reading(m2, r, o2)

Origin(m, c, m2) ==
  /\ m2 \notin {"dash", "slash"}
  /\ m2 = "value_end" => c = "'" /\ m = "value"
  /\ m2 = "two_dashes" => c = "-" /\ m = "dash"

ReadsOuter(m, o, c, l, C) ==
  /\ m \in Rests(l)
  /\ \E p \in Seq(Lexemes(C)) : NoMark(p) /\ Outer(m, o, c, l, p)

ReadsInner(m, o, c, l, C) ==
  /\ c = "?" => m \notin Rests(l)
  /\ \E m2 \in Modes, o2 \in Seq(C) : Origin(m, c, m2) /\ Inner(m, o, c, l, m2, o2)

At(m, o) == Reading(m, <<>>, o)

\* s has read r, and then what t has read.
After(r, t) == Reading(t.mode, r \o t.read, t.open)

-----------------------------------------------------------------------------
(* Reading a text                                                          *)

Runner(f, start, text, l) ==
  f[0] = start /\ \A i \in 1..Len(text) : f[i] = Reads(f[i - 1], text[i], l)

Agree(f, g, N) == f[0] = g[0] /\ \A i \in 1..N : f[i - 1] = g[i - 1] => f[i] = g[i]

-----------------------------------------------------------------------------
(* Joined                                                                  *)

Joins(f, texts) == f[0] = <<>> /\ \A i \in 1..Len(texts) : f[i] = f[i - 1] \o texts[i]

\* What f makes of the elements, one after the other.
Spelt(f, v) == Joined([i \in DOMAIN v |-> f[v[i]]])

-----------------------------------------------------------------------------
(* Where a lexeme ends                                                     *)

\* The modes in which the next character may be outside of everything; two
\* dashes of MySQL apart.
Rest == {"plain", "dash", "slash"} \cup QuoteEnds

\* What has been read, when it is.
Over(m, o) ==
  CASE m = "dash" -> <<Word("-")>>
    [] m = "slash" -> <<Word("/")>>
    [] m \in QuoteEnds -> <<Lexeme(KindOf[Ended[m]], o)>>
    [] OTHER -> <<>>

\* c does not belong to the lexeme before.
Fits(m, c) ==
  /\ m = "dash" => c # "-"
  /\ m = "slash" => c # "*"
  /\ m \in QuoteEnds => c # Closing[Ended[m]]

\* What a server has read at a rest.
Settled(s) == s.read \o Over(s.mode, s.open)

Outset == Reading("plain", <<>>, <<>>)

-----------------------------------------------------------------------------
(* Values in quotes                                                        *)

\* f writes a character so that the server reads it back.
Spells(f, D, C, l) ==
  /\ f \in [D -> Seq(C)]
  /\ \A c \in D, x \in Seq(C), r \in Seq(Lexemes(C)) :
       Runs(Reading("value", r, x), f[c], l) = Reading("value", r, Append(x, c))

Enclosed(f, v) == <<"'">> \o Spelt(f, v) \o <<"'">>

SqlSpelling(D) == [c \in D |-> IF c = "'" THEN <<c, c>> ELSE <<c>>]

MysqlSpelling(D) ==
  [c \in D |-> CASE c = Newline -> <<Backslash, "n">>
                 [] c \in {Backslash, "'", DoubleQuote} -> <<Backslash, c>>
                 [] OTHER -> <<c>>]

-----------------------------------------------------------------------------
(* Counting and filling marks                                              *)

Times(x, s) == Cardinality({i \in DOMAIN s : s[i] = x})

\* The lexemes with those of g in the place of the marks.
FilledWith(L, g) ==
  [i \in DOMAIN L |-> IF L[i] = Mark THEN g[Marks(SubSeq(L, 1, i))] ELSE L[i]]

\* The arguments as the server shall read them.
Given(args) == [n \in Nat |-> Value(IF n \in DOMAIN args THEN args[n] ELSE <<>>)]

-----------------------------------------------------------------------------
(* Where lexemes end, for the driver                                       *)

\* f goes from i to nx[i], until it stops.
Jumps(f, a, b, stop, val, nx) ==
  \A i \in a..b : f[i] = IF i \in stop THEN val[i] ELSE f[nx[i]]

\* How end goes on through a quoted lexeme.
Ends(end, sql, i, backslash) ==
  \A j \in i + 1..Len(sql) + 2 :
    end[j] = IF j > Len(sql) THEN j
             ELSE IF backslash /\ sql[j] = Backslash THEN end[j + IF j < Len(sql) THEN 2 ELSE 1]
             ELSE IF sql[j] # sql[i] THEN end[j + 1]
             ELSE IF j < Len(sql) /\ sql[j + 1] = sql[i] THEN end[j + 2] ELSE j

\* How next goes on from lexeme to lexeme.
Finds(next, sql, start, l) ==
  \A i \in start..Len(sql) + 3 :
    next[i] = IF i > Len(sql) THEN npos
              ELSE IF sql[i] = "?" THEN i ELSE next[LexemeEnd(sql, i, l) + 1]

-----------------------------------------------------------------------------
(* The driver skips what the server takes for one lexeme                   *)

\* f is what a server makes of the text from start on.
Scanner(f, sql, start, l, C) ==
  /\ Alphabet(C) /\ sql \in Seq(C) /\ start \in 1..Len(sql) + 1
  /\ f[start - 1] = Outset
  /\ \A j \in start - 1..Len(sql) : f[j] \in States(C)
  /\ \A j \in start..Len(sql) : f[j] = Reads(f[j - 1], sql[j], l)

\* Two dashes begin a comment for both.
Dashes(f, sql, start, l) ==
  \A j \in start..Len(sql) : f[j - 1].mode = "two_dashes" /\ IsMysql(l) => sql[j] \in Blank

\* A lexeme begins at i, and no mark was met.
Begins(f, sql, i) ==
  /\ i \in Nat
  /\ i <= Len(sql) => /\ f[i - 1].mode \in Rest /\ Fits(f[i - 1].mode, sql[i])
                      /\ NoMark(f[i - 1].read)
  /\ i > Len(sql) => NoMark(f[Len(sql)].read)

-----------------------------------------------------------------------------
(* A text around one of its characters                                     *)

Around(t, c, w) == (t \o <<c>>) \o w

Encloses(s, t, c, w) ==
  /\ Len(s) = Len(t) + 1 + Len(w)
  /\ \A i \in 1..Len(t) : s[i] = t[i]
  /\ s[Len(t) + 1] = c
  /\ \A i \in 1..Len(w) : s[Len(t) + 1 + i] = w[i]

\* In MySQL two dashes are followed by a blank.
DashesBlank(B, l, C) ==
  \A t \in Seq(C), c \in C, w \in Seq(C) :
    B = Around(t, c, w) /\ IsMysql(l) /\ Runs(Outset, t, l).mode = "two_dashes" => c \in Blank

FirstMark(D, B, l, C) ==
  LET p == NextPlaceholder(D \o B, Len(D) + 1, l)
  IN  \/ p = npos /\ NoMark(Runs(Outset, B, l).read)
      \/ \E t \in Seq(C), w \in Seq(C) :
           /\ B = Around(t, "?", w) /\ p = Len(D) + Len(t) + 1 /\ "?" \in C
           /\ Runs(Outset, t, l).mode \in Rest /\ NoMark(Runs(Outset, t, l).read)

Regrouped(D, t, c, w) == D \o Around(t, c, w) = Around(D \o t, c, w)

PutIn(D, t, c, w, v) ==
  /\ Replaced(D \o Around(t, c, w), Len(D) + Len(t) + 1, v) = ((D \o t) \o v) \o w
  /\ Len((D \o t) \o v) = Len(D) + Len(t) + Len(v)

-----------------------------------------------------------------------------
(* A text after another                                                    *)

Heads(s, x, v) ==
  /\ Len(s) = Len(v) + 1 /\ s[1] = x
  /\ \A i \in 1..Len(v) : s[i + 1] = v[i]

-----------------------------------------------------------------------------
(* Texts whose marks stand apart                                           *)

Touches(w) == w # <<>> /\ w[1] \in {"'", "?"}

\* A mark touches no value and no mark; two dashes of MySQL are before a blank.
Apart(m, c, w, l) ==
  /\ c = "?" /\ m \in Rests(l) => m # "value_end" /\ ~Touches(w)
  /\ IsMysql(l) /\ m = "two_dashes" => c \in Blank

Good(u, l, C) ==
  \A t \in Seq(C), c \in C, w \in Seq(C) :
    u = Around(t, c, w) => Apart(Runs(Outset, t, l).mode, c, w, l)

-----------------------------------------------------------------------------
(* What is put in the place of a mark                                      *)

\* The text v is read as the one lexeme y wherever a mark may stand.
Puts(v, y, l, C) ==
  /\ v \in Seq(C)
  /\ \A x \in States(C) :
       x.mode \in Rest /\ x.mode # "value_end" =>
         /\ Runs(x, v, l).mode \in {"plain", "value_end"}
         /\ Settled(Runs(x, v, l)) = Append(Settled(x), y)

-----------------------------------------------------------------------------
(* Replacing the marks of a text, one after the other                      *)

\* The marks of O are replaced, which made D; B is still to come.
Along(O, B, D, R, n, g, l, C) ==
  /\ O \in Seq(C) /\ B \in Seq(C) /\ D \in Seq(C) /\ R \in Seq(Lexemes(C))
  /\ Runs(Outset, O, l) = Reading("plain", R, <<>>)
  /\ Marks(R) = n /\ n <= Len(O)
  /\ Good(B, l, C)
  /\ Runs(Outset, D, l).mode \in {"plain", "value_end"}
  /\ Settled(Runs(Outset, D, l)) = FilledWith(R, g)
  /\ Runs(Outset, D, l).mode = "value_end" => ~Touches(B)

Reached(x, t, l) ==
  /\ Runs(x, t, l).mode \in Rest /\ Runs(x, t, l).mode # "value_end"
  /\ Settled(Runs(x, t, l)) = Settled(x) \o Settled(Runs(Outset, t, l))

\* Reading on over the mark.
Crosses(O, t, p, P, R, y, q, Q) ==
  p = O \o t /\ P = Append(p, "?") /\ q = R \o y /\ Q = Append(q, Mark)

Onward(O, B, D, t, w, v, n, g, l, C) ==
  \E P, Q : Along(P, w, (D \o t) \o v, Q, n + 1, g, l, C) /\ P \o w = O \o B

-----------------------------------------------------------------------------
(* The texts as a whole                                                    *)

SaysBoth(D, B, l) == Says(D \o B, l) = Settled(Runs(Outset, D, l)) \o Says(B, l)

\* n marks of u are replaced in sql, where the search goes on at the position at.
Halfway(u, sql, at, n, g, l, C) ==
  \E O, B, D, R : /\ Along(O, B, D, R, n, g, l, C)
                  /\ u = O \o B /\ sql = D \o B /\ at = Len(D) + 1

Splits(u, O, B) == u = O \o B

MayPut(u, sql, p, n, g, l, C) ==
  \A v : Puts(v, g[n + 1], l, C) => Halfway(u, Replaced(sql, p, v), p + Len(v), n + 1, g, l, C)

-----------------------------------------------------------------------------
(* The loops                                                               *)

\* n placeholders of u were asked for.
Outcome(u, q, n, g, l, C) ==
  /\ q.thrown \in BOOLEAN
  /\ q.thrown => Marks(Says(u, l)) < n /\ Says(q.sql, l) = FilledWith(Says(u, l), g)
  /\ ~q.thrown => Halfway(u, q.sql, q.search_pos, n, g, l, C)

FormatStep(q, a, l) ==
  replace_next_placeholder(q, escape_mysql_string(a, l = "mysql_plain"), l = "mysql_plain")

FindsIn(sql, at, l) == find_next_placeholder(sql, at, l = "mysql_plain")

FormatSteps(f, sql, args, n, l) ==
  f = [k \in 0..n |-> IF k = 0 THEN Progress(sql, 1, FALSE) ELSE FormatStep(f[k - 1], args[k], l)]

NumberStep(q, n) ==
  LET pos == find_next_postgresql_placeholder(q.sql, q.search_pos)
  IN  IF q.thrown \/ pos = npos THEN Progress(q.sql, q.search_pos, TRUE)
      ELSE Progress(Replaced(q.sql, pos, <<Parameter(n)>>), pos + 1, FALSE)

NumberSteps(f, sql, n) ==
  f = [k \in 0..n |-> IF k = 0 THEN Progress(sql, 1, FALSE) ELSE NumberStep(f[k - 1], k)]

\* The words postgresql has in the place of the marks.
Numbers == [n \in Nat |-> Word(Parameter(n))]

\* The parameters are words of the alphabet.
Numbered(C) == \A n \in Nat : Parameter(n) \in C /\ Parameter(n) \notin Special

-----------------------------------------------------------------------------
(* Texts of the builders                                                   *)

Extends(p, s, c) == p = Append(s, c)

\* The text does not end with a mark.
EndsUnmarked(T, l, C) == \A t \in Seq(C) : T # Append(t, "?") \/ Runs(Outset, t, l).mode \notin Rests(l)

\* A value may come next.
Ready(T, l, C) == T \in Seq(C) /\ Good(T, l, C) /\ EndsUnmarked(T, l, C)

\* What is written of a value, after its opening quote.
Grows(S, f, v, x) == S \o Spelt(f, Append(v, x)) = (S \o Spelt(f, v)) \o f[x]

Inside(S, f, D, l, C) == {v \in Seq(D) : Ready(S \o Spelt(f, v), l, C)}

Associates(s, t, u) == (s \o t) \o u = s \o (t \o u)

\* The text T goes on with p, from which the server reads y.
Grown(T, p, y, l, C) ==
  /\ Ready(T \o p, l, C)
  /\ Runs(Outset, T \o p, l).mode = IF y.kind = "value" THEN "value_end" ELSE "plain"
  /\ Settled(Runs(Outset, T \o p, l)) = Append(Settled(Runs(Outset, T, l)), y)

Wraps(T, q, w, S, y, z) == T \o ((q \o w) \o q) = z

\* The texts of values that the server reads as they are written.
Legible(C, l) == IF l = "mysql" THEN C \ {Backslash} ELSE C

Opened(S, r, v, D, l, C) ==
  /\ D \in SUBSET C /\ (l # "mysql" \/ Backslash \notin D) /\ v \in Seq(D)
  /\ Ready(S, l, C) /\ r \in Seq(Lexemes(C))
  /\ Runs(Outset, S, l) = Reading("value", r, <<>>)

\* Each mark and each value comes after a word.
Steady(K) == \A i \in DOMAIN K : K[i].kind # "word" => i > 1 /\ K[i - 1].kind = "word"

-----------------------------------------------------------------------------
(* What is put together                                                    *)

Holds(s, a, m, b) == s = (a \o m) \o b

\* more is parts with t at the end of part k.
Lengthened(more, parts, k, t) ==
  /\ Len(more) = Len(parts)
  /\ more[k] = parts[k] \o t
  /\ \A i \in 1..Len(parts) : i # k => more[i] = parts[i]
  /\ \A i \in 1..Len(parts) : i > k => parts[i] = <<>>

=============================================================================
