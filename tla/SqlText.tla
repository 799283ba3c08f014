-------------------------------- MODULE SqlText --------------------------------
(***************************************************************************)
(* Texts of SQL: how the drivers quote values, find placeholders and put   *)
(* arguments in their place (src/ormpp/utility.hpp, query.hpp and          *)
(* mysql_async.hpp), and, as the reference, how a server reads a text.     *)
(*                                                                         *)
(* A text is a sequence of characters.  Only those that either side treats *)
(* in a special way are told apart; "$1", "$2", ... count as one character,*)
(* and so do keywords, names and numbers.                                  *)
(*                                                                         *)
(* How a text is read depends on the language: "mysql", "mysql_plain" (a   *)
(* server with NO_BACKSLASH_ESCAPES), "postgresql" or "sqlite".            *)
(***************************************************************************)
EXTENDS Naturals, Sequences, FiniteSets

CONSTANT Parameters   \* "$1", "$2", ..., as many as are told apart

Newline == "\n"
Backslash == "\\"
DoubleQuote == "\""
Backquote == "backquote"

\* The characters to which quoting, comments and placeholders give a meaning.
Special == {"'", DoubleQuote, Backquote, "-", "/", "*", "#", "?", Backslash, "n", " ", Newline}

IsMysql(lang) == lang \in {"mysql", "mysql_plain"}

\* The texts of the sequence, one after the other.
Joined(texts) ==
  LET upto[n \in 0..Len(texts)] == IF n = 0 THEN <<>> ELSE upto[n - 1] \o texts[n]
  IN  upto[Len(texts)]

Parameter(n) == IF n \in DOMAIN Parameters THEN Parameters[n] ELSE "$n"

-----------------------------------------------------------------------------
(* Quoting                                                                 *)

Quoted(escape(_), value) ==
  <<"'">> \o Joined([i \in DOMAIN value |-> escape(value[i])]) \o <<"'">>

\* to_str(), and the values of conditions: escape_sql_string() between quotes.
escape_sql_string(value) ==
  LET escape(c) == IF c = "'" THEN <<c, c>> ELSE <<c>>
  IN  Quoted(escape, value)

escape_mysql_string(value, no_backslash_escapes) ==
  LET escape(c) == CASE c = Newline -> <<Backslash, "n">>
                     [] c \in {Backslash, "'", DoubleQuote} -> <<Backslash, c>>
                     [] OTHER -> <<c>>
  IN  IF no_backslash_escapes THEN escape_sql_string(value) ELSE Quoted(escape, value)

-----------------------------------------------------------------------------
(* Finding placeholders: from lexeme to lexeme.                            *)

Least(S, default) == IF S = {} THEN default ELSE CHOOSE n \in S : \A m \in S : n <= m

\* Where the quoted lexeme that begins at i ends: at the quote that closes it,
\* doubled quotes and, if they escape, backslashes skipped.
QuoteEnd(sql, i, backslash) ==
  LET end[j \in i + 1..Len(sql) + 2] ==
        IF j > Len(sql) THEN j
        ELSE IF backslash /\ sql[j] = Backslash THEN end[j + IF j < Len(sql) THEN 2 ELSE 1]
        ELSE IF sql[j] # sql[i] THEN end[j + 1]
        ELSE IF j < Len(sql) /\ sql[j + 1] = sql[i] THEN end[j + 2] ELSE j
  IN  end[i + 1]

LineEnd(sql, i) == Least({j \in i..Len(sql) : sql[j] = Newline}, Len(sql) + 1)

\* Whether c and d stand at i and i + 1.
Two(sql, i, c, d) == sql[i] = c /\ i < Len(sql) /\ sql[i + 1] = d

CommentEnd(sql, i) ==
  Least({j + 1 : j \in {k \in i + 2..Len(sql) : Two(sql, k, "*", "/")}}, Len(sql) + 1)

\* Mutant of LexemeEnd: values in single quotes are looked into.
SkipsNames(sql, i, lang) ==
  CASE sql[i] \in {DoubleQuote, Backquote} -> QuoteEnd(sql, i, FALSE)
    [] Two(sql, i, "-", "-") -> LineEnd(sql, i)
    [] Two(sql, i, "/", "*") -> CommentEnd(sql, i)
    [] OTHER -> i

\* Where the lexeme that begins at i ends, for the driver.
LexemeEnd(sql, i, lang) ==
  CASE sql[i] \in {"'", DoubleQuote} -> QuoteEnd(sql, i, lang = "mysql")
    [] sql[i] = Backquote /\ IsMysql(lang) -> QuoteEnd(sql, i, FALSE)
    [] sql[i] = "#" /\ IsMysql(lang) -> LineEnd(sql, i)
    [] Two(sql, i, "-", "-") -> LineEnd(sql, i)
    [] Two(sql, i, "/", "*") -> CommentEnd(sql, i)
    [] OTHER -> i

npos == 0

NextPlaceholder(sql, start, lang) ==
  LET next[i \in start..Len(sql) + 3] ==
        IF i > Len(sql) THEN npos
        ELSE IF sql[i] = "?" THEN i ELSE next[LexemeEnd(sql, i, lang) + 1]
  IN  next[start]

find_next_placeholder(sql, start, no_backslash_escapes) ==
  NextPlaceholder(sql, start, IF no_backslash_escapes THEN "mysql_plain" ELSE "mysql")

find_next_postgresql_placeholder(sql, start) == NextPlaceholder(sql, start, "postgresql")

-----------------------------------------------------------------------------
(* Replacing placeholders                                                  *)

Replaced(sql, pos, value) ==
  SubSeq(sql, 1, pos - 1) \o value \o SubSeq(sql, pos + 1, Len(sql))

\* The text so far, where the search goes on, and whether a placeholder was
\* missing, upon which the code throws.
Progress(sql, search_pos, thrown) ==
  [sql |-> sql, search_pos |-> search_pos, thrown |-> thrown]

replace_next_placeholder(done, value, no_backslash_escapes) ==
  LET pos == find_next_placeholder(done.sql, done.search_pos, no_backslash_escapes)
  IN  IF done.thrown \/ pos = npos
        THEN Progress(done.sql, done.search_pos, TRUE)
        ELSE Progress(Replaced(done.sql, pos, value), pos + Len(value), FALSE)

\* One argument after the other; a placeholder left over is an error as well.
format_query_args(sql, no_backslash_escapes, args) ==
  LET after[n \in 0..Len(args)] ==
        IF n = 0 THEN Progress(sql, 1, FALSE)
        ELSE replace_next_placeholder(after[n - 1],
               escape_mysql_string(args[n], no_backslash_escapes), no_backslash_escapes)
      all == after[Len(args)]
      left == find_next_placeholder(all.sql, all.search_pos, no_backslash_escapes)
  IN  IF all.thrown \/ left = npos THEN all
      ELSE Progress(all.sql, all.search_pos, TRUE)

\* Each `?' becomes $1, $2, ...
replace_postgresql_placeholders(sql) ==
  LET after[n \in 0..Len(sql)] ==
        IF n = 0 THEN Progress(sql, 1, FALSE)
        ELSE LET before == after[n - 1]
                 pos == find_next_postgresql_placeholder(before.sql, before.search_pos)
             IN  IF before.thrown \/ pos = npos
                   THEN Progress(before.sql, before.search_pos, TRUE)
                   ELSE Progress(Replaced(before.sql, pos, <<Parameter(n)>>), pos + 1, FALSE)
  IN  after[Len(sql)].sql

\* The first `?' from the beginning of the text, wherever it stands.
get_str(sql, value) ==
  LET pos == Least({i \in DOMAIN sql : sql[i] = "?"}, npos)
  IN  Replaced(sql, pos, value \o <<" ">>)

get_sql(sql, args) ==
  LET after[n \in 0..Len(args)] ==
        IF n = 0 THEN sql ELSE get_str(after[n - 1], escape_sql_string(args[n]))
  IN  after[Len(args)]

-----------------------------------------------------------------------------
(* How a server reads a text, character by character.                      *)

\* What it makes of it: words, values in quotes, names in quotes, placeholders.
Lexeme(kind, text) == [kind |-> kind, text |-> text]

Word(c) == Lexeme("word", <<c>>)
Value(text) == Lexeme("value", text)
Mark == Lexeme("mark", <<>>)

\* Where it is in the text, what it has read, and the characters of a lexeme
\* that has begun.
Reading(mode, read, open) == [mode |-> mode, read |-> read, open |-> open]

Blank == {" ", Newline}

\* Outside of everything.
InPlain(read, c, lang) ==
  CASE c = "'" -> Reading("value", read, <<>>)
    [] c = DoubleQuote -> Reading(IF IsMysql(lang) THEN "text" ELSE "name", read, <<>>)
    [] c = Backquote /\ lang # "postgresql" -> Reading("backquoted", read, <<>>)
    [] c = "-" -> Reading("dash", read, <<>>)
    [] c = "/" -> Reading("slash", read, <<>>)
    [] c = "#" /\ IsMysql(lang) -> Reading("line", read, <<>>)
    [] c = "?" -> Reading("plain", Append(read, Mark), <<>>)
    [] c \in Blank -> Reading("plain", read, <<>>)
    [] OTHER -> Reading("plain", Append(read, Word(c)), <<>>)

\* Two dashes begin a comment; in MySQL only before a blank.
AfterTwoDashes(read, c, lang) ==
  CASE c = Newline -> Reading("plain", read, <<>>)
    [] c \notin Blank /\ IsMysql(lang) -> InPlain(read \o <<Word("-"), Word("-")>>, c, lang)
    [] OTHER -> Reading("line", read, <<>>)

Closing == [value |-> "'", text |-> DoubleQuote, name |-> DoubleQuote, backquoted |-> Backquote]

\* The mode after a quote that may be doubled, and what the quotes enclose.
Doubled == [value |-> "value_end", text |-> "text_end", name |-> "name_end",
            backquoted |-> "backquoted_end"]

Ended == [value_end |-> "value", text_end |-> "text", name_end |-> "name",
          backquoted_end |-> "backquoted"]

KindOf == [value |-> "value", text |-> "value", name |-> "name", backquoted |-> "name"]

\* The mode after a backslash.
Escaped == [value |-> "value_escape", text |-> "text_escape"]

Resumed == [value_escape |-> "value", text_escape |-> "text"]

Within(s, mode, c, lang) ==
  IF c = Closing[mode] THEN Reading(Doubled[mode], s.read, s.open)
  ELSE IF c = Backslash /\ lang = "mysql" /\ mode \in DOMAIN Escaped
    THEN Reading(Escaped[mode], s.read, s.open)
  ELSE Reading(mode, s.read, Append(s.open, c))

AfterQuote(s, mode, c, lang) ==
  IF c = Closing[mode] THEN Reading(mode, s.read, Append(s.open, c))
  ELSE InPlain(Append(s.read, Lexeme(KindOf[mode], s.open)), c, lang)

Reads(s, c, lang) ==
  CASE s.mode = "plain" -> InPlain(s.read, c, lang)
    [] s.mode \in DOMAIN Closing -> Within(s, s.mode, c, lang)
    [] s.mode \in DOMAIN Ended -> AfterQuote(s, Ended[s.mode], c, lang)
    [] s.mode \in DOMAIN Resumed ->
         Reading(Resumed[s.mode], s.read, Append(s.open, IF c = "n" THEN Newline ELSE c))
    [] s.mode = "dash" ->
         IF c = "-" THEN Reading("two_dashes", s.read, <<>>)
         ELSE InPlain(Append(s.read, Word("-")), c, lang)
    [] s.mode = "two_dashes" -> AfterTwoDashes(s.read, c, lang)
    [] s.mode = "line" -> Reading(IF c = Newline THEN "plain" ELSE "line", s.read, <<>>)
    [] s.mode = "slash" ->
         IF c = "*" THEN Reading("comment", s.read, <<>>)
         ELSE InPlain(Append(s.read, Word("/")), c, lang)
    [] s.mode = "comment" -> Reading(IF c = "*" THEN "star" ELSE "comment", s.read, <<>>)
    [] s.mode = "star" ->
         Reading(CASE c = "/" -> "plain" [] c = "*" -> "star" [] OTHER -> "comment",
                 s.read, <<>>)

\* Where the server is when it has read the text, and it was at start before.
Runs(start, text, lang) ==
  LET after[n \in 0..Len(text)] ==
        IF n = 0 THEN start ELSE Reads(after[n - 1], text[n], lang)
  IN  after[Len(text)]

\* The text with a blank behind it, so that the last lexeme is complete.
ServerReads(sql, lang) == Runs(Reading("plain", <<>>, <<>>), Append(sql, Newline), lang)

\* Every quote and comment is closed.
Complete(sql, lang) == ServerReads(sql, lang).mode = "plain"

\* What a text says: its lexemes.
Says(sql, lang) == ServerReads(sql, lang).read

Marks(lexemes) == Cardinality({i \in DOMAIN lexemes : lexemes[i] = Mark})

\* The lexemes with the arguments in the place of the marks, in their order.
Filled(lexemes, args) ==
  [i \in DOMAIN lexemes |->
     IF lexemes[i] = Mark THEN Value(args[Marks(SubSeq(lexemes, 1, i))]) ELSE lexemes[i]]
===============================================================================
