------------------------- MODULE QueryBuilder_proofs -------------------------
(***************************************************************************)
(* Proofs about QueryBuilder and SqlText, for any texts, values and        *)
(* arguments, and any calls of the builders.                               *)
(*                                                                         *)
(* First what the operators of SqlText do with any text over an alphabet   *)
(* C: how a server reads it, where the driver finds its placeholders, and  *)
(* what the loops make of it that put arguments in their place.  Then the  *)
(* sequences of lexemes the builders write, which are read as they were    *)
(* written, so that the invariant of the builders can speak of these.      *)
(*                                                                         *)
(* The notions are defined in TextReading, the invariant in                *)
(* BuilderInvariant.                                                       *)
(***************************************************************************)
EXTENDS BuilderInvariant, FiniteSetTheorems, SequenceTheorems, TLAPS

-----------------------------------------------------------------------------
(* Induction                                                               *)

\* Of the intervals 1..n for the n of a set, one contains no other.
LEMMA LeastNumber ==
  ASSUME NEW S \in SUBSET Nat, S # {}
  PROVE  \E n \in S : \A m \in S : n <= m
<1>1. PICK T : T = {1..n : n \in S}
  OBVIOUS
<1>2. T \subseteq FiniteSubsetsOf(Nat) /\ T # {}
  <2>1. \A n \in S : IsFiniteSet(1..n) /\ 1..n \in SUBSET Nat
    BY FS_Interval
  <2>2. QED BY <1>1, <2>1 DEF FiniteSubsetsOf
<1>3. PICK x \in T : \A y \in T : ~(<<y, x>> \in StrictSubsetOrdering(Nat))
  <2>1. IsWellFoundedOn(StrictSubsetOrdering(Nat), FiniteSubsetsOf(Nat))
    BY FS_StrictSubsetOrderingWellFounded
  <2>2. QED BY <1>2, <2>1, WFMin, Zenon
<1>4. PICK n \in S : x = 1..n
  BY <1>1
<1>5. ASSUME NEW m \in S PROVE n <= m
  <2>1. SUFFICES ASSUME m < n PROVE FALSE
    OBVIOUS
  <2>2. n \in 1..n /\ n \notin 1..m /\ 1..m \subseteq 1..n
    BY <2>1
  <2>3. 1..m \in T
    BY <1>1
  <2>4. 1..m \in SUBSET Nat /\ 1..n \in SUBSET Nat
    OBVIOUS
  <2>5. <<1..m, x>> \in StrictSubsetOrdering(Nat)
    <3>1. 1..m # x /\ 1..m \subseteq x /\ x \in SUBSET Nat
      BY <2>2, <1>4, <2>4
    <3>2. QED BY <2>4, <3>1, Zenon DEF StrictSubsetOrdering
  <2>6. QED BY <1>3, <2>3, <2>5
<1>6. QED BY <1>5

LEMMA Induction ==
  ASSUME NEW S, 0 \in S, \A n \in S \cap Nat : n + 1 \in S
  PROVE  Nat \subseteq S
<1>1. SUFFICES ASSUME Nat \ S # {} PROVE FALSE
  OBVIOUS
<1>2. PICK n \in Nat \ S : \A m \in Nat \ S : n <= m
  BY <1>1, LeastNumber
<1>3. n # 0 /\ n - 1 \in Nat
  BY <1>2
<1>4. n - 1 \in S
  BY <1>2, <1>3
<1>5. n - 1 + 1 \in S
  BY <1>3, <1>4
<1>6. QED BY <1>2, <1>5

\* There is such a function.
LEMMA Recursion ==
  ASSUME NEW S, NEW e \in S, NEW N \in Nat, NEW step, IsStep(step, S, N)
  PROVE  \E f : Follows(f, S, e, N, step)
<1> USE DEF IsStep
<1>1. PICK A : A = {n \in Nat : n <= N => \E f \in [0..n -> S] :
                      f[0] = e /\ \A i \in 1..n : f[i] = step[<<f[i - 1], i>>]}
  OBVIOUS
<1>2. 0 \in A
  <2>1. PICK g : g = [i \in 0..0 |-> e]
    OBVIOUS
  <2>2. g \in [0..0 -> S] /\ g[0] = e /\ \A i \in 1..0 : g[i] = step[<<g[i - 1], i>>]
    BY <2>1
  <2>3. \E f \in [0..0 -> S] : f[0] = e /\ \A i \in 1..0 : f[i] = step[<<f[i - 1], i>>]
    BY <2>2
  <2>4. QED BY <1>1, <2>3
<1>3. ASSUME NEW n \in A \cap Nat PROVE n + 1 \in A
  <2>1. SUFFICES ASSUME n + 1 <= N
                 PROVE  \E f \in [0..n + 1 -> S] :
                          f[0] = e /\ \A i \in 1..n + 1 : f[i] = step[<<f[i - 1], i>>]
    BY <1>1
  <2>2. PICK f \in [0..n -> S] : f[0] = e /\ \A i \in 1..n : f[i] = step[<<f[i - 1], i>>]
    BY <1>1, <2>1
  <2>3. step[<<f[n], n + 1>>] \in S
    BY <2>1, <2>2
  <2>4. PICK g : g = [i \in 0..n + 1 |-> IF i = n + 1 THEN step[<<f[n], n + 1>>] ELSE f[i]]
    OBVIOUS
  <2>5. g \in [0..n + 1 -> S] /\ g[0] = e
    BY <2>2, <2>3, <2>4
  <2>6. ASSUME NEW i \in 1..n + 1 PROVE g[i] = step[<<g[i - 1], i>>]
    <3>1. CASE i = n + 1
      <4>1. i - 1 = n /\ n \in 0..n + 1 /\ n # n + 1 /\ n + 1 \in 0..n + 1
        BY <3>1
      <4>2. g[n] = f[n] /\ g[n + 1] = step[<<f[n], n + 1>>]
        BY <2>4, <4>1
      <4>3. QED BY <3>1, <4>1, <4>2
    <3>2. CASE i # n + 1
      <4>1. i \in 1..n /\ i - 1 \in 0..n /\ i - 1 # n + 1
        BY <3>2
      <4>2. g[i] = f[i] /\ g[i - 1] = f[i - 1]
        BY <2>4, <4>1
      <4>3. QED BY <2>2, <4>1, <4>2
    <3>3. QED BY <3>1, <3>2
  <2>7. QED BY <2>5, <2>6
<1>4. N \in A
  BY <1>2, <1>3, Induction
<1>5. QED BY <1>1, <1>4 DEF Follows

-----------------------------------------------------------------------------
(* What a server does with one character                                   *)

LEMMA Domains ==
  /\ DOMAIN Closing = Quotes /\ DOMAIN Ended = QuoteEnds
  /\ DOMAIN Resumed = Escapes /\ DOMAIN Escaped = {"value", "text"}
  BY DEF Closing, Ended, Resumed, Escaped, Quotes, QuoteEnds, Escapes

LEMMA ReadingIs ==
  ASSUME NEW m, NEW r, NEW o
  PROVE  Reading(m, r, o).mode = m /\ Reading(m, r, o).read = r /\ Reading(m, r, o).open = o
  BY DEF Reading

LEMMA ReadsPlain ==
  ASSUME NEW s, NEW c, NEW l, s.mode = "plain"
  PROVE  Reads(s, c, l) = InPlain(s.read, c, l)
  BY Domains DEF Reads, Quotes, QuoteEnds, Escapes

LEMMA ReadsQuoted ==
  ASSUME NEW s, NEW c, NEW l, s.mode \in Quotes
  PROVE  Reads(s, c, l) = Within(s, s.mode, c, l)
  BY Domains DEF Reads, Quotes, QuoteEnds, Escapes

LEMMA ReadsQuoteEnd ==
  ASSUME NEW s, NEW c, NEW l, s.mode \in QuoteEnds
  PROVE  Reads(s, c, l) = AfterQuote(s, Ended[s.mode], c, l)
  BY Domains DEF Reads, Quotes, QuoteEnds, Escapes

LEMMA ReadsEscape ==
  ASSUME NEW s, NEW c, NEW l, s.mode \in Escapes
  PROVE  Reads(s, c, l) =
           Reading(Resumed[s.mode], s.read, Append(s.open, IF c = "n" THEN Newline ELSE c))
  BY Domains DEF Reads, Quotes, QuoteEnds, Escapes

LEMMA ReadsDash ==
  ASSUME NEW s, NEW c, NEW l, s.mode = "dash"
  PROVE  Reads(s, c, l) = IF c = "-" THEN Reading("two_dashes", s.read, <<>>)
                          ELSE InPlain(Append(s.read, Word("-")), c, l)
  BY Domains DEF Reads, Quotes, QuoteEnds, Escapes

LEMMA ReadsTwoDashes ==
  ASSUME NEW s, NEW c, NEW l, s.mode = "two_dashes"
  PROVE  Reads(s, c, l) = AfterTwoDashes(s.read, c, l)
  BY Domains DEF Reads, Quotes, QuoteEnds, Escapes

LEMMA ReadsLine ==
  ASSUME NEW s, NEW c, NEW l, s.mode = "line"
  PROVE  Reads(s, c, l) = Reading(IF c = Newline THEN "plain" ELSE "line", s.read, <<>>)
  BY Domains DEF Reads, Quotes, QuoteEnds, Escapes

LEMMA ReadsSlash ==
  ASSUME NEW s, NEW c, NEW l, s.mode = "slash"
  PROVE  Reads(s, c, l) = IF c = "*" THEN Reading("comment", s.read, <<>>)
                          ELSE InPlain(Append(s.read, Word("/")), c, l)
  BY Domains DEF Reads, Quotes, QuoteEnds, Escapes

LEMMA ReadsComment ==
  ASSUME NEW s, NEW c, NEW l, s.mode = "comment"
  PROVE  Reads(s, c, l) = Reading(IF c = "*" THEN "star" ELSE "comment", s.read, <<>>)
  BY Domains DEF Reads, Quotes, QuoteEnds, Escapes

LEMMA ReadsStar ==
  ASSUME NEW s, NEW c, NEW l, s.mode = "star"
  PROVE  Reads(s, c, l) = Reading(CASE c = "/" -> "plain" [] c = "*" -> "star"
                                    [] OTHER -> "comment", s.read, <<>>)
  BY Domains DEF Reads, Quotes, QuoteEnds, Escapes

\* One by one, what the quotes mean.
LEMMA QuoteTable ==
  /\ Closing["value"] = "'" /\ Closing["text"] = DoubleQuote
  /\ Closing["name"] = DoubleQuote /\ Closing["backquoted"] = Backquote
  /\ Doubled["value"] = "value_end" /\ Doubled["text"] = "text_end"
  /\ Doubled["name"] = "name_end" /\ Doubled["backquoted"] = "backquoted_end"
  /\ Ended["value_end"] = "value" /\ Ended["text_end"] = "text"
  /\ Ended["name_end"] = "name" /\ Ended["backquoted_end"] = "backquoted"
  /\ KindOf["value"] = "value" /\ KindOf["text"] = "value"
  /\ KindOf["name"] = "name" /\ KindOf["backquoted"] = "name"
  /\ Escaped["value"] = "value_escape" /\ Escaped["text"] = "text_escape"
  /\ Resumed["value_escape"] = "value" /\ Resumed["text_escape"] = "text"
  BY DEF Closing, Doubled, Ended, KindOf, Escaped, Resumed

LEMMA AppendInduction ==
  ASSUME NEW X, NEW S, <<>> \in S,
         \A s \in S \cap Seq(X), x \in X : Append(s, x) \in S
  PROVE  Seq(X) \subseteq S
<1>1. PICK A : A = {n \in Nat : \A s \in Seq(X) : Len(s) = n => s \in S}
  OBVIOUS
<1>2. 0 \in A
  <2>1. \A s \in Seq(X) : Len(s) = 0 => s = <<>>
    BY EmptySeq
  <2>2. QED BY <1>1, <2>1
<1>3. ASSUME NEW n \in A \cap Nat PROVE n + 1 \in A
  <2>1. SUFFICES ASSUME NEW s \in Seq(X), Len(s) = n + 1 PROVE s \in S
    BY <1>1
  <2>2. s # <<>>
    BY <2>1, EmptySeq
  <2>3. PICK t \in Seq(X), x \in X : s = Append(t, x)
    BY <2>2, SequenceEmptyOrAppend
  <2>4. Len(t) = n
    BY <2>1, <2>3, AppendProperties, LenProperties
  <2>5. QED BY <1>1, <2>3, <2>4
<1>4. Nat \subseteq A
  BY <1>2, <1>3, Induction
<1>5. QED BY <1>1, <1>4, LenProperties

LEMMA OneIsSeq ==
  ASSUME NEW X, NEW x \in X
  PROVE  /\ <<x>> \in Seq(X) /\ Len(<<x>>) = 1 /\ <<x>>[1] = x
         /\ Append(<<>>, x) = <<x>>
<1>1. <<x>> \in Seq(X) /\ Len(<<x>>) = 1 /\ <<x>>[1] = x
  OBVIOUS
<1>2. Append(<<>>, x) = <<>> \o <<x>>
  BY EmptySeq, AppendIsConcat
<1>3. QED BY <1>1, <1>2, ConcatEmptySeq

-----------------------------------------------------------------------------
(* One character, in whatever mode                                         *)

LEMMA WordIs ==
  ASSUME NEW C, NEW c \in C
  PROVE  /\ Word(c) \in Lexemes(C) /\ Word(c) # Mark
         /\ Word(c).kind = "word" /\ Word(c).text = <<c>>
  BY OneIsSeq DEF Word, Lexeme, Lexemes, Mark

LEMMA MarkIs ==
  ASSUME NEW C
  PROVE  Mark \in Lexemes(C) /\ Mark.kind = "mark"
  BY EmptySeq DEF Mark, Lexeme, Lexemes

LEMMA LexemeIs ==
  ASSUME NEW C, NEW t \in Seq(C), NEW k \in {"word", "value", "name", "mark"}
  PROVE  /\ Lexeme(k, t) \in Lexemes(C) /\ Lexeme(k, t).kind = k /\ Lexeme(k, t).text = t
         /\ k # "mark" => Lexeme(k, t) # Mark
  BY DEF Mark, Lexeme, Lexemes

LEMMA StateIs ==
  ASSUME NEW C, NEW m \in Modes, NEW r \in Seq(Lexemes(C)), NEW o \in Seq(C)
  PROVE  Reading(m, r, o) \in States(C)
  BY DEF Reading, States

LEMMA StateParts ==
  ASSUME NEW C, NEW s \in States(C)
  PROVE  /\ s.mode \in Modes /\ s.read \in Seq(Lexemes(C)) /\ s.open \in Seq(C)
         /\ s = Reading(s.mode, s.read, s.open)
  BY DEF Reading, States

LEMMA InPlainCases ==
  ASSUME NEW c, NEW l, NEW r
  PROVE  /\ c = "'" => InPlain(r, c, l) = Reading("value", r, <<>>)
         /\ c = DoubleQuote => InPlain(r, c, l) =
              Reading(IF IsMysql(l) THEN "text" ELSE "name", r, <<>>)
         /\ c = Backquote /\ l # "postgresql" => InPlain(r, c, l) = Reading("backquoted", r, <<>>)
         /\ c = "-" => InPlain(r, c, l) = Reading("dash", r, <<>>)
         /\ c = "/" => InPlain(r, c, l) = Reading("slash", r, <<>>)
         /\ c = "#" /\ IsMysql(l) => InPlain(r, c, l) = Reading("line", r, <<>>)
         /\ c = "?" => InPlain(r, c, l) = Reading("plain", Append(r, Mark), <<>>)
         /\ c \in Blank => InPlain(r, c, l) = Reading("plain", r, <<>>)
         /\ c \notin {"'", DoubleQuote, "-", "/", "?"} /\ c \notin Blank
            /\ (c # Backquote \/ l = "postgresql") /\ (c # "#" \/ ~IsMysql(l))
              => InPlain(r, c, l) = Reading("plain", Append(r, Word(c)), <<>>)
  BY DEF InPlain, DoubleQuote, Backquote, Blank, Newline

\* A character outside of everything is a lexeme of its own, or only changes the mode.
LEMMA InPlainKinds ==
  ASSUME NEW c, NEW l
  PROVE  \/ c = "?" /\ \A r : InPlain(r, c, l) = Reading("plain", Append(r, Mark), <<>>)
         \/ c # "?" /\ c \notin Blank
              /\ \A r : InPlain(r, c, l) = Reading("plain", Append(r, Word(c)), <<>>)
         \/ \E m \in Modes : /\ c # "?" /\ (m = "plain" <=> c \in Blank)
                            /\ \A r : InPlain(r, c, l) = Reading(m, r, <<>>)
<1>1. CASE c = "'"
  <2>1. \A r : InPlain(r, c, l) = Reading("value", r, <<>>)
    BY <1>1, InPlainCases
  <2>2. QED BY <1>1, <2>1 DEF Modes, Quotes, Blank, Newline
<1>2. CASE c = DoubleQuote
  <2>1. PICK m \in {"text", "name"} : m = IF IsMysql(l) THEN "text" ELSE "name"
    OBVIOUS
  <2>2. \A r : InPlain(r, c, l) = Reading(m, r, <<>>)
    BY <1>2, <2>1, InPlainCases
  <2>3. QED BY <1>2, <2>2 DEF Modes, Quotes, Blank, Newline, DoubleQuote
<1>3. CASE c = Backquote /\ l # "postgresql"
  <2>1. \A r : InPlain(r, c, l) = Reading("backquoted", r, <<>>)
    BY <1>3, InPlainCases
  <2>2. QED BY <1>3, <2>1 DEF Modes, Quotes, Blank, Newline, Backquote
<1>4. CASE c = "-"
  <2>1. \A r : InPlain(r, c, l) = Reading("dash", r, <<>>)
    BY <1>4, InPlainCases
  <2>2. QED BY <1>4, <2>1 DEF Modes, Blank, Newline
<1>5. CASE c = "/"
  <2>1. \A r : InPlain(r, c, l) = Reading("slash", r, <<>>)
    BY <1>5, InPlainCases
  <2>2. QED BY <1>5, <2>1 DEF Modes, Blank, Newline
<1>6. CASE c = "#" /\ IsMysql(l)
  <2>1. \A r : InPlain(r, c, l) = Reading("line", r, <<>>)
    BY <1>6, InPlainCases
  <2>2. QED BY <1>6, <2>1 DEF Modes, Comments, Blank, Newline
<1>7. CASE c = "?"
  BY <1>7, InPlainCases
<1>8. CASE c \in Blank
  <2>1. \A r : InPlain(r, c, l) = Reading("plain", r, <<>>)
    BY <1>8, InPlainCases
  <2>2. QED BY <1>8, <2>1 DEF Modes, Blank, Newline
<1>9. CASE c \notin {"'", DoubleQuote, "-", "/", "?"} /\ c \notin Blank
           /\ (c # Backquote \/ l = "postgresql") /\ (c # "#" \/ ~IsMysql(l))
  BY <1>9, InPlainCases
<1>10. QED BY <1>1, <1>2, <1>3, <1>4, <1>5, <1>6, <1>7, <1>8, <1>9

LEMMA InPlainIs ==
  ASSUME NEW C, NEW r \in Seq(Lexemes(C)), NEW c \in C, NEW l
  PROVE  /\ InPlain(r, c, l) = Reading(PlainMode(c, l), r \o PlainEmits(c, l), <<>>)
         /\ PlainMode(c, l) \in Modes
         /\ PlainEmits(c, l) \in Seq(Lexemes(C))
         /\ PlainEmits(c, l) = IF c = "?" THEN <<Mark>>
                               ELSE IF PlainMode(c, l) = "plain" /\ c \notin Blank
                               THEN <<Word(c)>> ELSE <<>>
<1>1. PICK e : e = <<>>
  OBVIOUS
<1>2. /\ r \o e = r /\ e \in Seq(Lexemes(C))
      /\ Append(r, Mark) = r \o <<Mark>> /\ Append(r, Word(c)) = r \o <<Word(c)>>
      /\ Append(e, Mark) = <<Mark>> /\ Append(e, Word(c)) = <<Word(c)>>
      /\ <<Mark>> \in Seq(Lexemes(C)) /\ <<Word(c)>> \in Seq(Lexemes(C))
  BY <1>1, WordIs, MarkIs, OneIsSeq, AppendIsConcat, ConcatEmptySeq, EmptySeq
<1>3. PlainMode(c, l) = InPlain(e, c, l).mode /\ PlainEmits(c, l) = InPlain(e, c, l).read
  BY <1>1 DEF PlainMode, PlainEmits
<1>4. CASE c = "?" /\ \A x : InPlain(x, c, l) = Reading("plain", Append(x, Mark), <<>>)
  <2>1. InPlain(r, c, l) = Reading("plain", r \o <<Mark>>, <<>>)
        /\ InPlain(e, c, l) = Reading("plain", <<Mark>>, <<>>)
    BY <1>2, <1>4
  <2>2. PlainMode(c, l) = "plain" /\ PlainEmits(c, l) = <<Mark>>
    BY <1>3, <2>1, ReadingIs
  <2>3. QED BY <1>2, <1>4, <2>1, <2>2 DEF Modes
<1>5. CASE c # "?" /\ c \notin Blank
           /\ \A x : InPlain(x, c, l) = Reading("plain", Append(x, Word(c)), <<>>)
  <2>1. InPlain(r, c, l) = Reading("plain", r \o <<Word(c)>>, <<>>)
        /\ InPlain(e, c, l) = Reading("plain", <<Word(c)>>, <<>>)
    BY <1>2, <1>5
  <2>2. PlainMode(c, l) = "plain" /\ PlainEmits(c, l) = <<Word(c)>>
    BY <1>3, <2>1, ReadingIs
  <2>3. QED BY <1>2, <1>5, <2>1, <2>2 DEF Modes
<1>6. ASSUME NEW m \in Modes, c # "?", m = "plain" <=> c \in Blank,
             \A x : InPlain(x, c, l) = Reading(m, x, <<>>)
      PROVE  /\ InPlain(r, c, l) = Reading(PlainMode(c, l), r \o PlainEmits(c, l), <<>>)
             /\ PlainMode(c, l) = m /\ PlainEmits(c, l) = e
  <2>1. InPlain(r, c, l) = Reading(m, r, <<>>) /\ InPlain(e, c, l) = Reading(m, e, <<>>)
    BY <1>6
  <2>2. PlainMode(c, l) = m /\ PlainEmits(c, l) = e
    BY <1>3, <2>1, ReadingIs
  <2>3. QED BY <1>2, <2>1, <2>2
<1>7. CASE \E m \in Modes : /\ c # "?" /\ (m = "plain" <=> c \in Blank)
                          /\ \A x : InPlain(x, c, l) = Reading(m, x, <<>>)
  BY <1>1, <1>2, <1>6, <1>7
<1>8. QED BY <1>4, <1>5, <1>7, InPlainKinds

LEMMA NoMarkEmpty == NoMark(<<>>)
  BY DEF NoMark

LEMMA NoMarkOne ==
  ASSUME NEW C, NEW x \in Lexemes(C), x # Mark
  PROVE  <<x>> \in Seq(Lexemes(C)) /\ NoMark(<<x>>)
  BY OneIsSeq DEF NoMark

LEMMA NoMarkTwo ==
  ASSUME NEW C, NEW x \in Lexemes(C), x # Mark
  PROVE  <<x, x>> \in Seq(Lexemes(C)) /\ NoMark(<<x, x>>)
  BY DEF NoMark

LEMMA ReadsPlainKind ==
  ASSUME NEW C, NEW o \in Seq(C), NEW c \in C, NEW l
  PROVE  ReadsOuter("plain", o, c, l, C)
<1>1. Outer("plain", o, c, l, <<>>)
  <2>1. SUFFICES ASSUME NEW D, NEW r \in Seq(Lexemes(D))
                 PROVE  Reads(Reading("plain", r, o), c, l) = InPlain(r \o <<>>, c, l)
    BY DEF Outer
  <2>2. r \o <<>> = r
    BY ConcatEmptySeq
  <2>3. QED BY <2>2, ReadsPlain, ReadingIs
<1>2. <<>> \in Seq(Lexemes(C))
  BY EmptySeq
<1>3. QED BY <1>1, <1>2, NoMarkEmpty DEF ReadsOuter, Rests

LEMMA ReadsDashKind ==
  ASSUME NEW C, Alphabet(C), NEW o \in Seq(C), NEW c \in C, NEW l
  PROVE  ReadsOuter("dash", o, c, l, C) \/ ReadsInner("dash", o, c, l, C)
<1>1. CASE c = "-"
  <2>1. Inner("dash", o, c, l, "two_dashes", <<>>)
    BY <1>1, ReadsDash, ReadingIs DEF Inner
  <2>2. Origin("dash", c, "two_dashes")
    BY <1>1 DEF Origin
  <2>3. <<>> \in Seq(C) /\ "two_dashes" \in Modes
    BY EmptySeq DEF Modes
  <2>4. QED BY <1>1, <2>1, <2>2, <2>3 DEF ReadsInner
<1>2. CASE c # "-"
  <2>1. Outer("dash", o, c, l, <<Word("-")>>)
    <3>1. SUFFICES ASSUME NEW D, NEW r \in Seq(Lexemes(D)), <<Word("-")>> \in Seq(Lexemes(D))
                   PROVE  Reads(Reading("dash", r, o), c, l) = InPlain(r \o <<Word("-")>>, c, l)
      BY DEF Outer
    <3>2. Append(r, Word("-")) = r \o <<Word("-")>>
      <4>1. Word("-") \in Lexemes(D)
        BY <3>1
      <4>2. QED BY <4>1, AppendIsConcat
    <3>3. PICK s : s = Reading("dash", r, o)
      OBVIOUS
    <3>4. s.mode = "dash" /\ s.read = r
      BY <3>3, ReadingIs
    <3>5. Reads(s, c, l) = InPlain(Append(s.read, Word("-")), c, l)
      BY <1>2, <3>4, ReadsDash
    <3>6. QED BY <3>2, <3>3, <3>4, <3>5
  <2>2. <<Word("-")>> \in Seq(Lexemes(C)) /\ NoMark(<<Word("-")>>)
    BY WordIs, NoMarkOne DEF Alphabet
  <2>3. QED BY <2>1, <2>2 DEF ReadsOuter, Rests
<1>3. QED BY <1>1, <1>2

LEMMA ReadsSlashKind ==
  ASSUME NEW C, Alphabet(C), NEW o \in Seq(C), NEW c \in C, NEW l
  PROVE  ReadsOuter("slash", o, c, l, C) \/ ReadsInner("slash", o, c, l, C)
<1>1. CASE c = "*"
  <2>1. Inner("slash", o, c, l, "comment", <<>>)
    BY <1>1, ReadsSlash, ReadingIs DEF Inner
  <2>2. Origin("slash", c, "comment")
    BY <1>1 DEF Origin
  <2>3. <<>> \in Seq(C) /\ "comment" \in Modes
    BY EmptySeq DEF Modes, Comments
  <2>4. QED BY <1>1, <2>1, <2>2, <2>3 DEF ReadsInner
<1>2. CASE c # "*"
  <2>1. Outer("slash", o, c, l, <<Word("/")>>)
    <3>1. SUFFICES ASSUME NEW D, NEW r \in Seq(Lexemes(D)), <<Word("/")>> \in Seq(Lexemes(D))
                   PROVE  Reads(Reading("slash", r, o), c, l) = InPlain(r \o <<Word("/")>>, c, l)
      BY DEF Outer
    <3>2. Append(r, Word("/")) = r \o <<Word("/")>>
      <4>1. Word("/") \in Lexemes(D)
        BY <3>1
      <4>2. QED BY <4>1, AppendIsConcat
    <3>3. PICK s : s = Reading("slash", r, o)
      OBVIOUS
    <3>4. s.mode = "slash" /\ s.read = r
      BY <3>3, ReadingIs
    <3>5. Reads(s, c, l) = InPlain(Append(s.read, Word("/")), c, l)
      BY <1>2, <3>4, ReadsSlash
    <3>6. QED BY <3>2, <3>3, <3>4, <3>5
  <2>2. <<Word("/")>> \in Seq(Lexemes(C)) /\ NoMark(<<Word("/")>>)
    BY WordIs, NoMarkOne DEF Alphabet
  <2>3. QED BY <2>1, <2>2 DEF ReadsOuter, Rests
<1>3. QED BY <1>1, <1>2

LEMMA AfterTwoDashesCases ==
  ASSUME NEW r, NEW c, NEW l
  PROVE  /\ c = Newline => AfterTwoDashes(r, c, l) = Reading("plain", r, <<>>)
         /\ c \notin Blank /\ IsMysql(l) =>
              AfterTwoDashes(r, c, l) = InPlain(r \o <<Word("-"), Word("-")>>, c, l)
         /\ c # Newline /\ ~(c \notin Blank /\ IsMysql(l)) =>
              AfterTwoDashes(r, c, l) = Reading("line", r, <<>>)
  BY DEF AfterTwoDashes, Blank

LEMMA ReadsTwoDashesIs ==
  ASSUME NEW r, NEW o, NEW c, NEW l
  PROVE  Reads(Reading("two_dashes", r, o), c, l) = AfterTwoDashes(r, c, l)
  BY ReadsTwoDashes, ReadingIs

LEMMA ReadsTwoDashesKind ==
  ASSUME NEW C, Alphabet(C), NEW o \in Seq(C), NEW c \in C, NEW l
  PROVE  ReadsOuter("two_dashes", o, c, l, C) \/ ReadsInner("two_dashes", o, c, l, C)
<1>0. <<>> \in Seq(C) /\ "plain" \in Modes /\ "line" \in Modes
  BY EmptySeq DEF Modes, Comments
<1>1. CASE c = Newline
  <2>1. Inner("two_dashes", o, c, l, "plain", <<>>)
    <3>1. SUFFICES ASSUME NEW r
                   PROVE  Reads(Reading("two_dashes", r, o), c, l) = Reading("plain", r, <<>>)
      BY DEF Inner
    <3>2. AfterTwoDashes(r, c, l) = Reading("plain", r, <<>>)
      BY <1>1, AfterTwoDashesCases
    <3>3. QED BY <3>2, ReadsTwoDashesIs
  <2>2. Origin("two_dashes", c, "plain") /\ c # "?"
    BY <1>1 DEF Origin, Newline
  <2>3. QED BY <1>0, <2>1, <2>2 DEF ReadsInner
<1>2. CASE c \notin Blank /\ IsMysql(l)
  <2>1. Outer("two_dashes", o, c, l, <<Word("-"), Word("-")>>)
    <3>1. PICK w : w = <<Word("-"), Word("-")>>
      OBVIOUS
    <3>2. \A r : AfterTwoDashes(r, c, l) = InPlain(r \o w, c, l)
      BY <1>2, <3>1, AfterTwoDashesCases
    <3>3. \A r : Reads(Reading("two_dashes", r, o), c, l) = InPlain(r \o w, c, l)
      BY <3>2, ReadsTwoDashesIs
    <3>4. QED BY <3>1, <3>3 DEF Outer
  <2>2. <<Word("-"), Word("-")>> \in Seq(Lexemes(C)) /\ NoMark(<<Word("-"), Word("-")>>)
    BY WordIs, NoMarkTwo DEF Alphabet
  <2>3. QED BY <1>2, <2>1, <2>2 DEF ReadsOuter, Rests
<1>3. CASE c # Newline /\ ~(c \notin Blank /\ IsMysql(l))
  <2>1. Inner("two_dashes", o, c, l, "line", <<>>)
    <3>1. SUFFICES ASSUME NEW r
                   PROVE  Reads(Reading("two_dashes", r, o), c, l) = Reading("line", r, <<>>)
      BY DEF Inner
    <3>2. AfterTwoDashes(r, c, l) = Reading("line", r, <<>>)
      BY <1>3, AfterTwoDashesCases
    <3>3. QED BY <3>2, ReadsTwoDashesIs
  <2>2. Origin("two_dashes", c, "line")
    BY <1>1 DEF Origin
  <2>3. c = "?" => "two_dashes" \notin Rests(l)
    BY <1>3 DEF Rests, QuoteEnds, Blank, Newline
  <2>4. QED BY <1>0, <2>1, <2>2, <2>3 DEF ReadsInner
<1>4. QED BY <1>1, <1>2, <1>3

LEMMA ReadsCommentKind ==
  ASSUME NEW C, NEW o \in Seq(C), NEW c \in C, NEW l, NEW m \in Comments
  PROVE  ReadsInner(m, o, c, l, C)
<1>0. <<>> \in Seq(C) /\ {"plain", "line", "comment", "star"} \subseteq Modes
      /\ m \notin Rests(l)
  BY EmptySeq DEF Modes, Comments, Rests, QuoteEnds
<1>1. \E m2 \in {"plain", "line", "comment", "star"} : Inner(m, o, c, l, m2, <<>>)
  <2>1. CASE m = "line"
    BY <2>1, ReadsLine, ReadingIs DEF Inner
  <2>2. CASE m = "comment"
    BY <2>2, ReadsComment, ReadingIs DEF Inner
  <2>3. CASE m = "star"
    <3>1. PICK m2 \in {"plain", "comment", "star"} :
            m2 = (CASE c = "/" -> "plain" [] c = "*" -> "star" [] OTHER -> "comment")
      OBVIOUS
    <3>2. QED BY <2>3, <3>1, ReadsStar, ReadingIs DEF Inner
  <2>4. QED BY <2>1, <2>2, <2>3 DEF Comments
<1>2. \A m2 \in {"plain", "line", "comment", "star"} : Origin(m, c, m2)
  BY DEF Origin
<1>3. QED BY <1>0, <1>1, <1>2 DEF ReadsInner

LEMMA ReadsEscapeKind ==
  ASSUME NEW C, Alphabet(C), NEW o \in Seq(C), NEW c \in C, NEW l, NEW m \in Escapes
  PROVE  ReadsInner(m, o, c, l, C)
<1>1. PICK d \in C : d = IF c = "n" THEN Newline ELSE c
  BY DEF Alphabet
<1>2. Append(o, d) \in Seq(C) /\ m \notin Rests(l)
  BY AppendProperties DEF Rests, Escapes, QuoteEnds
<1>3. PICK m2 \in {"value", "text"} : m2 = Resumed[m]
  BY QuoteTable DEF Escapes
<1>4. Inner(m, o, c, l, m2, Append(o, d))
  BY <1>1, <1>3, ReadsEscape, ReadingIs DEF Inner
<1>5. Origin(m, c, m2) /\ m2 \in Modes
  BY DEF Origin, Modes, Quotes
<1>6. QED BY <1>2, <1>4, <1>5 DEF ReadsInner

LEMMA WithinCases ==
  ASSUME NEW r, NEW o, NEW c, NEW l, NEW m, NEW s, s = Reading(m, r, o)
  PROVE  /\ c = Closing[m] => Within(s, m, c, l) = Reading(Doubled[m], r, o)
         /\ c # Closing[m] /\ c = Backslash /\ l = "mysql" /\ m \in DOMAIN Escaped =>
              Within(s, m, c, l) = Reading(Escaped[m], r, o)
         /\ c # Closing[m] /\ ~(c = Backslash /\ l = "mysql" /\ m \in DOMAIN Escaped) =>
              Within(s, m, c, l) = Reading(m, r, Append(o, c))
<1>1. s.read = r /\ s.open = o
  BY ReadingIs
<1>2. QED BY <1>1 DEF Within

LEMMA ReadsQuotedKind ==
  ASSUME NEW C, NEW o \in Seq(C), NEW c \in C, NEW l, NEW m \in Quotes
  PROVE  ReadsInner(m, o, c, l, C)
<1>1. Append(o, c) \in Seq(C) /\ m \notin Rests(l)
  BY AppendProperties DEF Rests, Quotes, QuoteEnds
<1>2. \A r : Reads(Reading(m, r, o), c, l) = Within(Reading(m, r, o), m, c, l)
  BY ReadsQuoted, ReadingIs
<1>3. CASE c = Closing[m]
  <2>1. Inner(m, o, c, l, Doubled[m], o)
    BY <1>2, <1>3, WithinCases DEF Inner
  <2>2. Doubled[m] \in Modes /\ Origin(m, c, Doubled[m])
    BY <1>3, QuoteTable DEF Quotes, Modes, QuoteEnds, Origin
  <2>3. QED BY <1>1, <2>1, <2>2 DEF ReadsInner
<1>4. CASE c # Closing[m] /\ c = Backslash /\ l = "mysql" /\ m \in DOMAIN Escaped
  <2>1. Inner(m, o, c, l, Escaped[m], o)
    BY <1>2, <1>4, WithinCases DEF Inner
  <2>2. Escaped[m] \in Modes /\ Origin(m, c, Escaped[m])
    BY <1>4, QuoteTable, Domains DEF Modes, Escapes, Origin
  <2>3. QED BY <1>1, <2>1, <2>2 DEF ReadsInner
<1>5. CASE c # Closing[m] /\ ~(c = Backslash /\ l = "mysql" /\ m \in DOMAIN Escaped)
  <2>1. Inner(m, o, c, l, m, Append(o, c))
    BY <1>2, <1>5, WithinCases DEF Inner
  <2>2. m \in Modes /\ Origin(m, c, m)
    BY DEF Quotes, Modes, Origin
  <2>3. QED BY <1>1, <2>1, <2>2 DEF ReadsInner
<1>6. QED BY <1>3, <1>4, <1>5

LEMMA ReadsQuoteEndKind ==
  ASSUME NEW C, NEW o \in Seq(C), NEW c \in C, NEW l, NEW m \in QuoteEnds
  PROVE  ReadsOuter(m, o, c, l, C) \/ ReadsInner(m, o, c, l, C)
<1>1. PICK q \in Quotes : q = Ended[m]
  BY QuoteTable DEF Quotes, QuoteEnds
<1>2. \A r : Reads(Reading(m, r, o), c, l) = AfterQuote(Reading(m, r, o), q, c, l)
  BY <1>1, ReadsQuoteEnd, ReadingIs
<1>3. CASE c = Closing[q]
  <2>1. Inner(m, o, c, l, q, Append(o, c))
    BY <1>2, <1>3, ReadingIs DEF Inner, AfterQuote
  <2>2. Append(o, c) \in Seq(C) /\ q \in Modes /\ Origin(m, c, q)
    BY AppendProperties DEF Modes, Quotes, Origin
  <2>3. c # "?"
    BY <1>3, QuoteTable DEF Quotes, DoubleQuote, Backquote
  <2>4. QED BY <2>1, <2>2, <2>3 DEF ReadsInner
<1>4. CASE c # Closing[q]
  <2>1. KindOf[q] \in {"value", "name"}
    BY QuoteTable DEF Quotes
  <2>2. PICK x : x = Lexeme(KindOf[q], o)
    OBVIOUS
  <2>3. x \in Lexemes(C) /\ x # Mark
    BY <2>1, <2>2, LexemeIs
  <2>4. Outer(m, o, c, l, <<x>>)
    <3>1. SUFFICES ASSUME NEW D, NEW r \in Seq(Lexemes(D)), <<x>> \in Seq(Lexemes(D))
                   PROVE  Reads(Reading(m, r, o), c, l) = InPlain(r \o <<x>>, c, l)
      BY DEF Outer
    <3>2. Append(r, x) = r \o <<x>>
      <4>1. x \in Lexemes(D)
        BY <3>1
      <4>2. QED BY <4>1, AppendIsConcat
    <3>3. PICK s : s = Reading(m, r, o)
      OBVIOUS
    <3>4. s.read = r /\ s.open = o
      BY <3>3, ReadingIs
    <3>5. AfterQuote(s, q, c, l) = InPlain(Append(r, x), c, l)
      BY <1>4, <2>2, <3>4 DEF AfterQuote
    <3>6. QED BY <1>2, <3>2, <3>3, <3>5
  <2>5. m \in Rests(l)
    BY DEF Rests
  <2>6. QED BY <2>3, <2>4, <2>5, NoMarkOne DEF ReadsOuter
<1>5. QED BY <1>3, <1>4

LEMMA ReadsKinds ==
  ASSUME NEW C, Alphabet(C), NEW m \in Modes, NEW o \in Seq(C), NEW c \in C, NEW l
  PROVE  ReadsOuter(m, o, c, l, C) \/ ReadsInner(m, o, c, l, C)
  BY ReadsPlainKind, ReadsDashKind, ReadsSlashKind, ReadsTwoDashesKind, ReadsCommentKind,
     ReadsEscapeKind, ReadsQuotedKind, ReadsQuoteEndKind DEF Modes

\* What a server reads does not depend on what it has read before.
LEMMA ReadsIs ==
  ASSUME NEW C, Alphabet(C), NEW m \in Modes, NEW o \in Seq(C), NEW c \in C, NEW l
  PROVE  /\ Reads(At(m, o), c, l) \in States(C)
         /\ \A r \in Seq(Lexemes(C)) :
              Reads(Reading(m, r, o), c, l) = After(r, Reads(At(m, o), c, l))
<1>0. <<>> \in Seq(Lexemes(C)) /\ <<>> \in Seq(C)
  BY EmptySeq
<1>1. PICK t : t = Reads(At(m, o), c, l)
  OBVIOUS
<1>2. ASSUME NEW p \in Seq(Lexemes(C)), Outer(m, o, c, l, p)
      PROVE  t \in States(C) /\ \A r \in Seq(Lexemes(C)) :
               Reads(Reading(m, r, o), c, l) = After(r, t)
  <2>1. PICK pm \in Modes, pe \in Seq(Lexemes(C)) : pm = PlainMode(c, l) /\ pe = PlainEmits(c, l)
    BY <1>0, InPlainIs
  <2>2. \A r \in Seq(Lexemes(C)) : Reads(Reading(m, r, o), c, l) = Reading(pm, (r \o p) \o pe, <<>>)
    <3>1. SUFFICES ASSUME NEW r \in Seq(Lexemes(C))
                   PROVE  Reads(Reading(m, r, o), c, l) = Reading(pm, (r \o p) \o pe, <<>>)
      OBVIOUS
    <3>2. r \o p \in Seq(Lexemes(C))
      BY ConcatProperties
    <3>3. Reads(Reading(m, r, o), c, l) = InPlain(r \o p, c, l)
      BY <1>2 DEF Outer
    <3>4. PICK q \in Seq(Lexemes(C)) : q = r \o p
      BY <3>2
    <3>5. InPlain(q, c, l) = Reading(pm, q \o pe, <<>>)
      BY <2>1, InPlainIs
    <3>6. QED BY <3>3, <3>4, <3>5
  <2>3. t = Reading(pm, p \o pe, <<>>)
    BY <1>0, <1>1, <2>2, ConcatEmptySeq DEF At
  <2>4. p \o pe \in Seq(Lexemes(C))
    BY ConcatProperties
  <2>5. t.mode = pm /\ t.read = p \o pe /\ t.open = <<>>
    BY <2>3 DEF Reading
  <2>6. \A r \in Seq(Lexemes(C)) : (r \o p) \o pe = r \o (p \o pe)
    BY ConcatAssociative
  <2>7. QED BY <1>0, <2>2, <2>3, <2>4, <2>5, <2>6, StateIs DEF After
<1>3. ASSUME NEW m2 \in Modes, NEW o2 \in Seq(C), Inner(m, o, c, l, m2, o2)
      PROVE  t \in States(C) /\ \A r \in Seq(Lexemes(C)) :
               Reads(Reading(m, r, o), c, l) = After(r, t)
  <2>1. t = Reading(m2, <<>>, o2)
    BY <1>1, <1>3 DEF Inner, At
  <2>2. t.mode = m2 /\ t.read = <<>> /\ t.open = o2
    BY <2>1, ReadingIs
  <2>3. \A r \in Seq(Lexemes(C)) : r \o <<>> = r
    BY ConcatEmptySeq
  <2>4. QED BY <1>0, <1>3, <2>1, <2>2, <2>3, StateIs DEF After, Inner
<1>4. QED BY <1>1, <1>2, <1>3, ReadsKinds DEF ReadsOuter, ReadsInner

LEMMA ReadsType ==
  ASSUME NEW C, Alphabet(C), NEW s \in States(C), NEW c \in C, NEW l
  PROVE  Reads(s, c, l) \in States(C)
<1>1. PICK m \in Modes, r \in Seq(Lexemes(C)), o \in Seq(C) : s = Reading(m, r, o)
  BY StateParts
<1>2. PICK t \in States(C) : t = Reads(At(m, o), c, l)
  BY ReadsIs
<1>3. Reads(s, c, l) = After(r, t)
  BY <1>1, <1>2, ReadsIs
<1>4. r \o t.read \in Seq(Lexemes(C)) /\ t.mode \in Modes /\ t.open \in Seq(C)
  BY StateParts, ConcatProperties
<1>5. QED BY <1>3, <1>4, StateIs DEF After

-----------------------------------------------------------------------------
(* Reading a text                                                          *)

\* Reading a text goes character by character, through states of the server.
LEMMA RunsSteps ==
  ASSUME NEW C, Alphabet(C), NEW s \in States(C), NEW text \in Seq(C), NEW l
  PROVE  \E f \in [0..Len(text) -> States(C)] :
           Runner(f, s, text, l) /\ Runs(s, text, l) = f[Len(text)]
<1>1. Len(text) \in Nat /\ \A i \in 1..Len(text) : text[i] \in C
  BY LenProperties, ElementOfSeq
<1>2. PICK step : step = [p \in States(C) \X (1..Len(text)) |-> Reads(p[1], text[p[2]], l)]
  OBVIOUS
<1>3. step \in [States(C) \X (1..Len(text)) -> States(C)]
  <2>1. \A p \in States(C) \X (1..Len(text)) : Reads(p[1], text[p[2]], l) \in States(C)
    BY <1>1, ReadsType
  <2>2. QED BY <1>2, <2>1
<1>4. PICK S : S = States(C)
  OBVIOUS
<1>5. PICK f \in [0..Len(text) -> States(C)] :
        f[0] = s /\ \A i \in 1..Len(text) : f[i] = step[<<f[i - 1], i>>]
  <2>1. s \in S /\ IsStep(step, S, Len(text))
    BY <1>3, <1>4 DEF IsStep
  <2>2. \E f : Follows(f, S, s, Len(text), step)
    BY <1>1, <2>1, Recursion
  <2>3. QED BY <1>4, <2>2 DEF Follows
<1>6. Runner(f, s, text, l)
  <2>1. ASSUME NEW i \in 1..Len(text)
        PROVE  f[i] = Reads(f[i - 1], text[i], l)
    <3>1. i - 1 \in 0..Len(text)
      BY <1>1
    <3>2. <<f[i - 1], i>> \in States(C) \X (1..Len(text))
      BY <1>5, <3>1
    <3>3. QED BY <1>2, <1>5, <3>2
  <2>2. QED BY <1>5, <2>1 DEF Runner
<1>7. f = [n \in 0..Len(text) |-> IF n = 0 THEN s ELSE Reads(f[n - 1], text[n], l)]
  <2>1. ASSUME NEW n \in 0..Len(text)
        PROVE  f[n] = IF n = 0 THEN s ELSE Reads(f[n - 1], text[n], l)
    <3>1. n = 0 \/ n \in 1..Len(text)
      BY <1>1
    <3>2. QED BY <1>5, <1>6, <3>1 DEF Runner
  <2>2. QED BY <1>5, <2>1
<1> DEFINE after[n \in 0..Len(text)] == IF n = 0 THEN s ELSE Reads(after[n - 1], text[n], l)
<1>8. after = [n \in 0..Len(text) |-> IF n = 0 THEN s ELSE Reads(after[n - 1], text[n], l)]
  BY <1>7, Zenon
<1>9. Runs(s, text, l) = after[Len(text)]
  BY Zenon DEF Runs
<1> HIDE DEF after
<1>10. PICK A : A = {n \in Nat : n <= Len(text) => after[n] = f[n]}
  OBVIOUS
<1>11. 0 \in A
  BY <1>1, <1>5, <1>8, <1>10
<1>12. ASSUME NEW n \in A \cap Nat PROVE n + 1 \in A
  <2>1. SUFFICES ASSUME n + 1 <= Len(text) PROVE after[n + 1] = f[n + 1]
    BY <1>10
  <2>2. PICK m : m = n + 1
    OBVIOUS
  <2>3. m \in 0..Len(text) /\ m # 0 /\ m - 1 = n /\ m \in 1..Len(text)
    BY <1>1, <2>1, <2>2
  <2>4. after[n] = f[n]
    BY <1>1, <1>10, <2>1
  <2>5. after[m] = Reads(after[m - 1], text[m], l)
    BY <1>8, <2>3
  <2>6. f[m] = Reads(f[m - 1], text[m], l)
    BY <1>6, <2>3 DEF Runner
  <2>7. QED BY <2>2, <2>3, <2>4, <2>5, <2>6
<1>13. Nat \subseteq A
  BY <1>11, <1>12, Induction
<1>14. after[Len(text)] = f[Len(text)]
  BY <1>1, <1>10, <1>13
<1> QED
  BY <1>5, <1>6, <1>9, <1>14

LEMMA RunsType ==
  ASSUME NEW C, Alphabet(C), NEW s \in States(C), NEW text \in Seq(C), NEW l
  PROVE  Runs(s, text, l) \in States(C)
<1>1. PICK f \in [0..Len(text) -> States(C)] :
        Runner(f, s, text, l) /\ Runs(s, text, l) = f[Len(text)]
  BY RunsSteps
<1>2. Len(text) \in 0..Len(text)
  BY LenProperties
<1>3. QED BY <1>1, <1>2

\* Two readers that agree at the beginning and at each step agree at the end.
LEMMA RunnersAgree ==
  ASSUME NEW N \in Nat, NEW f, NEW g, Agree(f, g, N)
  PROVE  \A i \in 0..N : f[i] = g[i]
<1>1. PICK A : A = {n \in Nat : n <= N => f[n] = g[n]}
  OBVIOUS
<1>2. 0 \in A
  BY <1>1 DEF Agree
<1>3. ASSUME NEW n \in A \cap Nat PROVE n + 1 \in A
  <2>1. SUFFICES ASSUME n + 1 <= N PROVE f[n + 1] = g[n + 1]
    BY <1>1
  <2>2. PICK m : m = n + 1
    OBVIOUS
  <2>3. m \in 1..N /\ m - 1 = n /\ f[n] = g[n]
    BY <1>1, <2>1, <2>2
  <2>4. f[m] = g[m]
    BY <2>3 DEF Agree
  <2>5. QED BY <2>2, <2>4
<1>4. QED BY <1>1, <1>2, <1>3, Induction

LEMMA RunsEmpty ==
  ASSUME NEW C, Alphabet(C), NEW s \in States(C), NEW l
  PROVE  Runs(s, <<>>, l) = s
<1>1. <<>> \in Seq(C) /\ Len(<<>>) = 0
  BY EmptySeq
<1>2. PICK t \in Seq(C) : t = <<>>
  BY <1>1
<1>3. PICK f \in [0..Len(t) -> States(C)] : Runner(f, s, t, l) /\ Runs(s, t, l) = f[Len(t)]
  BY RunsSteps
<1>4. QED BY <1>1, <1>2, <1>3 DEF Runner

LEMMA RunsAppend ==
  ASSUME NEW C, Alphabet(C), NEW s \in States(C), NEW text \in Seq(C), NEW c \in C, NEW l
  PROVE  Runs(s, Append(text, c), l) = Reads(Runs(s, text, l), c, l)
<1>1. PICK more \in Seq(C) : more = Append(text, c)
  BY AppendProperties
<1>2. PICK f \in [0..Len(text) -> States(C)] :
        Runner(f, s, text, l) /\ Runs(s, text, l) = f[Len(text)]
  BY RunsSteps
<1>3. PICK g \in [0..Len(more) -> States(C)] :
        Runner(g, s, more, l) /\ Runs(s, more, l) = g[Len(more)]
  BY RunsSteps
<1>4. /\ Len(text) \in Nat /\ Len(more) = Len(text) + 1
      /\ \A i \in 1..Len(text) : more[i] = text[i]
      /\ more[Len(text) + 1] = c
  BY <1>1, LenProperties, AppendProperties
<1>5. \A i \in 0..Len(text) : f[i] = g[i]
  <2>1. f[0] = g[0]
    BY <1>2, <1>3 DEF Runner
  <2>2. ASSUME NEW i \in 1..Len(text), f[i - 1] = g[i - 1] PROVE f[i] = g[i]
    <3>1. i \in 1..Len(more) /\ more[i] = text[i]
      BY <1>4
    <3>2. f[i] = Reads(f[i - 1], text[i], l) /\ g[i] = Reads(g[i - 1], more[i], l)
      BY <1>2, <1>3, <3>1 DEF Runner
    <3>3. QED BY <2>2, <3>1, <3>2
  <2>3. Agree(f, g, Len(text))
    BY <2>1, <2>2 DEF Agree
  <2>4. QED BY <1>4, <2>3, RunnersAgree
<1>6. PICK n : n = Len(text) + 1
  OBVIOUS
<1>7. n \in 1..Len(more) /\ n - 1 = Len(text) /\ more[n] = c /\ Len(more) = n
  BY <1>4, <1>6
<1>8. g[n] = Reads(g[n - 1], more[n], l)
  BY <1>3, <1>7 DEF Runner
<1>9. g[Len(text)] = f[Len(text)]
  BY <1>4, <1>5
<1>10. QED BY <1>1, <1>2, <1>3, <1>7, <1>8, <1>9

LEMMA ConcatAppend ==
  ASSUME NEW X, NEW s \in Seq(X), NEW t \in Seq(X), NEW x \in X
  PROVE  s \o Append(t, x) = Append(s \o t, x)
<1>1. <<x>> \in Seq(X) /\ s \o t \in Seq(X)
  BY OneIsSeq, ConcatProperties
<1>2. Append(t, x) = t \o <<x>> /\ Append(s \o t, x) = (s \o t) \o <<x>>
  BY <1>1, AppendIsConcat
<1>3. (s \o t) \o <<x>> = s \o (t \o <<x>>)
  BY <1>1, ConcatAssociative
<1>4. QED BY <1>2, <1>3

\* A text is read piece by piece.
LEMMA RunsConcat ==
  ASSUME NEW C, Alphabet(C), NEW s \in States(C), NEW t \in Seq(C), NEW u \in Seq(C), NEW l
  PROVE  Runs(s, t \o u, l) = Runs(Runs(s, t, l), u, l)
<1>1. PICK S : S = {v \in Seq(C) : Runs(s, t \o v, l) = Runs(Runs(s, t, l), v, l)}
  OBVIOUS
<1>2. PICK q \in States(C) : q = Runs(s, t, l)
  BY RunsType
<1>3. <<>> \in S
  <2>1. t \o <<>> = t /\ <<>> \in Seq(C)
    BY ConcatEmptySeq, EmptySeq
  <2>2. Runs(q, <<>>, l) = q
    BY RunsEmpty
  <2>3. QED BY <1>1, <1>2, <2>1, <2>2
<1>4. ASSUME NEW v \in S \cap Seq(C), NEW c \in C PROVE Append(v, c) \in S
  <2>1. PICK w \in Seq(C) : w = t \o v
    BY ConcatProperties
  <2>2. t \o Append(v, c) = Append(w, c)
    BY <2>1, ConcatAppend
  <2>3. Runs(s, Append(w, c), l) = Reads(Runs(s, w, l), c, l)
    BY RunsAppend
  <2>4. Runs(q, Append(v, c), l) = Reads(Runs(q, v, l), c, l)
    BY RunsAppend
  <2>5. Runs(s, w, l) = Runs(q, v, l)
    BY <1>1, <1>2, <2>1
  <2>6. Append(v, c) \in Seq(C)
    BY AppendProperties
  <2>7. QED BY <1>1, <1>2, <2>2, <2>3, <2>4, <2>5, <2>6
<1>5. Seq(C) \subseteq S
  BY <1>3, <1>4, AppendInduction
<1>6. QED BY <1>1, <1>5

LEMMA RunsOne ==
  ASSUME NEW C, Alphabet(C), NEW s \in States(C), NEW c \in C, NEW l
  PROVE  Runs(s, <<c>>, l) = Reads(s, c, l)
<1>1. Append(<<>>, c) = <<c>>
  BY OneIsSeq
<1>2. PICK e \in Seq(C) : e = <<>>
  BY EmptySeq
<1>3. Runs(s, Append(e, c), l) = Reads(Runs(s, e, l), c, l)
  BY RunsAppend
<1>4. Runs(s, e, l) = s
  BY <1>2, RunsEmpty
<1>5. QED BY <1>1, <1>2, <1>3, <1>4

LEMMA AfterIs ==
  ASSUME NEW C, NEW r \in Seq(Lexemes(C)), NEW t \in States(C)
  PROVE  /\ After(r, t) \in States(C) /\ After(r, t).mode = t.mode
         /\ After(r, t).open = t.open /\ After(r, t).read = r \o t.read
         /\ r \o t.read \in Seq(Lexemes(C))
<1>1. r \o t.read \in Seq(Lexemes(C)) /\ t.mode \in Modes /\ t.open \in Seq(C)
  BY StateParts, ConcatProperties
<1>2. QED BY <1>1, StateIs DEF After, Reading

\* What was read before comes first.
LEMMA AfterAfter ==
  ASSUME NEW C, NEW r \in Seq(Lexemes(C)), NEW q \in Seq(Lexemes(C)), NEW t \in States(C)
  PROVE  After(r, After(q, t)) = After(r \o q, t)
<1>1. t.read \in Seq(Lexemes(C))
  BY StateParts
<1>2. (r \o q) \o t.read = r \o (q \o t.read)
  <2>1. PICK x \in Seq(Lexemes(C)) : x = t.read
    BY <1>1
  <2>2. (r \o q) \o x = r \o (q \o x)
    BY ConcatAssociative
  <2>3. QED BY <2>1, <2>2
<1>3. PICK z : z = After(q, t)
  OBVIOUS
<1>4. z.mode = t.mode /\ z.open = t.open /\ z.read = q \o t.read
  BY <1>3, AfterIs
<1>5. After(r, z) = Reading(t.mode, r \o (q \o t.read), t.open)
  BY <1>4 DEF After
<1>6. QED BY <1>2, <1>3, <1>5 DEF After

LEMMA AtIs ==
  ASSUME NEW C, NEW m \in Modes, NEW o \in Seq(C)
  PROVE  At(m, o) \in States(C) /\ At(m, o).mode = m /\ At(m, o).read = <<>> /\ At(m, o).open = o
  BY StateIs, EmptySeq DEF At, Reading

\* How a text is read does not depend on what was read before it.
LEMMA RunsShift ==
  ASSUME NEW C, Alphabet(C), NEW m \in Modes, NEW o \in Seq(C), NEW r \in Seq(Lexemes(C)),
         NEW text \in Seq(C), NEW l
  PROVE  Runs(Reading(m, r, o), text, l) = After(r, Runs(At(m, o), text, l))
<1>1. PICK s \in States(C) : s = Reading(m, r, o)
  BY StateIs
<1>2. PICK a \in States(C) : a = At(m, o)
  BY AtIs
<1>3. PICK S : S = {v \in Seq(C) : Runs(s, v, l) = After(r, Runs(a, v, l))}
  OBVIOUS
<1>4. <<>> \in S
  <2>1. Runs(s, <<>>, l) = s /\ Runs(a, <<>>, l) = a
    BY RunsEmpty
  <2>2. a.mode = m /\ a.read = <<>> /\ a.open = o
    BY <1>2, AtIs
  <2>3. r \o <<>> = r
    BY ConcatEmptySeq
  <2>4. After(r, a) = s
    BY <1>1, <2>2, <2>3 DEF After
  <2>5. QED BY <1>3, <2>1, <2>4, EmptySeq
<1>5. ASSUME NEW v \in S \cap Seq(C), NEW c \in C PROVE Append(v, c) \in S
  <2>1. PICK x \in States(C) : x = Runs(a, v, l)
    BY RunsType
  <2>2. PICK xm \in Modes, xr \in Seq(Lexemes(C)), xo \in Seq(C) :
          x = Reading(xm, xr, xo) /\ xm = x.mode /\ xr = x.read /\ xo = x.open
    BY StateParts
  <2>3. PICK y \in States(C) : y = Reads(At(xm, xo), c, l)
    BY ReadsIs
  <2>4. PICK q \in Seq(Lexemes(C)) : q = r \o xr
    BY ConcatProperties
  <2>5. Runs(s, v, l) = Reading(xm, q, xo)
    BY <1>3, <2>1, <2>2, <2>4 DEF After
  <2>6. \A z \in Seq(Lexemes(C)) : Reads(Reading(xm, z, xo), c, l) = After(z, y)
    BY <2>3, ReadsIs
  <2>7. Reads(x, c, l) = After(xr, y)
    BY <2>2, <2>6
  <2>8. After(r, After(xr, y)) = After(q, y)
    BY <2>4, AfterAfter
  <2>9. Runs(s, Append(v, c), l) = Reads(Runs(s, v, l), c, l)
        /\ Runs(a, Append(v, c), l) = Reads(x, c, l)
    BY <2>1, RunsAppend
  <2>10. Append(v, c) \in Seq(C)
    BY AppendProperties
  <2>11. QED BY <1>3, <2>5, <2>6, <2>7, <2>8, <2>9, <2>10
<1>6. Seq(C) \subseteq S
  BY <1>4, <1>5, AppendInduction
<1>7. QED BY <1>1, <1>2, <1>3, <1>6

-----------------------------------------------------------------------------
(* Joined                                                                  *)

LEMMA JoinedSteps ==
  ASSUME NEW Y, NEW texts \in Seq(Seq(Y))
  PROVE  \E f \in [0..Len(texts) -> Seq(Y)] :
           Joins(f, texts) /\ Joined(texts) = f[Len(texts)]
<1>1. Len(texts) \in Nat /\ \A i \in 1..Len(texts) : texts[i] \in Seq(Y)
  BY LenProperties, ElementOfSeq
<1>2. PICK step : step = [p \in Seq(Y) \X (1..Len(texts)) |-> p[1] \o texts[p[2]]]
  OBVIOUS
<1>3. step \in [Seq(Y) \X (1..Len(texts)) -> Seq(Y)]
  <2>1. \A p \in Seq(Y) \X (1..Len(texts)) : p[1] \o texts[p[2]] \in Seq(Y)
    BY <1>1, ConcatProperties
  <2>2. QED BY <1>2, <2>1
<1>4. PICK S : S = Seq(Y)
  OBVIOUS
<1>5. PICK f \in [0..Len(texts) -> Seq(Y)] :
        f[0] = <<>> /\ \A i \in 1..Len(texts) : f[i] = step[<<f[i - 1], i>>]
  <2>1. <<>> \in S /\ IsStep(step, S, Len(texts))
    BY <1>3, <1>4, EmptySeq DEF IsStep
  <2>2. \E f : Follows(f, S, <<>>, Len(texts), step)
    BY <1>1, <2>1, Recursion
  <2>3. QED BY <1>4, <2>2 DEF Follows
<1>6. Joins(f, texts)
  <2>1. ASSUME NEW i \in 1..Len(texts)
        PROVE  f[i] = f[i - 1] \o texts[i]
    <3>1. i - 1 \in 0..Len(texts)
      BY <1>1
    <3>2. <<f[i - 1], i>> \in Seq(Y) \X (1..Len(texts))
      BY <1>5, <3>1
    <3>3. QED BY <1>2, <1>5, <3>2
  <2>2. QED BY <1>5, <2>1 DEF Joins
<1>7. f = [n \in 0..Len(texts) |-> IF n = 0 THEN <<>> ELSE f[n - 1] \o texts[n]]
  <2>1. ASSUME NEW n \in 0..Len(texts)
        PROVE  f[n] = IF n = 0 THEN <<>> ELSE f[n - 1] \o texts[n]
    <3>1. n = 0 \/ n \in 1..Len(texts)
      BY <1>1
    <3>2. QED BY <1>5, <1>6, <3>1 DEF Joins
  <2>2. QED BY <1>5, <2>1
<1> DEFINE upto[n \in 0..Len(texts)] == IF n = 0 THEN <<>> ELSE upto[n - 1] \o texts[n]
<1>8. upto = [n \in 0..Len(texts) |-> IF n = 0 THEN <<>> ELSE upto[n - 1] \o texts[n]]
  BY <1>7, Zenon
<1>9. Joined(texts) = upto[Len(texts)]
  BY Zenon DEF Joined
<1> HIDE DEF upto
<1>10. Agree(upto, f, Len(texts))
  <2>1. upto[0] = f[0]
    BY <1>1, <1>5, <1>8
  <2>2. ASSUME NEW i \in 1..Len(texts), upto[i - 1] = f[i - 1] PROVE upto[i] = f[i]
    <3>1. i \in 0..Len(texts) /\ i # 0
      BY <1>1
    <3>2. upto[i] = upto[i - 1] \o texts[i]
      BY <1>8, <3>1
    <3>3. f[i] = f[i - 1] \o texts[i]
      BY <1>6 DEF Joins
    <3>4. QED BY <2>2, <3>2, <3>3
  <2>3. QED BY <2>1, <2>2 DEF Agree
<1>11. upto[Len(texts)] = f[Len(texts)]
  BY <1>1, <1>10, RunnersAgree
<1> QED
  BY <1>5, <1>6, <1>9, <1>11

LEMMA JoinedType ==
  ASSUME NEW Y, NEW texts \in Seq(Seq(Y))
  PROVE  Joined(texts) \in Seq(Y)
<1>1. PICK f \in [0..Len(texts) -> Seq(Y)] :
        Joins(f, texts) /\ Joined(texts) = f[Len(texts)]
  BY JoinedSteps
<1>2. Len(texts) \in 0..Len(texts)
  BY LenProperties
<1>3. QED BY <1>1, <1>2

LEMMA JoinedEmpty == Joined(<<>>) = <<>>
<1>1. PICK Y : Y = {}
  OBVIOUS
<1>2. PICK t \in Seq(Seq(Y)) : t = <<>> /\ Len(t) = 0
  BY EmptySeq
<1>3. PICK f \in [0..Len(t) -> Seq(Y)] : Joins(f, t) /\ Joined(t) = f[Len(t)]
  BY JoinedSteps
<1>4. QED BY <1>2, <1>3 DEF Joins

LEMMA JoinedAppend ==
  ASSUME NEW Y, NEW texts \in Seq(Seq(Y)), NEW t \in Seq(Y)
  PROVE  Joined(Append(texts, t)) = Joined(texts) \o t
<1>1. PICK more \in Seq(Seq(Y)) : more = Append(texts, t)
  BY AppendProperties
<1>2. PICK f \in [0..Len(texts) -> Seq(Y)] : Joins(f, texts) /\ Joined(texts) = f[Len(texts)]
  BY JoinedSteps
<1>3. PICK g \in [0..Len(more) -> Seq(Y)] : Joins(g, more) /\ Joined(more) = g[Len(more)]
  BY JoinedSteps
<1>4. /\ Len(texts) \in Nat /\ Len(more) = Len(texts) + 1
      /\ \A i \in 1..Len(texts) : more[i] = texts[i]
      /\ more[Len(texts) + 1] = t
  BY <1>1, LenProperties, AppendProperties
<1>5. Agree(f, g, Len(texts))
  <2>1. f[0] = g[0]
    BY <1>2, <1>3 DEF Joins
  <2>2. ASSUME NEW i \in 1..Len(texts), f[i - 1] = g[i - 1] PROVE f[i] = g[i]
    <3>1. i \in 1..Len(more) /\ more[i] = texts[i]
      BY <1>4
    <3>2. f[i] = f[i - 1] \o texts[i] /\ g[i] = g[i - 1] \o more[i]
      BY <1>2, <1>3, <3>1 DEF Joins
    <3>3. QED BY <2>2, <3>1, <3>2
  <2>3. QED BY <2>1, <2>2 DEF Agree
<1>6. g[Len(texts)] = f[Len(texts)]
  <2>1. \A i \in 0..Len(texts) : f[i] = g[i]
    <3>1. Len(texts) \in Nat
      BY <1>4
    <3>2. QED BY <1>5, <3>1, RunnersAgree
  <2>2. Len(texts) \in 0..Len(texts)
    BY <1>4
  <2>3. QED BY <2>1, <2>2
<1>7. PICK n : n = Len(texts) + 1
  OBVIOUS
<1>8. n \in 1..Len(more) /\ n - 1 = Len(texts) /\ more[n] = t /\ Len(more) = n
  BY <1>4, <1>7
<1>9. g[n] = g[n - 1] \o more[n]
  BY <1>3, <1>8 DEF Joins
<1>10. QED BY <1>1, <1>2, <1>3, <1>6, <1>8, <1>9

LEMMA SpeltPieces ==
  ASSUME NEW X, NEW Y, NEW f \in [X -> Y], NEW v \in Seq(X)
  PROVE  [i \in DOMAIN v |-> f[v[i]]] \in Seq(Y)
<1>1. DOMAIN v = 1..Len(v) /\ Len(v) \in Nat /\ \A i \in 1..Len(v) : v[i] \in X
  BY LenProperties, ElementOfSeq
<1>2. QED BY <1>1

LEMMA SpeltType ==
  ASSUME NEW X, NEW Y, NEW f \in [X -> Seq(Y)], NEW v \in Seq(X)
  PROVE  Spelt(f, v) \in Seq(Y)
<1>1. [i \in DOMAIN v |-> f[v[i]]] \in Seq(Seq(Y))
  BY SpeltPieces, Zenon
<1>2. QED BY <1>1, JoinedType, Zenon DEF Spelt

LEMMA SpeltEmpty ==
  ASSUME NEW f
  PROVE  Spelt(f, <<>>) = <<>>
<1>1. PICK e : e = <<>>
  OBVIOUS
<1>2. DOMAIN e = {}
  BY <1>1
<1>3. [i \in DOMAIN e |-> f[e[i]]] = <<>>
  BY <1>2
<1>4. QED BY <1>1, <1>3, JoinedEmpty DEF Spelt

LEMMA SpeltAppend ==
  ASSUME NEW X, NEW Y, NEW f \in [X -> Seq(Y)], NEW v \in Seq(X), NEW x \in X
  PROVE  Spelt(f, Append(v, x)) = Spelt(f, v) \o f[x]
<1>1. PICK w \in Seq(X) : w = Append(v, x)
  BY AppendProperties
<1>2. PICK tv \in Seq(Seq(Y)), tw \in Seq(Seq(Y)) :
        tv = [i \in DOMAIN v |-> f[v[i]]] /\ tw = [i \in DOMAIN w |-> f[w[i]]]
  <2>1. [i \in DOMAIN v |-> f[v[i]]] \in Seq(Seq(Y))
    BY SpeltPieces, Zenon
  <2>2. [i \in DOMAIN w |-> f[w[i]]] \in Seq(Seq(Y))
    BY SpeltPieces, Zenon
  <2>3. QED BY <2>1, <2>2
<1>3. /\ DOMAIN v = 1..Len(v) /\ Len(v) \in Nat /\ \A i \in 1..Len(v) : v[i] \in X
      /\ DOMAIN w = 1..Len(w) /\ Len(w) = Len(v) + 1
      /\ \A i \in 1..Len(v) : w[i] = v[i]
      /\ w[Len(v) + 1] = x
  BY <1>1, LenProperties, ElementOfSeq, AppendProperties
<1>4. Len(tv) = Len(v) /\ Len(tw) = Len(v) + 1
  <2>1. DOMAIN tv = 1..Len(v) /\ DOMAIN tw = 1..Len(v) + 1
    BY <1>2, <1>3
  <2>2. DOMAIN tv = 1..Len(tv) /\ DOMAIN tw = 1..Len(tw) /\ Len(tv) \in Nat /\ Len(tw) \in Nat
    BY LenProperties
  <2>3. QED BY <1>3, <2>1, <2>2
<1>5. f[x] \in Seq(Y)
  OBVIOUS
<1>6. PICK ta \in Seq(Seq(Y)) : ta = Append(tv, f[x])
  BY <1>5, AppendProperties
<1>7. /\ Len(ta) = Len(v) + 1 /\ \A i \in 1..Len(v) : ta[i] = tv[i]
      /\ ta[Len(v) + 1] = f[x]
  BY <1>4, <1>5, <1>6, AppendProperties
<1>8. ASSUME NEW i \in 1..Len(tw) PROVE tw[i] = ta[i]
  <2>1. i \in DOMAIN w
    BY <1>3, <1>4
  <2>2. tw[i] = f[w[i]]
    BY <1>2, <2>1
  <2>3. CASE i = Len(v) + 1
    BY <1>3, <1>7, <2>2, <2>3
  <2>4. CASE i # Len(v) + 1
    <3>1. i \in 1..Len(v)
      BY <1>3, <1>4, <2>4
    <3>2. tv[i] = f[v[i]]
      BY <1>2, <1>3, <3>1
    <3>3. QED BY <1>3, <1>7, <2>2, <3>1, <3>2
  <2>5. QED BY <2>3, <2>4
<1>9. tw = ta
  BY <1>4, <1>7, <1>8, SeqEqual
<1>10. Joined(ta) = Joined(tv) \o f[x]
  BY <1>5, <1>6, JoinedAppend
<1>11. QED BY <1>1, <1>2, <1>9, <1>10 DEF Spelt

-----------------------------------------------------------------------------
(* The types                                                               *)

LEMMA OffersIs ==
  /\ DOMAIN Offers = {"select", "join", "where", "groupby", "having", "orderby", "limit",
                      "offset", "update", "set", "update_where", "delete", "delete_where"}
  /\ \A stage \in DOMAIN Offers : \A clause \in Offers[stage] :
       clause \in Clauses /\ Returned(stage, clause) \in DOMAIN Offers
  /\ \A b \in DOMAIN Roots : Roots[b] \subseteq DOMAIN Offers
<1>1. DOMAIN Offers = {"select", "join", "where", "groupby", "having", "orderby", "limit",
                    "offset", "update", "set", "update_where", "delete", "delete_where"}
  BY DEF Offers
<1>2. ASSUME NEW stage \in DOMAIN Offers, NEW clause \in Offers[stage]
      PROVE  clause \in Clauses /\ Returned(stage, clause) \in DOMAIN Offers
  <2>1. Offers[stage] \subseteq Clauses
    <3>1. /\ Offers["select"] \subseteq Clauses /\ Offers["join"] \subseteq Clauses
          /\ Offers["where"] \subseteq Clauses /\ Offers["groupby"] \subseteq Clauses
          /\ Offers["having"] \subseteq Clauses /\ Offers["orderby"] \subseteq Clauses
          /\ Offers["limit"] \subseteq Clauses /\ Offers["offset"] \subseteq Clauses
          /\ Offers["update"] \subseteq Clauses /\ Offers["set"] \subseteq Clauses
          /\ Offers["update_where"] \subseteq Clauses /\ Offers["delete"] \subseteq Clauses
          /\ Offers["delete_where"] \subseteq Clauses
      BY DEF Offers, Clauses
    <3>2. QED BY <1>1, <3>1
  <2>2. clause \in {"set", "join", "where", "having", "limit", "offset"} =>
          Returned(stage, clause) \in DOMAIN Offers
    BY <1>1 DEF Returned
  <2>3. clause \in {"group by", "order by"} => Returned(stage, clause) \in DOMAIN Offers
    BY <1>1 DEF Returned
  <2>4. QED BY <2>1, <2>2, <2>3 DEF Clauses
<1>3. \A b \in DOMAIN Roots : Roots[b] \subseteq DOMAIN Offers
  BY <1>1 DEF Roots
<1>4. QED BY <1>1, <1>2, <1>3

LEMMA TwoOfThem ==
  ASSUME NEW X, NEW x \in X, NEW y \in X
  PROVE  <<x, y>> \in Seq(X)
  OBVIOUS

\* What the calls of a builder are given is made of operands.
LEMMA OperandsIs ==
  ASSUME NEW clause, NEW operands \in Operands(clause)
  PROVE  operands \in Seq(Operand)
<1>1. Mark \in Operand /\ \A c \in {"a", "b", "and", "1", "NULL"} : Word(c) \in Operand
  BY DEF Operand
<1>2. \A v \in Values : Value(v) \in Operand
  BY DEF Operand
<1>3. ASSUME operands \in Conditions PROVE operands \in Seq(Operand)
  <2>1. CASE \E operand \in {Mark} \cup {Value(v) : v \in Values} :
               operands = <<Plain("a"), operand>>
    BY <1>1, <1>2, <2>1 DEF Plain
  <2>2. CASE \E v \in Values :
               operands = <<Plain("a"), Value(v), Plain("and"), Plain("b"), Mark>>
    BY <1>1, <1>2, <2>2 DEF Plain
  <2>3. QED BY <1>3, <2>1, <2>2 DEF Conditions
<1>4. CASE clause \in {"where", "having"}
  BY <1>3, <1>4 DEF Operands
<1>5. CASE clause \in {"limit", "offset"}
  <2>1. operands = <<Plain("1")>> \/ operands = <<Mark>>
    BY <1>5 DEF Operands
  <2>2. Plain("1") \in Operand /\ Mark \in Operand
    BY <1>1 DEF Plain
  <2>3. QED BY <2>1, <2>2, OneIsSeq
<1>6. CASE clause = "set"
  <2>1. operands = <<Plain("a"), Plain("NULL")>>
          \/ \E v \in Values : operands = <<Plain("a"), Value(v)>>
    BY <1>6 DEF Operands
  <2>2. Plain("a") \in Operand /\ Plain("NULL") \in Operand
    BY <1>1 DEF Plain
  <2>3. QED BY <1>2, <2>1, <2>2, TwoOfThem
<1>7. CASE clause \notin {"where", "having", "limit", "offset", "set"}
  <2>1. operands = <<Plain("a")>>
    BY <1>7 DEF Operands
  <2>2. QED BY <1>1, <2>1 DEF Plain
<1>8. QED BY <1>4, <1>5, <1>6, <1>7

\* How a statement may end.
LEMMA QueryKind ==
  ASSUME NEW sql, NEW meant, NEW args, NEW via, NEW plain
  PROVE  /\ query_s(sql, meant, args, via, plain).kind \in {"text", "refused"}
         /\ query_tuple(sql, args).kind \in {"text", "refused"}
  BY DEF query_s, query_tuple, Statement

LEMMA ExecuteKind ==
  ASSUME NEW stage, NEW args, NEW plain, Execute(stage, args, plain)
  PROVE  sent'.kind \in {"text", "refused"}
<1>1. CASE builder = "select"
  BY <1>1, QueryKind DEF Execute
<1>2. CASE builder # "select"
  BY <1>2 DEF Execute, Statement
<1>3. QED BY <1>1, <1>2

LEMMA NothingKind == Nothing.kind = "nothing"
  BY DEF Nothing, Statement

LEMMA TypeInit == Init => TypeInv
<1>1. SUFFICES ASSUME Init PROVE TypeInv
  OBVIOUS
<1>2. driver \in {"sqlite", "mysql", "mysql_async", "postgresql"}
  BY <1>1, BuilderAssumption DEF Init
<1>3. /\ lang \in {"sqlite", "mysql", "mysql_plain", "postgresql"}
      /\ driver \in {"mysql", "mysql_async"} <=> IsMysql(lang)
      /\ driver = "postgresql" <=> lang = "postgresql"
  BY <1>1, <1>2 DEF Init, IsMysql
<1>4. calls \in Seq(Call) /\ Len(calls) <= MaxCalls
  BY <1>1, BuilderAssumption DEF Init
<1>5. DOMAIN ctx = Clauses /\ \A c \in Clauses : ctx[c] = <<>>
  BY <1>1 DEF Init, Emptied
<1>6. held \subseteq DOMAIN Offers
  BY <1>1, OffersIs DEF Init
<1>7. QED BY <1>1, <1>3, <1>4, <1>5, <1>6, NothingKind DEF Init, TypeInv

\* A call on a stage keeps the types.
LEMMA TypeCallStage ==
  ASSUME TypeInv, NEW stage \in held, NEW clause \in Clauses, NEW operands \in Operands(clause),
         CallStage(stage, clause, operands)
  PROVE  TypeInv'
<1>1. PICK made : made = IF Fresh(stage) THEN <<>> ELSE calls
  OBVIOUS
<1>2. PICK call : call = [stage |-> stage, clause |-> clause, operands |-> operands]
  OBVIOUS
<1>3. stage \in DOMAIN Offers /\ Returned(stage, clause) \in DOMAIN Offers
  BY OffersIs DEF TypeInv, CallStage
<1>4. call \in Call
  BY <1>2, <1>3, OperandsIs DEF Call
<1>5. made \in Seq(Call) /\ calls' = Append(made, call)
  BY <1>1, <1>2 DEF TypeInv, CallStage
<1>6. Len(made) < MaxCalls
  BY <1>1, <1>5, BuilderAssumption, LenProperties DEF CallStage
<1>7. /\ calls' \in Seq(Call) /\ Len(calls') = Len(made) + 1
      /\ calls'[Len(made) + 1] = call /\ \A i \in 1..Len(made) : calls'[i] = made[i]
  BY <1>4, <1>5, AppendProperties
<1>8. DOMAIN made = 1..Len(made) /\ DOMAIN calls' = 1..Len(made) + 1 /\ Len(made) \in Nat
  BY <1>5, <1>7, LenProperties
<1>9. linear' \in BOOLEAN
  BY DEF CallStage, TypeInv
<1>10. PICK old : old = ContextFor(stage)
  OBVIOUS
<1>11. DOMAIN old = Clauses
       /\ \A c \in Clauses : old[c] # <<>> => \E i \in DOMAIN made : made[i].clause = c
  BY <1>1, <1>10 DEF ContextFor, Emptied, TypeInv
<1>12. DOMAIN ctx' = Clauses /\ \A c \in Clauses \ {clause} : ctx'[c] = old[c]
  BY <1>10, <1>11 DEF CallStage
<1>13. ASSUME NEW c \in Clauses, ctx'[c] # <<>>
       PROVE  \E i \in DOMAIN calls' : calls'[i].clause = c
  <2>1. CASE c = clause
    <3>1. calls'[Len(made) + 1].clause = c /\ Len(made) + 1 \in DOMAIN calls'
      BY <1>2, <1>7, <1>8, <2>1
    <3>2. QED BY <3>1
  <2>2. CASE c # clause
    <3>1. PICK i \in DOMAIN made : made[i].clause = c
      BY <1>11, <1>12, <1>13, <2>2
    <3>2. i \in DOMAIN calls' /\ calls'[i] = made[i]
      BY <1>7, <1>8
    <3>3. QED BY <3>1, <3>2
  <2>3. QED BY <2>1, <2>2
<1>14. held' \subseteq DOMAIN Offers
  BY <1>3 DEF CallStage, TypeInv
<1>15. Len(calls') <= MaxCalls
  BY <1>6, <1>7, <1>8, BuilderAssumption
<1>16. UNCHANGED <<driver, lang, builder, pending, sent>>
  BY DEF CallStage, server
<1>17. QED BY <1>7, <1>9, <1>12, <1>13, <1>14, <1>15, <1>16 DEF TypeInv

LEMMA TypeNext == TypeInv /\ [Next]_vars => TypeInv'
<1>1. SUFFICES ASSUME TypeInv, [Next]_vars PROVE TypeInv'
  OBVIOUS
<1>2. ASSUME NEW stage \in held, NEW clause \in Clauses, NEW operands \in Operands(clause),
             CallStage(stage, clause, operands)
      PROVE  TypeInv'
  BY <1>1, <1>2, TypeCallStage
<1>3. ASSUME NEW stage \in held, NEW args \in Arguments, Collect(stage, args) PROVE TypeInv'
  <2>1. UNCHANGED <<driver, lang, builder, ctx, held, calls, linear>>
    BY <1>3 DEF Collect, server
  <2>2. CASE driver = "mysql_async"
    <3>1. PICK p : p = [stage |-> stage, args |-> args, calls |-> calls, plain |-> InOneGo(stage)]
      OBVIOUS
    <3>2. InOneGo(stage) \in BOOLEAN
      BY <1>1 DEF InOneGo, TypeInv
    <3>3. p \in Awaitable
      BY <1>1, <3>1, <3>2 DEF Awaitable, TypeInv
    <3>4. pending' = <<p>> /\ sent' = sent
      BY <1>3, <2>2, <3>1 DEF Collect
    <3>5. pending' \in Seq(Awaitable) /\ Len(pending') = 1
      BY <3>3, <3>4
    <3>6. QED BY <1>1, <2>1, <2>2, <3>4, <3>5 DEF TypeInv
  <2>3. CASE driver # "mysql_async"
    <3>1. sent'.kind \in {"text", "refused"} /\ pending' = pending
      BY <1>3, <2>3, ExecuteKind DEF Collect
    <3>2. QED BY <1>1, <2>1, <3>1 DEF TypeInv
  <2>4. QED BY <2>2, <2>3
<1>4. ASSUME LetGo PROVE TypeInv'
  BY <1>1, <1>4 DEF LetGo, server, TypeInv
<1>5. ASSUME Start PROVE TypeInv'
  <2>1. UNCHANGED <<driver, lang, builder, ctx, held, calls, linear>> /\ pending' = <<>>
    BY <1>5 DEF Start, server
  <2>2. sent'.kind \in {"text", "refused", "undefined"}
    <3>1. PICK p : p = pending[1]
      OBVIOUS
    <3>2. CASE ContextThere(p.stage)
      BY <1>5, <3>1, <3>2, ExecuteKind DEF Start
    <3>3. CASE ~ContextThere(p.stage)
      <4>1. sent' = Statement("undefined", <<>>, <<>>, <<>>, p.args, p.stage, FALSE)
        BY <1>5, <3>1, <3>3 DEF Start
      <4>2. QED BY <4>1 DEF Statement
    <3>4. QED BY <3>2, <3>3
  <2>3. QED BY <1>1, <2>1, <2>2 DEF TypeInv
<1>6. ASSUME WriteText PROVE TypeInv'
  <2>1. UNCHANGED <<driver, lang, builder, ctx, held, calls, linear, pending>>
    BY <1>6 DEF WriteText, server
  <2>2. sent'.kind \in {"text", "refused"}
    BY <1>6, QueryKind DEF WriteText
  <2>3. QED BY <1>1, <2>1, <2>2 DEF TypeInv
<1>7. ASSUME Done PROVE TypeInv'
  BY <1>1, <1>7, NothingKind DEF Done, server, TypeInv
<1>8. ASSUME UNCHANGED vars PROVE TypeInv'
  BY <1>1, <1>8 DEF vars, TypeInv
<1>9. QED BY <1>1, <1>2, <1>3, <1>4, <1>5, <1>6, <1>7, <1>8 DEF Next

LEMMA TypeImplies == TypeInv => TypeOK
  BY DEF TypeInv, TypeOK

\* The types of TypeOK, and that a clause of the context was written by a call:
\* update_builder and delete_builder begin with a new one.
THEOREM TypeCorrect == Spec => []TypeOK
  BY TypeInit, TypeNext, TypeImplies, PTL DEF Spec

-----------------------------------------------------------------------------
(* Where a lexeme ends                                                     *)

LEMMA OverIs ==
  ASSUME NEW C, Alphabet(C), NEW m, NEW o \in Seq(C)
  PROVE  Over(m, o) \in Seq(Lexemes(C)) /\ NoMark(Over(m, o))
<1>1. CASE m = "dash"
  <2>1. Word("-") \in Lexemes(C) /\ Word("-") # Mark
    BY WordIs DEF Alphabet
  <2>2. Over(m, o) = <<Word("-")>>
    BY <1>1 DEF Over, QuoteEnds
  <2>3. QED BY <2>1, <2>2, NoMarkOne
<1>2. CASE m = "slash"
  <2>1. Word("/") \in Lexemes(C) /\ Word("/") # Mark
    BY WordIs DEF Alphabet
  <2>2. Over(m, o) = <<Word("/")>>
    BY <1>2 DEF Over, QuoteEnds
  <2>3. QED BY <2>1, <2>2, NoMarkOne
<1>3. CASE m \in QuoteEnds
  <2>1. KindOf[Ended[m]] \in {"value", "name"}
    BY <1>3, QuoteTable DEF QuoteEnds
  <2>2. PICK x : x = Lexeme(KindOf[Ended[m]], o)
    OBVIOUS
  <2>3. x \in Lexemes(C) /\ x # Mark
    BY <2>1, <2>2, LexemeIs
  <2>4. Over(m, o) = <<x>>
    BY <1>3, <2>2 DEF Over, QuoteEnds
  <2>5. QED BY <2>3, <2>4, NoMarkOne
<1>4. CASE m \notin {"dash", "slash"} \cup QuoteEnds
  <2>1. Over(m, o) = <<>>
    BY <1>4 DEF Over
  <2>2. QED BY <2>1, NoMarkEmpty, EmptySeq
<1>5. QED BY <1>1, <1>2, <1>3, <1>4

\* At a rest, a character that fits ends the lexeme before it.
LEMMA Closes ==
  ASSUME NEW C, Alphabet(C), NEW m \in Rest, NEW r \in Seq(Lexemes(C)), NEW o \in Seq(C),
         NEW c \in C, NEW l, Fits(m, c)
  PROVE  Reads(Reading(m, r, o), c, l) = InPlain(r \o Over(m, o), c, l)
<1>1. PICK s : s = Reading(m, r, o)
  OBVIOUS
<1>2. s.mode = m /\ s.read = r /\ s.open = o
  BY <1>1, ReadingIs
<1>3. CASE m = "plain"
  <2>1. Over(m, o) = <<>>
    BY <1>3 DEF Over, QuoteEnds
  <2>2. r \o Over(m, o) = r
    BY <2>1, ConcatEmptySeq
  <2>3. Reads(s, c, l) = InPlain(r, c, l)
    BY <1>2, <1>3, ReadsPlain
  <2>4. QED BY <1>1, <2>2, <2>3
<1>4. CASE m = "dash"
  <2>1. Over(m, o) = <<Word("-")>>
    BY <1>4 DEF Over, QuoteEnds
  <2>2. Append(r, Word("-")) = r \o <<Word("-")>>
    BY WordIs, AppendIsConcat DEF Alphabet
  <2>3. QED BY <1>1, <1>2, <1>4, <2>1, <2>2, ReadsDash DEF Fits
<1>5. CASE m = "slash"
  <2>1. Over(m, o) = <<Word("/")>>
    BY <1>5 DEF Over, QuoteEnds
  <2>2. Append(r, Word("/")) = r \o <<Word("/")>>
    BY WordIs, AppendIsConcat DEF Alphabet
  <2>3. QED BY <1>1, <1>2, <1>5, <2>1, <2>2, ReadsSlash DEF Fits
<1>6. CASE m \in QuoteEnds
  <2>1. PICK q \in Quotes : q = Ended[m]
    BY <1>6, QuoteTable DEF Quotes, QuoteEnds
  <2>2. PICK x : x = Lexeme(KindOf[q], o)
    OBVIOUS
  <2>3. KindOf[q] \in {"value", "name"}
    BY QuoteTable DEF Quotes
  <2>4. x \in Lexemes(C)
    BY <2>2, <2>3, LexemeIs
  <2>5. Over(m, o) = <<x>>
    BY <1>6, <2>1, <2>2 DEF Over, QuoteEnds
  <2>6. Append(r, x) = r \o <<x>>
    BY <2>4, AppendIsConcat
  <2>7. Reads(s, c, l) = AfterQuote(s, q, c, l)
    BY <1>2, <1>6, <2>1, ReadsQuoteEnd
  <2>8. c # Closing[q]
    BY <1>6, <2>1 DEF Fits
  <2>9. AfterQuote(s, q, c, l) = InPlain(Append(r, x), c, l)
    BY <1>2, <2>2, <2>8 DEF AfterQuote
  <2>10. QED BY <1>1, <2>5, <2>6, <2>7, <2>9
<1>7. QED BY <1>3, <1>4, <1>5, <1>6 DEF Rest

LEMMA SettledIs ==
  ASSUME NEW C, Alphabet(C), NEW s \in States(C)
  PROVE  Settled(s) \in Seq(Lexemes(C))
<1>1. s.read \in Seq(Lexemes(C)) /\ Over(s.mode, s.open) \in Seq(Lexemes(C))
  BY StateParts, OverIs
<1>2. QED BY <1>1, ConcatProperties DEF Settled

LEMMA OutsetIs ==
  ASSUME NEW C
  PROVE  /\ Outset \in States(C) /\ Outset = At("plain", <<>>)
         /\ Outset.mode = "plain" /\ Outset.read = <<>> /\ Outset.open = <<>>
         /\ "plain" \in Modes
  BY AtIs, EmptySeq DEF Outset, At, Modes

\* A text is read from its first character on.
LEMMA RunsHead ==
  ASSUME NEW C, Alphabet(C), NEW s \in States(C), NEW c \in C, NEW w \in Seq(C), NEW l
  PROVE  Runs(s, <<c>> \o w, l) = Runs(Reads(s, c, l), w, l)
<1>1. PICK t \in Seq(C) : t = <<c>>
  BY OneIsSeq
<1>2. Runs(s, t \o w, l) = Runs(Runs(s, t, l), w, l)
  BY RunsConcat
<1>3. Runs(s, t, l) = Reads(s, c, l)
  BY <1>1, RunsOne
<1>4. QED BY <1>1, <1>2, <1>3

\* After a rest a text is read as if it were by itself.
LEMMA Settling ==
  ASSUME NEW C, Alphabet(C), NEW s \in States(C), s.mode \in Rest,
         NEW c \in C, Fits(s.mode, c), NEW w \in Seq(C), NEW l
  PROVE  Runs(s, <<c>> \o w, l) = After(Settled(s), Runs(Outset, <<c>> \o w, l))
<1>1. PICK o \in States(C) : o = Outset /\ o = At("plain", <<>>)
  BY OutsetIs
<1>2. PICK r \in Seq(Lexemes(C)) : r = Settled(s)
  BY SettledIs
<1>3. PICK p \in States(C) : p = Reading("plain", r, <<>>)
  BY StateIs, OutsetIs, EmptySeq
<1>4. Reads(s, c, l) = Reads(p, c, l)
  <2>1. Reads(Reading(s.mode, s.read, s.open), c, l) = InPlain(r, c, l)
    BY <1>2, Closes, StateParts DEF Settled
  <2>2. Reads(p, c, l) = InPlain(r, c, l)
    BY <1>3, ReadsPlain, ReadingIs
  <2>3. QED BY <2>1, <2>2, StateParts
<1>5. <<c>> \in Seq(C)
  BY OneIsSeq
<1>6. Runs(s, <<c>> \o w, l) = Runs(Reads(s, c, l), w, l)
  BY RunsHead
<1>7. Runs(p, <<c>> \o w, l) = Runs(Reads(p, c, l), w, l)
  BY RunsHead
<1>8. PICK x \in Seq(C) : x = <<c>> \o w
  BY <1>5, ConcatProperties
<1>9. Runs(p, x, l) = After(r, Runs(o, x, l))
  <2>1. <<>> \in Seq(C) /\ "plain" \in Modes
    BY EmptySeq, OutsetIs
  <2>2. Runs(Reading("plain", r, <<>>), x, l) = After(r, Runs(At("plain", <<>>), x, l))
    BY <2>1, RunsShift
  <2>3. QED BY <1>1, <1>3, <2>2
<1>10. QED BY <1>1, <1>2, <1>4, <1>6, <1>7, <1>8, <1>9

\* A word of the builders never belongs to the lexeme before.
LEMMA WordFits ==
  ASSUME NEW c, c \notin Special, NEW m
  PROVE  Fits(m, c)
  BY QuoteTable DEF Fits, Special, QuoteEnds

LEMMA MarkFits ==
  ASSUME NEW m
  PROVE  \A c \in {"?", " ", Newline} : Fits(m, c)
  BY QuoteTable DEF Fits, QuoteEnds, DoubleQuote, Backquote, Newline

LEMMA QuoteFits ==
  ASSUME NEW m, m # "value_end"
  PROVE  Fits(m, "'")
  BY QuoteTable DEF Fits, QuoteEnds, DoubleQuote, Backquote

LEMMA ReadsWord ==
  ASSUME NEW C, Alphabet(C), NEW s \in States(C), s.mode \in Rest, NEW c \in C,
         c \notin Special, NEW l
  PROVE  Reads(s, c, l) = Reading("plain", Append(Settled(s), Word(c)), <<>>)
<1>1. Reads(Reading(s.mode, s.read, s.open), c, l) = InPlain(Settled(s), c, l)
  BY Closes, WordFits, StateParts DEF Settled
<1>2. InPlain(Settled(s), c, l) = Reading("plain", Append(Settled(s), Word(c)), <<>>)
  <2>1. c \notin {"'", DoubleQuote, "-", "/", "?"} /\ c \notin Blank
        /\ c # Backquote /\ c # "#"
    BY DEF Special, Blank
  <2>2. QED BY <2>1, InPlainCases
<1>3. QED BY <1>1, <1>2, StateParts

LEMMA ReadsMark ==
  ASSUME NEW C, Alphabet(C), NEW s \in States(C), s.mode \in Rest, "?" \in C, NEW l
  PROVE  Reads(s, "?", l) = Reading("plain", Append(Settled(s), Mark), <<>>)
<1>0. Fits(s.mode, "?")
  BY MarkFits
<1>1. Reads(Reading(s.mode, s.read, s.open), "?", l) = InPlain(Settled(s), "?", l)
  BY <1>0, Closes, StateParts DEF Settled
<1>2. InPlain(Settled(s), "?", l) = Reading("plain", Append(Settled(s), Mark), <<>>)
  BY InPlainCases
<1>3. QED BY <1>1, <1>2, StateParts

LEMMA ReadsBlank ==
  ASSUME NEW C, Alphabet(C), NEW s \in States(C), s.mode \in Rest, NEW c \in Blank, NEW l
  PROVE  Reads(s, c, l) = Reading("plain", Settled(s), <<>>)
<1>0. c \in C /\ Fits(s.mode, c)
  BY MarkFits DEF Blank, Alphabet
<1>1. Reads(Reading(s.mode, s.read, s.open), c, l) = InPlain(Settled(s), c, l)
  BY <1>0, Closes, StateParts DEF Settled
<1>2. InPlain(Settled(s), c, l) = Reading("plain", Settled(s), <<>>)
  BY InPlainCases
<1>3. QED BY <1>1, <1>2, StateParts

LEMMA ReadsOpening ==
  ASSUME NEW C, Alphabet(C), NEW s \in States(C), s.mode \in Rest, s.mode # "value_end", NEW l
  PROVE  Reads(s, "'", l) = Reading("value", Settled(s), <<>>)
<1>0. "'" \in C
  BY DEF Alphabet
<1>1. Reads(Reading(s.mode, s.read, s.open), "'", l) = InPlain(Settled(s), "'", l)
  BY <1>0, Closes, QuoteFits, StateParts DEF Settled
<1>2. InPlain(Settled(s), "'", l) = Reading("value", Settled(s), <<>>)
  BY InPlainCases
<1>3. QED BY <1>1, <1>2, StateParts

LEMMA SettledPlain ==
  ASSUME NEW C, NEW r \in Seq(Lexemes(C)), NEW o
  PROVE  Settled(Reading("plain", r, o)) = r
<1>1. Over("plain", o) = <<>>
  BY DEF Over, QuoteEnds
<1>2. PICK s : s = Reading("plain", r, o)
  OBVIOUS
<1>3. s.mode = "plain" /\ s.read = r /\ s.open = o
  BY <1>2, ReadingIs
<1>4. r \o Over("plain", o) = r
  BY <1>1, ConcatEmptySeq
<1>5. QED BY <1>2, <1>3, <1>4 DEF Settled

LEMMA SettledValue ==
  ASSUME NEW C, NEW r \in Seq(Lexemes(C)), NEW v \in Seq(C)
  PROVE  Settled(Reading("value_end", r, v)) = Append(r, Value(v))
<1>1. Over("value_end", v) = <<Value(v)>>
  BY QuoteTable DEF Over, QuoteEnds, Value
<1>2. Value(v) \in Lexemes(C)
  BY LexemeIs DEF Value
<1>3. PICK s : s = Reading("value_end", r, v)
  OBVIOUS
<1>4. s.mode = "value_end" /\ s.read = r /\ s.open = v
  BY <1>3, ReadingIs
<1>5. Append(r, Value(v)) = r \o <<Value(v)>>
  BY <1>2, AppendIsConcat
<1>6. QED BY <1>1, <1>3, <1>4, <1>5 DEF Settled

-----------------------------------------------------------------------------
(* Values in quotes                                                        *)

LEMMA SpeltReads ==
  ASSUME NEW C, Alphabet(C), NEW D \in SUBSET C, NEW f, NEW l, Spells(f, D, C, l),
         NEW r \in Seq(Lexemes(C)), NEW v \in Seq(D)
  PROVE  Runs(Reading("value", r, <<>>), Spelt(f, v), l) = Reading("value", r, v)
<1>1. PICK s \in States(C) : s = Reading("value", r, <<>>)
  BY StateIs, EmptySeq DEF Modes, Quotes
<1>2. PICK S : S = {u \in Seq(D) : Runs(s, Spelt(f, u), l) = Reading("value", r, u)}
  OBVIOUS
<1>3. <<>> \in S
  BY <1>1, <1>2, SpeltEmpty, RunsEmpty, EmptySeq
<1>4. ASSUME NEW u \in S \cap Seq(D), NEW c \in D PROVE Append(u, c) \in S
  <2>1. f \in [D -> Seq(C)] /\ f[c] \in Seq(C)
    BY DEF Spells
  <2>2. PICK t \in Seq(C) : t = Spelt(f, u)
    BY <2>1, SpeltType
  <2>3. Spelt(f, Append(u, c)) = t \o f[c]
    BY <2>1, <2>2, SpeltAppend
  <2>4. Runs(s, t \o f[c], l) = Runs(Runs(s, t, l), f[c], l)
    BY <2>1, RunsConcat
  <2>5. u \in Seq(C)
    BY ElementOfSeq
  <2>6. Runs(Reading("value", r, u), f[c], l) = Reading("value", r, Append(u, c))
    BY <2>5 DEF Spells
  <2>7. Append(u, c) \in Seq(D)
    BY AppendProperties
  <2>8. QED BY <1>2, <2>2, <2>3, <2>4, <2>6, <2>7
<1>5. Seq(D) \subseteq S
  BY <1>3, <1>4, AppendInduction
<1>6. QED BY <1>1, <1>2, <1>5

\* A value between quotes is read as that value.
LEMMA EnclosedReads ==
  ASSUME NEW C, Alphabet(C), NEW D \in SUBSET C, NEW f, NEW l, Spells(f, D, C, l),
         NEW s \in States(C), s.mode \in Rest, s.mode # "value_end", NEW v \in Seq(D)
  PROVE  /\ Enclosed(f, v) \in Seq(C)
         /\ Runs(s, Enclosed(f, v), l) = Reading("value_end", Settled(s), v)
<1>1. PICK t \in Seq(C) : t = Spelt(f, v)
  BY SpeltType DEF Spells
<1>2. PICK q \in Seq(C) : q = <<"'">>
  BY OneIsSeq DEF Alphabet
<1>3. q \o t \in Seq(C) /\ (q \o t) \o q \in Seq(C) /\ "'" \in C
  BY ConcatProperties DEF Alphabet
<1>4. PICK r \in Seq(Lexemes(C)) : r = Settled(s)
  BY SettledIs
<1>5. PICK s1 \in States(C) : s1 = Reading("value", r, <<>>)
  BY StateIs, EmptySeq DEF Modes, Quotes
<1>6. v \in Seq(C)
  BY ElementOfSeq
<1>7. PICK s2 \in States(C) : s2 = Reading("value", r, v)
  BY <1>6, StateIs DEF Modes, Quotes
<1>8. Runs(s, q, l) = s1
  BY <1>2, <1>3, <1>4, <1>5, RunsOne, ReadsOpening
<1>9. Runs(s1, t, l) = s2
  BY <1>1, <1>5, <1>7, SpeltReads
<1>10. Runs(s2, q, l) = Reading("value_end", r, v)
  <2>1. s2.mode = "value" /\ s2.read = r /\ s2.open = v
    BY <1>7, ReadingIs
  <2>2. Reads(s2, "'", l) = Within(s2, "value", "'", l)
    BY <2>1, ReadsQuoted DEF Quotes
  <2>3. Within(s2, "value", "'", l) = Reading("value_end", r, v)
    BY <1>7, WithinCases, QuoteTable
  <2>4. QED BY <1>2, <1>3, <2>2, <2>3, RunsOne
<1>11. Runs(s, (q \o t) \o q, l) = Runs(Runs(Runs(s, q, l), t, l), q, l)
  <2>1. PICK z \in Seq(C) : z = q \o t
    BY <1>3
  <2>2. Runs(s, z \o q, l) = Runs(Runs(s, z, l), q, l)
    BY RunsConcat
  <2>3. Runs(s, q \o t, l) = Runs(Runs(s, q, l), t, l)
    BY RunsConcat
  <2>4. QED BY <2>1, <2>2, <2>3
<1>12. QED BY <1>1, <1>2, <1>3, <1>4, <1>8, <1>9, <1>10, <1>11 DEF Enclosed

\* How one character of a value is read.
LEMMA ReadsInValue ==
  ASSUME NEW r, NEW x, NEW c, NEW l
  PROVE  /\ c = "'" => Reads(Reading("value", r, x), c, l) = Reading("value_end", r, x)
         /\ c = Backslash /\ l = "mysql" =>
              Reads(Reading("value", r, x), c, l) = Reading("value_escape", r, x)
         /\ c # "'" /\ (c # Backslash \/ l # "mysql") =>
              Reads(Reading("value", r, x), c, l) = Reading("value", r, Append(x, c))
         /\ Reads(Reading("value_escape", r, x), c, l) =
              Reading("value", r, Append(x, IF c = "n" THEN Newline ELSE c))
<1>1. PICK s : s = Reading("value", r, x)
  OBVIOUS
<1>3. PICK b : b = Reading("value_escape", r, x)
  OBVIOUS
<1>4. s.mode = "value" /\ b.mode = "value_escape" /\ b.read = r /\ b.open = x
  BY <1>1, <1>3, ReadingIs
<1>5. Reads(s, c, l) = Within(s, "value", c, l)
  BY <1>4, ReadsQuoted DEF Quotes
<1>6. /\ c = "'" => Within(s, "value", c, l) = Reading("value_end", r, x)
      /\ c = Backslash /\ l = "mysql" => Within(s, "value", c, l) = Reading("value_escape", r, x)
      /\ c # "'" /\ (c # Backslash \/ l # "mysql") =>
           Within(s, "value", c, l) = Reading("value", r, Append(x, c))
  <2>1. Closing["value"] = "'" /\ Doubled["value"] = "value_end"
        /\ Escaped["value"] = "value_escape" /\ "value" \in DOMAIN Escaped /\ Backslash # "'"
    BY QuoteTable, Domains DEF Backslash
  <2>2. QED BY <1>1, <2>1, WithinCases
<1>8. Reads(b, c, l) = Reading("value", r, Append(x, IF c = "n" THEN Newline ELSE c))
  BY <1>4, ReadsEscape, QuoteTable DEF Escapes
<1>9. QED BY <1>1, <1>3, <1>5, <1>6, <1>8

LEMMA ReadsDoubledQuote ==
  ASSUME NEW r, NEW x, NEW l
  PROVE  Reads(Reading("value_end", r, x), "'", l) = Reading("value", r, Append(x, "'"))
<1>1. PICK e : e = Reading("value_end", r, x)
  OBVIOUS
<1>2. e.mode = "value_end" /\ e.read = r /\ e.open = x
  BY <1>1, ReadingIs
<1>3. Reads(e, "'", l) = AfterQuote(e, "value", "'", l)
  BY <1>2, ReadsQuoteEnd, QuoteTable DEF QuoteEnds
<1>4. AfterQuote(e, "value", "'", l) = Reading("value", r, Append(x, "'"))
  BY <1>2, QuoteTable DEF AfterQuote
<1>5. QED BY <1>1, <1>3, <1>4

LEMMA RunsTwo ==
  ASSUME NEW C, Alphabet(C), NEW s \in States(C), NEW c \in C, NEW d \in C, NEW l
  PROVE  Runs(s, <<c, d>>, l) = Reads(Reads(s, c, l), d, l)
<1>1. PICK s1 \in States(C) : s1 = Reads(s, c, l)
  BY ReadsType
<1>2. <<c>> \in Seq(C) /\ <<d>> \in Seq(C) /\ <<c, d>> = <<c>> \o <<d>>
  <2>1. <<c>> \in Seq(C) /\ <<d>> \in Seq(C)
    BY OneIsSeq
  <2>2. Append(<<c>>, d) = <<c>> \o <<d>>
    BY <2>1, AppendIsConcat
  <2>3. Append(<<c>>, d) = <<c, d>>
    <3>1. PICK t \in Seq(C) : t = <<c>>
      BY <2>1
    <3>2. PICK a \in Seq(C) : a = Append(t, d)
      BY AppendProperties
    <3>3. Len(t) = 1 /\ t[1] = c
      BY <3>1
    <3>4. Len(a) = 2 /\ a[1] = c /\ a[2] = d
      BY <3>2, <3>3, AppendProperties
    <3>5. PICK b \in Seq(C) : b = <<c, d>>
      BY TwoOfThem
    <3>6. Len(b) = 2 /\ b[1] = c /\ b[2] = d
      BY <3>5
    <3>7. a = b
      BY <3>4, <3>6, SeqEqual
    <3>8. QED BY <3>1, <3>2, <3>5, <3>7
  <2>4. QED BY <2>1, <2>2, <2>3
<1>3. Runs(s, <<c>> \o <<d>>, l) = Runs(s1, <<d>>, l)
  BY <1>1, <1>2, RunsHead
<1>4. QED BY <1>2, <1>3, <1>1, RunsOne

\* escape_sql_string() writes each character so that it is read back.
LEMMA SqlSpells ==
  ASSUME NEW C, Alphabet(C), NEW D \in SUBSET C, NEW l, l # "mysql" \/ Backslash \notin D
  PROVE  Spells(SqlSpelling(D), D, C, l)
<1>1. PICK f : f = SqlSpelling(D)
  OBVIOUS
<1>2. ASSUME NEW c \in D PROVE f[c] = (IF c = "'" THEN <<c, c>> ELSE <<c>>) /\ f[c] \in Seq(C)
  <2>1. f[c] = (IF c = "'" THEN <<c, c>> ELSE <<c>>)
    BY <1>1 DEF SqlSpelling
  <2>2. <<c, c>> \in Seq(C) /\ <<c>> \in Seq(C)
    BY OneIsSeq, TwoOfThem
  <2>3. QED BY <2>1, <2>2
<1>3. f \in [D -> Seq(C)]
  <2>1. DOMAIN f = D /\ f = [c \in D |-> f[c]]
    BY <1>1 DEF SqlSpelling
  <2>2. QED BY <1>2, <2>1
<1>4. ASSUME NEW c \in D, NEW x \in Seq(C), NEW r \in Seq(Lexemes(C))
      PROVE  Runs(Reading("value", r, x), f[c], l) = Reading("value", r, Append(x, c))
  <2>1. PICK s \in States(C) : s = Reading("value", r, x)
    BY StateIs DEF Modes, Quotes
  <2>2. CASE c = "'"
    <3>1. Runs(s, <<c, c>>, l) = Reads(Reads(s, c, l), c, l)
      BY RunsTwo
    <3>2. Reads(s, c, l) = Reading("value_end", r, x)
      BY <2>1, <2>2, ReadsInValue
    <3>3. Reads(Reading("value_end", r, x), "'", l) = Reading("value", r, Append(x, "'"))
      BY ReadsDoubledQuote
    <3>4. f[c] = <<c, c>>
      BY <1>2, <2>2
    <3>5. QED BY <2>1, <2>2, <3>1, <3>2, <3>3, <3>4
  <2>3. CASE c # "'"
    <3>1. Runs(s, <<c>>, l) = Reads(s, c, l)
      BY RunsOne
    <3>2. c # Backslash \/ l # "mysql"
      OBVIOUS
    <3>3. Reads(s, c, l) = Reading("value", r, Append(x, c))
      BY <2>1, <2>3, <3>2, ReadsInValue
    <3>4. f[c] = <<c>>
      BY <1>2, <2>3
    <3>5. QED BY <2>1, <3>1, <3>3, <3>4
  <2>4. QED BY <2>2, <2>3
<1>5. QED BY <1>1, <1>3, <1>4 DEF Spells

\* escape_mysql_string() does so in either mode.
LEMMA MysqlSpells ==
  ASSUME NEW C, Alphabet(C), NEW D \in SUBSET C
  PROVE  Spells(MysqlSpelling(D), D, C, "mysql")
<1>0. PICK f : f = MysqlSpelling(D)
  OBVIOUS
<1>1. "n" \in C /\ Backslash \in C /\ Newline \notin {Backslash, "'", DoubleQuote}
      /\ Backslash # "'" /\ "n" \notin {Newline, Backslash, "'", DoubleQuote}
  BY DEF Alphabet, Newline, Backslash, DoubleQuote
<1>2. ASSUME NEW c \in D
      PROVE  /\ f[c] \in Seq(C)
             /\ c = Newline => f[c] = <<Backslash, "n">>
             /\ c \in {Backslash, "'", DoubleQuote} => f[c] = <<Backslash, c>>
             /\ c \notin {Newline, Backslash, "'", DoubleQuote} => f[c] = <<c>>
  <2>1. /\ c = Newline => f[c] = <<Backslash, "n">>
        /\ c \in {Backslash, "'", DoubleQuote} => f[c] = <<Backslash, c>>
        /\ c \notin {Newline, Backslash, "'", DoubleQuote} => f[c] = <<c>>
    BY <1>0, <1>1 DEF MysqlSpelling
  <2>2. <<Backslash, "n">> \in Seq(C) /\ <<Backslash, c>> \in Seq(C) /\ <<c>> \in Seq(C)
    BY <1>1, OneIsSeq, TwoOfThem
  <2>3. QED BY <2>1, <2>2
<1>3. f \in [D -> Seq(C)]
  <2>1. DOMAIN f = D /\ f = [c \in D |-> f[c]]
    BY <1>0 DEF MysqlSpelling
  <2>2. QED BY <1>2, <2>1
<1>4. ASSUME NEW c \in D, NEW x \in Seq(C), NEW r \in Seq(Lexemes(C))
      PROVE  Runs(Reading("value", r, x), f[c], "mysql") = Reading("value", r, Append(x, c))
  <2>1. PICK s \in States(C) : s = Reading("value", r, x)
    BY StateIs DEF Modes, Quotes
  <2>2. Reads(s, Backslash, "mysql") = Reading("value_escape", r, x)
    BY <2>1, ReadsInValue
  <2>3. ASSUME NEW d \in C
        PROVE  Runs(s, <<Backslash, d>>, "mysql") =
                 Reading("value", r, Append(x, IF d = "n" THEN Newline ELSE d))
    <3>1. Runs(s, <<Backslash, d>>, "mysql") = Reads(Reads(s, Backslash, "mysql"), d, "mysql")
      BY <1>1, RunsTwo
    <3>2. QED BY <2>2, <3>1, ReadsInValue
  <2>4. CASE c = Newline
    BY <1>1, <1>2, <2>1, <2>3, <2>4
  <2>5. CASE c \in {Backslash, "'", DoubleQuote}
    <3>1. c # "n"
      BY <1>1, <2>5
    <3>2. QED BY <1>2, <2>1, <2>3, <2>5, <3>1
  <2>6. CASE c \notin {Newline, Backslash, "'", DoubleQuote}
    <3>1. Runs(s, <<c>>, "mysql") = Reads(s, c, "mysql")
      BY RunsOne
    <3>2. Reads(s, c, "mysql") = Reading("value", r, Append(x, c))
      BY <2>1, <2>6, ReadsInValue
    <3>3. QED BY <1>2, <2>1, <2>6, <3>1, <3>2
  <2>7. QED BY <2>4, <2>5, <2>6
<1>5. QED BY <1>0, <1>3, <1>4 DEF Spells

\* The escape functions put the spelt value between quotes.
LEMMA SqlEncloses ==
  ASSUME NEW D, NEW v \in Seq(D)
  PROVE  escape_sql_string(v) = Enclosed(SqlSpelling(D), v)
<1>1. PICK f : f = SqlSpelling(D)
  OBVIOUS
<1>2. \A i \in DOMAIN v : v[i] \in D
  BY ElementOfSeq, LenProperties
<1>3. \A i \in DOMAIN v : f[v[i]] = (IF v[i] = "'" THEN <<v[i], v[i]>> ELSE <<v[i]>>)
  BY <1>1, <1>2 DEF SqlSpelling
<1>4. [i \in DOMAIN v |-> f[v[i]]] =
        [i \in DOMAIN v |-> IF v[i] = "'" THEN <<v[i], v[i]>> ELSE <<v[i]>>]
  BY <1>3
<1>5. QED BY <1>1, <1>4 DEF escape_sql_string, Quoted, Enclosed, Spelt

LEMMA MysqlEncloses ==
  ASSUME NEW D, NEW v \in Seq(D)
  PROVE  escape_mysql_string(v, FALSE) = Enclosed(MysqlSpelling(D), v)
<1>1. PICK f : f = MysqlSpelling(D)
  OBVIOUS
<1>2. \A i \in DOMAIN v : v[i] \in D
  BY ElementOfSeq, LenProperties
<1>3. \A i \in DOMAIN v : f[v[i]] = (CASE v[i] = Newline -> <<Backslash, "n">>
                            [] v[i] \in {Backslash, "'", DoubleQuote} -> <<Backslash, v[i]>>
                            [] OTHER -> <<v[i]>>)
  BY <1>1, <1>2 DEF MysqlSpelling
<1>4. [i \in DOMAIN v |-> f[v[i]]] =
        [i \in DOMAIN v |-> CASE v[i] = Newline -> <<Backslash, "n">>
                            [] v[i] \in {Backslash, "'", DoubleQuote} -> <<Backslash, v[i]>>
                            [] OTHER -> <<v[i]>>]
  BY <1>3
<1>5. QED BY <1>1, <1>4 DEF escape_mysql_string, Quoted, Enclosed, Spelt

\* escape_sql_string(): whatever a value holds, the server reads that value and
\* nothing else, wherever a value may stand; but for a \ where the server takes it
\* for an escape.
THEOREM SqlValueReads ==
  ASSUME NEW C, Alphabet(C), NEW v \in Seq(C), NEW l,
         l = "mysql" => \A i \in DOMAIN v : v[i] # Backslash,
         NEW s \in States(C), s.mode \in Rest, s.mode # "value_end"
  PROVE  /\ escape_sql_string(v) \in Seq(C)
         /\ Runs(s, escape_sql_string(v), l) = Reading("value_end", Settled(s), v)
<1>1. PICK D \in SUBSET C : D = IF l = "mysql" THEN C \ {Backslash} ELSE C
  OBVIOUS
<1>2. v \in Seq(D)
  <2>1. CASE l = "mysql"
    <3>1. \A i \in 1..Len(v) : v[i] \in D
      BY <1>1, <2>1, ElementOfSeq, LenProperties
    <3>2. v = [i \in 1..Len(v) |-> v[i]] /\ Len(v) \in Nat
      BY LenProperties
    <3>3. QED BY <3>1, <3>2
  <2>2. CASE l # "mysql"
    BY <1>1, <2>2
  <2>3. QED BY <2>1, <2>2
<1>3. Spells(SqlSpelling(D), D, C, l)
  BY <1>1, SqlSpells
<1>4. QED BY <1>2, <1>3, SqlEncloses, EnclosedReads

\* escape_mysql_string(): the same for the arguments of mysql_async, without that
\* exception, in either mode of the server.
THEOREM MysqlValueReads ==
  ASSUME NEW C, Alphabet(C), NEW v \in Seq(C), NEW l \in {"mysql", "mysql_plain"},
         NEW s \in States(C), s.mode \in Rest, s.mode # "value_end"
  PROVE  /\ escape_mysql_string(v, l = "mysql_plain") \in Seq(C)
         /\ Runs(s, escape_mysql_string(v, l = "mysql_plain"), l) =
              Reading("value_end", Settled(s), v)
<1>1. CASE l = "mysql_plain"
  <2>1. escape_mysql_string(v, l = "mysql_plain") = escape_sql_string(v)
    BY <1>1 DEF escape_mysql_string
  <2>2. l # "mysql"
    BY <1>1
  <2>3. QED BY <2>1, <2>2, SqlValueReads
<1>2. CASE l = "mysql"
  <2>1. (l = "mysql_plain") = FALSE
    BY <1>2
  <2>2. Spells(MysqlSpelling(C), C, C, "mysql")
    BY MysqlSpells
  <2>3. escape_mysql_string(v, FALSE) = Enclosed(MysqlSpelling(C), v)
    BY MysqlEncloses
  <2>4. /\ Enclosed(MysqlSpelling(C), v) \in Seq(C)
        /\ Runs(s, Enclosed(MysqlSpelling(C), v), "mysql") = Reading("value_end", Settled(s), v)
    BY <2>2, EnclosedReads
  <2>5. QED BY <1>2, <2>1, <2>3, <2>4
<1>3. QED BY <1>1, <1>2

-----------------------------------------------------------------------------
(* Counting and filling marks                                              *)

LEMMA MarksAreTimes ==
  ASSUME NEW L
  PROVE  Marks(L) = Times(Mark, L)
  BY DEF Marks, Times

LEMMA TimesType ==
  ASSUME NEW X, NEW s \in Seq(X), NEW x
  PROVE  Times(x, s) \in Nat /\ IsFiniteSet({i \in DOMAIN s : s[i] = x})
<1>1. DOMAIN s = 1..Len(s) /\ Len(s) \in Nat
  BY LenProperties
<1>2. PICK N : N = 1..Len(s)
  OBVIOUS
<1>3. IsFiniteSet(N)
  BY <1>1, <1>2, FS_Interval
<1>4. {i \in DOMAIN s : s[i] = x} \in SUBSET N
  BY <1>1, <1>2
<1>5. IsFiniteSet({i \in DOMAIN s : s[i] = x})
  BY <1>3, <1>4, FS_Subset
<1>6. QED BY <1>5, FS_CardinalityType DEF Times

LEMMA TimesEmpty ==
  ASSUME NEW x
  PROVE  Times(x, <<>>) = 0
<1>1. {i \in DOMAIN <<>> : <<>>[i] = x} = {}
  OBVIOUS
<1>2. QED BY <1>1, FS_EmptySet DEF Times

LEMMA PrefixIs ==
  ASSUME NEW X, NEW s \in Seq(X), NEW i \in 0..Len(s)
  PROVE  /\ SubSeq(s, 1, i) \in Seq(X) /\ Len(SubSeq(s, 1, i)) = i
         /\ \A j \in 1..i : SubSeq(s, 1, i)[j] = s[j]
<1>1. Len(s) \in Nat /\ \A j \in 1..i : s[j] \in X
  BY LenProperties, ElementOfSeq
<1>2. /\ SubSeq(s, 1, i) \in Seq(X)
      /\ Len(SubSeq(s, 1, i)) = IF 1 <= i THEN i - 1 + 1 ELSE 0
      /\ \A j \in 1..i - 1 + 1 : SubSeq(s, 1, i)[j] = s[1 + j - 1]
  BY <1>1, SubSeqProperties
<1>3. \A j \in 1..i : j \in 1..i - 1 + 1 /\ 1 + j - 1 = j
  BY <1>1
<1>4. QED BY <1>1, <1>2, <1>3

LEMMA TimesAppend ==
  ASSUME NEW X, NEW s \in Seq(X), NEW y \in X, NEW x
  PROVE  Times(x, Append(s, y)) = Times(x, s) + IF y = x THEN 1 ELSE 0
<1>1. PICK t \in Seq(X) : t = Append(s, y)
  BY AppendProperties
<1>2. /\ Len(s) \in Nat /\ DOMAIN s = 1..Len(s) /\ DOMAIN t = 1..Len(s) + 1
      /\ \A i \in 1..Len(s) : t[i] = s[i]
      /\ t[Len(s) + 1] = y
  BY <1>1, AppendProperties, LenProperties
<1>3. PICK S : S = {i \in DOMAIN s : s[i] = x}
  OBVIOUS
<1>4. PICK T : T = {i \in DOMAIN t : t[i] = x}
  OBVIOUS
<1>5. IsFiniteSet(S) /\ Cardinality(S) \in Nat
  BY <1>3, TimesType DEF Times
<1>6. CASE y = x
  <2>1. T = S \cup {Len(s) + 1} /\ Len(s) + 1 \notin S
    BY <1>2, <1>3, <1>4, <1>6
  <2>2. Cardinality(T) = Cardinality(S) + 1
    BY <1>5, <2>1, FS_AddElement
  <2>3. QED BY <1>1, <1>3, <1>4, <1>6, <2>2 DEF Times
<1>7. CASE y # x
  <2>1. T = S
    BY <1>2, <1>3, <1>4, <1>7
  <2>2. Times(x, t) = Cardinality(T) /\ Times(x, s) = Cardinality(S)
    BY <1>3, <1>4 DEF Times
  <2>3. Times(x, t) = Times(x, s) + 0
    BY <1>5, <2>1, <2>2
  <2>4. QED BY <1>1, <1>7, <2>3
<1>8. QED BY <1>6, <1>7

\* What is counted in two texts is counted in both together.
LEMMA TimesConcat ==
  ASSUME NEW X, NEW s \in Seq(X), NEW t \in Seq(X), NEW x
  PROVE  Times(x, s \o t) = Times(x, s) + Times(x, t)
<1>1. PICK S : S = {u \in Seq(X) : Times(x, s \o u) = Times(x, s) + Times(x, u)}
  OBVIOUS
<1>2. <<>> \in S
  <2>1. s \o <<>> = s /\ <<>> \in Seq(X)
    BY ConcatEmptySeq, EmptySeq
  <2>2. Times(x, s) \in Nat /\ Times(x, <<>>) = 0
    BY TimesEmpty, TimesType
  <2>3. Times(x, s \o <<>>) = Times(x, s) + Times(x, <<>>)
    BY <2>1, <2>2
  <2>4. QED BY <1>1, <2>1, <2>3
<1>3. ASSUME NEW u \in S \cap Seq(X), NEW y \in X PROVE Append(u, y) \in S
  <2>1. PICK w \in Seq(X) : w = s \o u
    BY ConcatProperties
  <2>2. s \o Append(u, y) = Append(w, y)
    BY <2>1, ConcatAppend
  <2>3. Times(x, Append(w, y)) = Times(x, w) + IF y = x THEN 1 ELSE 0
    BY TimesAppend
  <2>4. Times(x, Append(u, y)) = Times(x, u) + IF y = x THEN 1 ELSE 0
    BY TimesAppend
  <2>5. Times(x, w) = Times(x, s) + Times(x, u)
    BY <1>1, <2>1
  <2>6. Times(x, s) \in Nat /\ Times(x, u) \in Nat
    BY TimesType
  <2>7. Append(u, y) \in Seq(X)
    BY AppendProperties
  <2>8. PICK e : e = IF y = x THEN 1 ELSE 0
    OBVIOUS
  <2>9. e \in Nat
    BY <2>8
  <2>10. Times(x, s) + Times(x, u) + e = Times(x, s) + (Times(x, u) + e)
    BY <2>6, <2>9
  <2>11. Times(x, s \o Append(u, y)) = Times(x, s) + Times(x, Append(u, y))
    BY <2>2, <2>3, <2>4, <2>5, <2>8, <2>10
  <2>12. QED BY <1>1, <2>7, <2>11
<1>4. Seq(X) \subseteq S
  BY <1>2, <1>3, AppendInduction
<1>5. QED BY <1>1, <1>4

LEMMA TimesNone ==
  ASSUME NEW X, NEW s \in Seq(X), NEW x
  PROVE  Times(x, s) = 0 <=> \A i \in DOMAIN s : s[i] # x
<1>1. PICK S : S = {i \in DOMAIN s : s[i] = x}
  OBVIOUS
<1>2. Cardinality(S) = 0 <=> S = {}
  BY <1>1, TimesType, FS_EmptySet, SMTT(20)
<1>3. QED BY <1>1, <1>2 DEF Times

LEMMA NoMarkTimes ==
  ASSUME NEW C, NEW L \in Seq(Lexemes(C))
  PROVE  NoMark(L) <=> Marks(L) = 0
  BY TimesNone, MarksAreTimes DEF NoMark

LEMMA FilledWithType ==
  ASSUME NEW C, NEW L \in Seq(Lexemes(C)), NEW g \in [Nat -> Lexemes(C)]
  PROVE  FilledWith(L, g) \in Seq(Lexemes(C)) /\ Len(FilledWith(L, g)) = Len(L)
<1>1. DOMAIN L = 1..Len(L) /\ Len(L) \in Nat /\ \A i \in 1..Len(L) : L[i] \in Lexemes(C)
  BY LenProperties, ElementOfSeq
<1>2. ASSUME NEW i \in 1..Len(L) PROVE g[Marks(SubSeq(L, 1, i))] \in Lexemes(C)
  <2>1. SubSeq(L, 1, i) \in Seq(Lexemes(C))
    BY <1>1, SubSeqProperties
  <2>2. Marks(SubSeq(L, 1, i)) \in Nat
    BY <2>1, MarksAreTimes, TimesType
  <2>3. QED BY <2>2
<1>3. PICK F : F = FilledWith(L, g)
  OBVIOUS
<1>4. DOMAIN F = 1..Len(L) /\ \A i \in 1..Len(L) : F[i] \in Lexemes(C)
  BY <1>1, <1>2, <1>3 DEF FilledWith
<1>5. F = [i \in 1..Len(L) |-> F[i]]
  BY <1>1, <1>3 DEF FilledWith
<1>6. F \in Seq(Lexemes(C)) /\ Len(F) = Len(L)
  <2>1. F \in Seq(Lexemes(C))
    BY <1>1, <1>4, <1>5
  <2>2. QED BY <1>1, <1>4, <2>1, LenProperties
<1>7. QED BY <1>3, <1>6

LEMMA FilledWithEmpty ==
  ASSUME NEW g
  PROVE  FilledWith(<<>>, g) = <<>>
<1>1. PICK e : e = <<>>
  OBVIOUS
<1>2. DOMAIN e = {}
  BY <1>1
<1>3. [i \in DOMAIN e |-> IF e[i] = Mark THEN g[Marks(SubSeq(e, 1, i))] ELSE e[i]] = <<>>
  BY <1>2
<1>4. QED BY <1>1, <1>3 DEF FilledWith

LEMMA FilledWithAppend ==
  ASSUME NEW C, NEW L \in Seq(Lexemes(C)), NEW x \in Lexemes(C), NEW g \in [Nat -> Lexemes(C)]
  PROVE  FilledWith(Append(L, x), g) =
           Append(FilledWith(L, g), IF x = Mark THEN g[Marks(L) + 1] ELSE x)
<1>1. PICK M \in Seq(Lexemes(C)) : M = Append(L, x)
  BY AppendProperties
<1>2. /\ Len(L) \in Nat /\ DOMAIN L = 1..Len(L) /\ DOMAIN M = 1..Len(L) + 1
      /\ Len(M) = Len(L) + 1
      /\ \A i \in 1..Len(L) : M[i] = L[i]
      /\ M[Len(L) + 1] = x
      /\ \A i \in 1..Len(L) : L[i] \in Lexemes(C)
      /\ \A i \in 1..Len(L) + 1 : M[i] \in Lexemes(C)
  BY <1>1, AppendProperties, LenProperties, ElementOfSeq
<1>3. PICK F \in Seq(Lexemes(C)), G \in Seq(Lexemes(C)) :
        F = FilledWith(L, g) /\ G = FilledWith(M, g) /\ Len(F) = Len(L) /\ Len(G) = Len(M)
  BY FilledWithType
<1>4. PICK y \in Lexemes(C) : y = IF x = Mark THEN g[Marks(L) + 1] ELSE x
  <2>1. Marks(L) \in Nat
    BY MarksAreTimes, TimesType
  <2>2. QED BY <2>1
<1>5. PICK A \in Seq(Lexemes(C)) :
        /\ A = Append(F, y) /\ Len(A) = Len(L) + 1
        /\ \A i \in 1..Len(L) : A[i] = F[i]
        /\ A[Len(L) + 1] = y
  <2>1. PICK A \in Seq(Lexemes(C)) : A = Append(F, y)
    BY AppendProperties
  <2>2. Len(A) = Len(L) + 1 /\ (\A i \in 1..Len(L) : A[i] = F[i]) /\ A[Len(L) + 1] = y
    BY <1>3, <2>1, AppendProperties
  <2>3. QED BY <2>1, <2>2
<1>6. ASSUME NEW i \in 1..Len(L) PROVE G[i] = A[i]
  <2>1. SubSeq(M, 1, i) = SubSeq(L, 1, i)
    <3>1. PICK p \in Seq(Lexemes(C)) : p = SubSeq(M, 1, i) /\ Len(p) = i
            /\ \A j \in 1..i : p[j] = M[j]
      <4>1. i \in 0..Len(M)
        BY <1>2
      <4>2. /\ SubSeq(M, 1, i) \in Seq(Lexemes(C)) /\ Len(SubSeq(M, 1, i)) = i
            /\ \A j \in 1..i : SubSeq(M, 1, i)[j] = M[j]
        BY <4>1, PrefixIs
      <4>3. QED BY <4>2
    <3>2. PICK q \in Seq(Lexemes(C)) : q = SubSeq(L, 1, i) /\ Len(q) = i
            /\ \A j \in 1..i : q[j] = L[j]
      <4>1. i \in 0..Len(L)
        BY <1>2
      <4>2. /\ SubSeq(L, 1, i) \in Seq(Lexemes(C)) /\ Len(SubSeq(L, 1, i)) = i
            /\ \A j \in 1..i : SubSeq(L, 1, i)[j] = L[j]
        BY <4>1, PrefixIs
      <4>3. QED BY <4>2
    <3>3. \A j \in 1..i : p[j] = q[j]
      BY <1>2, <3>1, <3>2
    <3>4. p = q
      BY <3>1, <3>2, <3>3, SeqEqual
    <3>5. QED BY <3>1, <3>2, <3>4
  <2>2. i \in DOMAIN L /\ i \in DOMAIN M
    BY <1>2
  <2>3. /\ G[i] = IF M[i] = Mark THEN g[Marks(SubSeq(M, 1, i))] ELSE M[i]
        /\ F[i] = IF L[i] = Mark THEN g[Marks(SubSeq(L, 1, i))] ELSE L[i]
    BY <1>3, <2>2 DEF FilledWith
  <2>4. QED BY <1>2, <1>5, <2>1, <2>3
<1>7. G[Len(L) + 1] = y
  <2>1. SubSeq(M, 1, Len(L) + 1) = M
    BY <1>2, SubSeqFull
  <2>2. Len(L) + 1 \in DOMAIN M
    BY <1>2
  <2>3. G[Len(L) + 1] = IF M[Len(L) + 1] = Mark THEN g[Marks(SubSeq(M, 1, Len(L) + 1))]
                        ELSE M[Len(L) + 1]
    BY <1>3, <2>2 DEF FilledWith
  <2>4. x = Mark => Marks(M) = Marks(L) + 1
    BY <1>1, MarksAreTimes, TimesAppend
  <2>5. G[Len(L) + 1] = IF x = Mark THEN g[Marks(M)] ELSE x
    BY <1>2, <2>1, <2>3
  <2>6. QED BY <1>4, <2>4, <2>5
<1>8. \A i \in 1..Len(L) + 1 : G[i] = A[i]
  BY <1>2, <1>5, <1>6, <1>7
<1>9. G = A
  BY <1>2, <1>3, <1>5, <1>8, SeqEqual
<1>10. QED BY <1>1, <1>3, <1>4, <1>5, <1>9

\* What holds no mark stays.
LEMMA FilledWithConcat ==
  ASSUME NEW C, NEW L \in Seq(Lexemes(C)), NEW g \in [Nat -> Lexemes(C)],
         NEW M \in Seq(Lexemes(C)), NoMark(M)
  PROVE  FilledWith(L \o M, g) = FilledWith(L, g) \o M
<1>0. PICK X : X = Lexemes(C)
  OBVIOUS
<1>1. PICK S : S = {u \in Seq(X) : NoMark(u) => FilledWith(L \o u, g) = FilledWith(L, g) \o u}
  OBVIOUS
<1>2. PICK F \in Seq(X) : F = FilledWith(L, g)
  BY <1>0, FilledWithType
<1>3. <<>> \in S
  BY <1>0, <1>1, <1>2, ConcatEmptySeq, EmptySeq
<1>4. ASSUME NEW u \in S \cap Seq(X), NEW x \in X PROVE Append(u, x) \in S
  <2>1. PICK a \in Seq(X) : a = Append(u, x)
    BY AppendProperties
  <2>2. SUFFICES ASSUME NoMark(a) PROVE FilledWith(L \o a, g) = F \o a
    BY <1>1, <1>2, <2>1
  <2>3. NoMark(u) /\ x # Mark
    <3>1. Marks(a) = 0
      BY <1>0, <2>2, NoMarkTimes
    <3>2. Marks(a) = Marks(u) + IF x = Mark THEN 1 ELSE 0
      BY <2>1, MarksAreTimes, TimesAppend
    <3>3. Marks(u) \in Nat
      BY MarksAreTimes, TimesType
    <3>4. Marks(u) = 0 /\ x # Mark
      BY <3>1, <3>2, <3>3
    <3>5. QED BY <1>0, <3>4, NoMarkTimes
  <2>4. PICK w \in Seq(X) : w = L \o u
    BY <1>0, ConcatProperties
  <2>5. L \o a = Append(w, x)
    BY <1>0, <2>1, <2>4, ConcatAppend
  <2>6. FilledWith(Append(w, x), g) = Append(FilledWith(w, g), x)
    BY <1>0, <2>3, FilledWithAppend
  <2>7. FilledWith(w, g) = F \o u
    BY <1>1, <1>2, <2>3, <2>4
  <2>8. F \o a = Append(F \o u, x)
    BY <2>1, ConcatAppend
  <2>9. QED BY <2>5, <2>6, <2>7, <2>8
<1>5. Seq(X) \subseteq S
  BY <1>3, <1>4, AppendInduction
<1>6. QED BY <1>0, <1>1, <1>5

LEMMA GivenIs ==
  ASSUME NEW C, NEW args \in Seq(Seq(C))
  PROVE  /\ Given(args) \in [Nat -> Lexemes(C)]
         /\ \A n \in 1..Len(args) : Given(args)[n] = Value(args[n])
<1>1. DOMAIN args = 1..Len(args) /\ \A n \in 1..Len(args) : args[n] \in Seq(C)
  BY LenProperties, ElementOfSeq
<1>2. ASSUME NEW n \in Nat
      PROVE  Value(IF n \in DOMAIN args THEN args[n] ELSE <<>>) \in Lexemes(C)
  <2>1. PICK v \in Seq(C) : v = IF n \in DOMAIN args THEN args[n] ELSE <<>>
    BY <1>1, EmptySeq
  <2>2. QED BY <2>1, LexemeIs DEF Value
<1>3. QED BY <1>1, <1>2 DEF Given

\* A mark is one of those there are, counted from the beginning.
LEMMA MarkRank ==
  ASSUME NEW C, NEW L \in Seq(Lexemes(C)), NEW i \in DOMAIN L, L[i] = Mark
  PROVE  Marks(SubSeq(L, 1, i)) \in 1..Marks(L)
<1>1. DOMAIN L = 1..Len(L) /\ Len(L) \in Nat /\ i \in 0..Len(L)
  BY LenProperties
<1>2. PICK p \in Seq(Lexemes(C)) : p = SubSeq(L, 1, i) /\ Len(p) = i
        /\ \A j \in 1..i : p[j] = L[j]
  BY <1>1, PrefixIs, ZenonT(20)
<1>3. DOMAIN p = 1..i
  BY <1>2, LenProperties
<1>4. p[i] = Mark /\ i \in DOMAIN p
  BY <1>1, <1>2, <1>3
<1>5. Marks(p) # 0
  BY <1>4, NoMarkTimes DEF NoMark
<1>6. Marks(p) <= Marks(L) /\ Marks(p) \in Nat /\ Marks(L) \in Nat
  <2>1. {j \in DOMAIN p : p[j] = Mark} \subseteq {j \in DOMAIN L : L[j] = Mark}
    BY <1>1, <1>2, <1>3
  <2>2. IsFiniteSet({j \in DOMAIN L : L[j] = Mark})
    BY TimesType
  <2>3. Marks(p) <= Marks(L)
    BY <2>1, <2>2, FS_Subset DEF Marks
  <2>4. QED BY <2>3, MarksAreTimes, TimesType
<1>7. QED BY <1>2, <1>5, <1>6

LEMMA FilledIs ==
  ASSUME NEW C, NEW L \in Seq(Lexemes(C)), NEW args \in Seq(Seq(C)), Marks(L) <= Len(args)
  PROVE  Filled(L, args) = FilledWith(L, Given(args))
<1>1. Marks(L) \in Nat /\ Len(args) \in Nat
  BY MarksAreTimes, TimesType, LenProperties
<1>2. ASSUME NEW i \in DOMAIN L, L[i] = Mark
      PROVE  Value(args[Marks(SubSeq(L, 1, i))]) = Given(args)[Marks(SubSeq(L, 1, i))]
  <2>1. PICK n \in 1..Marks(L) : n = Marks(SubSeq(L, 1, i))
    BY <1>2, MarkRank
  <2>2. n \in 1..Len(args)
    BY <1>1, <2>1
  <2>3. QED BY <2>1, <2>2, GivenIs
<1>3. QED BY <1>2 DEF Filled, FilledWith

-----------------------------------------------------------------------------
(* Where lexemes end, for the driver                                       *)

\* From b down to a.
LEMMA DownInduction ==
  ASSUME NEW a \in Nat, NEW b \in Nat, NEW S,
         \A i \in a..b : (\A j \in i + 1..b : j \in S) => i \in S
  PROVE  a..b \subseteq S
<1>1. PICK A : A = {n \in Nat : \A i \in a..b : i > b - n => i \in S}
  OBVIOUS
<1>2. 0 \in A
  BY <1>1
<1>3. ASSUME NEW n \in A \cap Nat PROVE n + 1 \in A
  <2>1. SUFFICES ASSUME NEW i \in a..b, i > b - (n + 1) PROVE i \in S
    BY <1>1
  <2>2. \A j \in i + 1..b : j \in a..b /\ j > b - n
    BY <2>1
  <2>3. \A j \in i + 1..b : j \in S
    BY <1>1, <2>2
  <2>4. QED BY <2>3
<1>4. b + 1 \in A
  BY <1>2, <1>3, Induction
<1>5. QED BY <1>1, <1>4

\* There is a function that goes on as a scan of the driver does.
LEMMA JumpRecursion ==
  ASSUME NEW a \in Nat, NEW b \in Nat, a <= b, NEW stop, NEW val, NEW nx,
         \A i \in a..b : i \in stop \/ nx[i] \in i + 1..b
  PROVE  \E f : f = [i \in a..b |-> f[i]] /\ Jumps(f, a, b, stop, val, nx)
<1>1. PICK A : A = {n \in Nat : n <= b - a =>
                      \E f : /\ f = [i \in b - n..b |-> f[i]]
                             /\ \A i \in b - n..b : f[i] = IF i \in stop THEN val[i] ELSE f[nx[i]]}
  OBVIOUS
<1>2. 0 \in A
  <2>1. PICK f : f = [i \in b - 0..b |-> val[i]]
    OBVIOUS
  <2>2. b - 0..b = {b} /\ b \in a..b
    OBVIOUS
  <2>3. b \in stop
    BY <2>2
  <2>4. f = [i \in b - 0..b |-> f[i]]
        /\ \A i \in b - 0..b : f[i] = IF i \in stop THEN val[i] ELSE f[nx[i]]
    BY <2>1, <2>2, <2>3
  <2>5. QED BY <1>1, <2>4
<1>3. ASSUME NEW n \in A \cap Nat PROVE n + 1 \in A
  <2>1. SUFFICES ASSUME n + 1 <= b - a
                 PROVE  \E f : /\ f = [i \in b - (n + 1)..b |-> f[i]]
                               /\ \A i \in b - (n + 1)..b :
                                    f[i] = IF i \in stop THEN val[i] ELSE f[nx[i]]
    BY <1>1
  <2>2. PICK f : /\ f = [i \in b - n..b |-> f[i]]
                 /\ \A i \in b - n..b : f[i] = IF i \in stop THEN val[i] ELSE f[nx[i]]
    BY <1>1, <2>1
  <2>3. PICK k \in a..b : k = b - (n + 1)
    BY <2>1
  <2>4. PICK g : g = [i \in k..b |-> IF i = k THEN IF k \in stop THEN val[k] ELSE f[nx[k]] ELSE f[i]]
    OBVIOUS
  <2>5. \A i \in k..b : i = k \/ i \in b - n..b
    BY <2>1, <2>3
  <2>6. \A i \in b - n..b : i \in k..b /\ i # k
    BY <2>1, <2>3
  <2>7. g = [i \in k..b |-> g[i]]
    BY <2>4
  <2>8. ASSUME NEW i \in k..b PROVE g[i] = IF i \in stop THEN val[i] ELSE g[nx[i]]
    <3>1. i \in a..b
      BY <2>3
    <3>2. i \notin stop => nx[i] \in i + 1..b
      BY <3>1
    <3>3. i \notin stop => nx[i] \in b - n..b
      BY <2>3, <3>2
    <3>4. i \notin stop => g[nx[i]] = f[nx[i]]
      BY <2>4, <2>6, <3>3
    <3>5. CASE i = k
      BY <2>4, <3>4, <3>5
    <3>6. CASE i # k
      <4>1. i \in b - n..b
        BY <2>5, <3>6
      <4>2. g[i] = f[i] /\ f[i] = IF i \in stop THEN val[i] ELSE f[nx[i]]
        BY <2>2, <2>4, <3>6, <4>1
      <4>3. QED BY <3>4, <4>2
    <3>7. QED BY <3>5, <3>6
  <2>9. QED BY <2>3, <2>7, <2>8
<1>4. b - a \in Nat /\ b - (b - a) = a
  OBVIOUS
<1>5. b - a \in A
  BY <1>2, <1>3, <1>4, Induction
<1>6. QED BY <1>1, <1>4, <1>5 DEF Jumps

LEMMA LeastIs ==
  ASSUME NEW S \in SUBSET Nat, NEW d
  PROVE  /\ S = {} => Least(S, d) = d
         /\ S # {} => Least(S, d) \in S /\ \A m \in S : Least(S, d) <= m
<1>1. CASE S = {}
  BY <1>1 DEF Least
<1>2. CASE S # {}
  <2>1. \E n \in S : \A m \in S : n <= m
    BY <1>2, LeastNumber
  <2>2. Least(S, d) = CHOOSE n \in S : \A m \in S : n <= m
    BY <1>2 DEF Least
  <2>3. QED BY <1>2, <2>1, <2>2
<1>3. QED BY <1>1, <1>2

\* The scan for the closing quote, unrolled.
LEMMA QuoteEndSteps ==
  ASSUME NEW C, NEW sql \in Seq(C), NEW i \in 1..Len(sql), NEW backslash \in BOOLEAN
  PROVE  \E end : QuoteEnd(sql, i, backslash) = end[i + 1] /\ Ends(end, sql, i, backslash)
<1>1. Len(sql) \in Nat /\ i \in Nat
  BY LenProperties
<1>2. PICK N \in Nat : N = Len(sql)
  BY <1>1
<1>3. PICK esc : esc = {j \in i + 1..N : backslash /\ sql[j] = Backslash}
  OBVIOUS
<1>4. PICK dbl : dbl = {j \in i + 1..N : j < N /\ sql[j + 1] = sql[i]}
  OBVIOUS
<1>5. PICK stop : stop = {j \in i + 1..N + 2 :
                            j > N \/ (j \notin esc /\ sql[j] = sql[i] /\ j \notin dbl)}
  OBVIOUS
<1>6. PICK nx : nx = [j \in i + 1..N + 2 |->
                        IF j \in esc THEN j + IF j < N THEN 2 ELSE 1
                        ELSE IF sql[j] # sql[i] THEN j + 1 ELSE j + 2]
  OBVIOUS
<1>0. PICK val : val = [j \in i + 1..N + 2 |-> j]
  OBVIOUS
<1>7. \A j \in i + 1..N + 2 : j \in stop \/ nx[j] \in j + 1..N + 2
  <2>1. SUFFICES ASSUME NEW j \in i + 1..N + 2, j \notin stop PROVE nx[j] \in j + 1..N + 2
    OBVIOUS
  <2>2. j <= N /\ j \in Nat
    BY <1>1, <1>5, <2>1
  <2>3. nx[j] = IF j \in esc THEN j + IF j < N THEN 2 ELSE 1
                ELSE IF sql[j] # sql[i] THEN j + 1 ELSE j + 2
    BY <1>6
  <2>4. nx[j] \in {j + 1, j + 2}
    BY <2>3
  <2>5. QED BY <2>2, <2>4
<1>8. PICK f : f = [j \in i + 1..N + 2 |-> f[j]] /\ Jumps(f, i + 1, N + 2, stop, val, nx)
  <2>1. i + 1 \in Nat /\ N + 2 \in Nat /\ i + 1 <= N + 2
    BY <1>1, <1>2
  <2>2. QED BY <1>7, <2>1, JumpRecursion
<1>9. f = [j \in i + 1..Len(sql) + 2 |->
             IF j > Len(sql) THEN j
             ELSE IF backslash /\ sql[j] = Backslash THEN f[j + IF j < Len(sql) THEN 2 ELSE 1]
             ELSE IF sql[j] # sql[i] THEN f[j + 1]
             ELSE IF j < Len(sql) /\ sql[j + 1] = sql[i] THEN f[j + 2] ELSE j]
  <2>1. ASSUME NEW j \in i + 1..N + 2
        PROVE  f[j] = IF j > N THEN j
             ELSE IF backslash /\ sql[j] = Backslash THEN f[j + IF j < N THEN 2 ELSE 1]
             ELSE IF sql[j] # sql[i] THEN f[j + 1]
             ELSE IF j < N /\ sql[j + 1] = sql[i] THEN f[j + 2] ELSE j
    <3>1. f[j] = IF j \in stop THEN j ELSE f[nx[j]]
      BY <1>0, <1>8 DEF Jumps
    <3>2. nx[j] = IF j \in esc THEN j + IF j < N THEN 2 ELSE 1
                  ELSE IF sql[j] # sql[i] THEN j + 1 ELSE j + 2
      BY <1>6
    <3>3. CASE j > N
      BY <1>5, <3>1, <3>3
    <3>4. CASE j <= N
      <4>1. j \in i + 1..N /\ ~(j > N)
        BY <1>1, <3>4
      <4>2. /\ j \in esc <=> backslash /\ sql[j] = Backslash
            /\ j \in dbl <=> j < N /\ sql[j + 1] = sql[i]
            /\ j \in stop <=> j \notin esc /\ sql[j] = sql[i] /\ j \notin dbl
        BY <1>3, <1>4, <1>5, <4>1
      <4>3. QED BY <3>1, <3>2, <4>1, <4>2
    <3>5. QED BY <1>1, <3>3, <3>4
  <2>2. QED BY <1>2, <1>8, <2>1
<1> DEFINE end[j \in i + 1..Len(sql) + 2] ==
             IF j > Len(sql) THEN j
             ELSE IF backslash /\ sql[j] = Backslash THEN end[j + IF j < Len(sql) THEN 2 ELSE 1]
             ELSE IF sql[j] # sql[i] THEN end[j + 1]
             ELSE IF j < Len(sql) /\ sql[j + 1] = sql[i] THEN end[j + 2] ELSE j
<1>10. end = [j \in i + 1..Len(sql) + 2 |->
             IF j > Len(sql) THEN j
             ELSE IF backslash /\ sql[j] = Backslash THEN end[j + IF j < Len(sql) THEN 2 ELSE 1]
             ELSE IF sql[j] # sql[i] THEN end[j + 1]
             ELSE IF j < Len(sql) /\ sql[j + 1] = sql[i] THEN end[j + 2] ELSE j]
  BY <1>9, Zenon
<1>11. QuoteEnd(sql, i, backslash) = end[i + 1]
  BY Zenon DEF QuoteEnd
<1> HIDE DEF end
<1>12. Ends(end, sql, i, backslash)
  BY <1>10, Zenon DEF Ends
<1>13. QED BY <1>11, <1>12

LEMMA QuoteEndType ==
  ASSUME NEW C, NEW sql \in Seq(C), NEW i \in 1..Len(sql), NEW backslash \in BOOLEAN
  PROVE  QuoteEnd(sql, i, backslash) \in i + 1..Len(sql) + 1
<1>1. PICK N \in Nat : N = Len(sql) /\ i \in Nat
  BY LenProperties
<1>2. PICK end : QuoteEnd(sql, i, backslash) = end[i + 1] /\ Ends(end, sql, i, backslash)
  BY QuoteEndSteps
<1>3. PICK S : S = {j \in i + 1..N + 1 : end[j] \in j..N + 1}
  OBVIOUS
<1>4. ASSUME NEW j \in i + 1..N + 1, \A k \in j + 1..N + 1 : k \in S PROVE j \in S
  <2>1. j \in i + 1..Len(sql) + 2 /\ j \in Nat
    BY <1>1
  <2>2. PICK k \in Nat : k = j + IF j < N THEN 2 ELSE 1
    BY <2>1
  <2>3. end[j] \in {j, end[k], end[j + 1], end[j + 2]} /\ (j > N => end[j] = j)
        /\ (end[j] \in {j, end[k], end[j + 1]} \/ j < N)
    BY <1>1, <1>2, <2>1, <2>2 DEF Ends
  <2>4. CASE j > N
    BY <1>1, <1>3, <2>1, <2>3, <2>4
  <2>5. CASE j <= N
    <3>1. \A m \in j + 1..N + 1 : end[m] \in j..N + 1
      BY <1>3, <1>4, <2>1
    <3>2. k \in j + 1..N + 1 /\ j + 1 \in j + 1..N + 1 /\ (j < N => j + 2 \in j + 1..N + 1)
      BY <2>1, <2>2, <2>5
    <3>3. end[j] \in j..N + 1
      BY <2>1, <2>3, <2>5, <3>1, <3>2
    <3>4. QED BY <1>3, <3>3
  <2>6. QED BY <1>1, <2>1, <2>4, <2>5
<1>5. i + 1..N + 1 \subseteq S
  <2>1. i + 1 \in Nat /\ N + 1 \in Nat
    BY <1>1
  <2>2. QED BY <1>4, <2>1, DownInduction
<1>6. i + 1 \in i + 1..N + 1
  BY <1>1
<1>7. QED BY <1>1, <1>2, <1>3, <1>5, <1>6

LEMMA LineEndIs ==
  ASSUME NEW C, NEW sql \in Seq(C), NEW i \in 1..Len(sql)
  PROVE  /\ LineEnd(sql, i) \in i..Len(sql) + 1
         /\ \A j \in i..LineEnd(sql, i) - 1 : sql[j] # Newline
         /\ LineEnd(sql, i) <= Len(sql) => sql[LineEnd(sql, i)] = Newline
<1>1. PICK N \in Nat : N = Len(sql) /\ i \in Nat
  BY LenProperties
<1>2. PICK S : S = {j \in i..N : sql[j] = Newline}
  OBVIOUS
<1>3. S \in SUBSET Nat
  BY <1>1, <1>2
<1>4. PICK e : e = LineEnd(sql, i)
  OBVIOUS
<1>5. e = Least(S, N + 1)
  BY <1>1, <1>2, <1>4 DEF LineEnd
<1>6. CASE S = {}
  <2>1. e = N + 1
    BY <1>3, <1>5, <1>6, LeastIs
  <2>2. QED BY <1>1, <1>2, <1>4, <1>6, <2>1
<1>7. CASE S # {}
  <2>1. e \in S /\ \A m \in S : e <= m
    BY <1>3, <1>5, <1>7, LeastIs
  <2>2. QED BY <1>1, <1>2, <1>4, <2>1
<1>8. QED BY <1>6, <1>7

LEMMA CommentEndIs ==
  ASSUME NEW C, NEW sql \in Seq(C), NEW i \in 1..Len(sql)
  PROVE  \/ /\ CommentEnd(sql, i) = Len(sql) + 1
            /\ \A k \in i + 2..Len(sql) : ~Two(sql, k, "*", "/")
         \/ \E k \in i + 2..Len(sql) :
              /\ CommentEnd(sql, i) = k + 1 /\ Two(sql, k, "*", "/")
              /\ \A m \in i + 2..k - 1 : ~Two(sql, m, "*", "/")
<1>1. PICK N \in Nat : N = Len(sql) /\ i \in Nat
  BY LenProperties
<1>2. PICK T : T = {k \in i + 2..N : Two(sql, k, "*", "/")}
  OBVIOUS
<1>3. PICK S : S = {j + 1 : j \in T}
  OBVIOUS
<1>4. S \in SUBSET Nat
  BY <1>1, <1>2, <1>3
<1>5. PICK e : e = CommentEnd(sql, i)
  OBVIOUS
<1>6. e = Least(S, N + 1)
  BY <1>1, <1>2, <1>3, <1>5 DEF CommentEnd
<1>7. CASE S = {}
  <2>1. e = N + 1 /\ T = {}
    BY <1>3, <1>4, <1>6, <1>7, LeastIs
  <2>2. QED BY <1>1, <1>2, <1>5, <2>1
<1>8. CASE S # {}
  <2>1. e \in S /\ \A m \in S : e <= m
    BY <1>4, <1>6, <1>8, LeastIs
  <2>2. PICK k \in T : e = k + 1
    BY <1>3, <2>1
  <2>3. k \in i + 2..N /\ Two(sql, k, "*", "/")
    BY <1>2, <2>2
  <2>4. ASSUME NEW m \in i + 2..k - 1 PROVE ~Two(sql, m, "*", "/")
    <3>1. SUFFICES ASSUME m \in T PROVE FALSE
      BY <1>1, <1>2, <2>3
    <3>2. m + 1 \in S
      BY <1>3, <3>1
    <3>3. e <= m + 1
      BY <2>1, <3>2
    <3>4. QED BY <1>1, <2>2, <2>3, <3>3
  <2>5. QED BY <1>1, <1>5, <2>2, <2>3, <2>4
<1>9. QED BY <1>7, <1>8

\* Where a lexeme ends, by the character it begins with.
LEMMA LexemeEndCases ==
  ASSUME NEW sql, NEW i, NEW l
  PROVE  /\ sql[i] \in {"'", DoubleQuote} =>
              LexemeEnd(sql, i, l) = QuoteEnd(sql, i, l = "mysql")
         /\ sql[i] = Backquote /\ IsMysql(l) => LexemeEnd(sql, i, l) = QuoteEnd(sql, i, FALSE)
         /\ sql[i] \notin {"'", DoubleQuote} /\ ~(sql[i] = Backquote /\ IsMysql(l))
              /\ ~(sql[i] = "#" /\ IsMysql(l)) /\ ~Two(sql, i, "-", "-")
              /\ ~Two(sql, i, "/", "*") => LexemeEnd(sql, i, l) = i
<1> USE DEF DoubleQuote, Backquote
<1>1. ASSUME sql[i] \in {"'", DoubleQuote}
      PROVE  LexemeEnd(sql, i, l) = QuoteEnd(sql, i, l = "mysql")
  <2>1. /\ ~(sql[i] = Backquote /\ IsMysql(l)) /\ ~(sql[i] = "#" /\ IsMysql(l))
        /\ ~Two(sql, i, "-", "-") /\ ~Two(sql, i, "/", "*")
    BY <1>1 DEF Two
  <2>2. QED BY <1>1, <2>1, Zenon DEF LexemeEnd
<1>2. ASSUME sql[i] = Backquote, IsMysql(l)
      PROVE  LexemeEnd(sql, i, l) = QuoteEnd(sql, i, FALSE)
  <2>1. /\ sql[i] \notin {"'", DoubleQuote} /\ ~(sql[i] = "#" /\ IsMysql(l))
        /\ ~Two(sql, i, "-", "-") /\ ~Two(sql, i, "/", "*")
    BY <1>2 DEF Two
  <2>2. QED BY <1>2, <2>1, Zenon DEF LexemeEnd
<1>6. ASSUME sql[i] \notin {"'", DoubleQuote}, ~(sql[i] = Backquote /\ IsMysql(l)),
             ~(sql[i] = "#" /\ IsMysql(l)), ~Two(sql, i, "-", "-"), ~Two(sql, i, "/", "*")
      PROVE  LexemeEnd(sql, i, l) = i
  BY <1>6, Zenon DEF LexemeEnd
<1>7. QED BY <1>1, <1>2, <1>6

LEMMA HashLexeme ==
  ASSUME NEW sql, NEW i, NEW l, sql[i] = "#", IsMysql(l)
  PROVE  LexemeEnd(sql, i, l) = LineEnd(sql, i)
<1>1. /\ sql[i] \notin {"'", DoubleQuote} /\ ~(sql[i] = Backquote /\ IsMysql(l))
      /\ ~Two(sql, i, "-", "-") /\ ~Two(sql, i, "/", "*")
  BY DEF Two, DoubleQuote, Backquote
<1>2. QED BY <1>1, Zenon DEF LexemeEnd

LEMMA DashesLexeme ==
  ASSUME NEW sql, NEW i, NEW l, Two(sql, i, "-", "-")
  PROVE  LexemeEnd(sql, i, l) = LineEnd(sql, i)
<1>1. /\ sql[i] \notin {"'", DoubleQuote} /\ ~(sql[i] = Backquote /\ IsMysql(l))
      /\ ~(sql[i] = "#" /\ IsMysql(l)) /\ ~Two(sql, i, "/", "*")
  BY DEF Two, DoubleQuote, Backquote
<1>2. QED BY <1>1, Zenon DEF LexemeEnd

LEMMA CommentLexeme ==
  ASSUME NEW sql, NEW i, NEW l, Two(sql, i, "/", "*")
  PROVE  LexemeEnd(sql, i, l) = CommentEnd(sql, i)
<1>1. /\ sql[i] \notin {"'", DoubleQuote} /\ ~(sql[i] = Backquote /\ IsMysql(l))
      /\ ~(sql[i] = "#" /\ IsMysql(l)) /\ ~Two(sql, i, "-", "-")
  BY DEF Two, DoubleQuote, Backquote
<1>2. QED BY <1>1, Zenon DEF LexemeEnd

\* The scan never goes back, nor past the end by more than one.
LEMMA LexemeEndType ==
  ASSUME NEW C, NEW sql \in Seq(C), NEW i \in 1..Len(sql), NEW l
  PROVE  LexemeEnd(sql, i, l) \in i..Len(sql) + 1
<1>1. PICK N \in Nat : N = Len(sql) /\ i \in Nat
  BY LenProperties
<1>2. PICK e : e = LexemeEnd(sql, i, l)
  OBVIOUS
<1>3. \A b \in BOOLEAN : QuoteEnd(sql, i, b) \in i..N + 1
  <2>1. \A b \in BOOLEAN : QuoteEnd(sql, i, b) \in i + 1..N + 1
    BY <1>1, QuoteEndType
  <2>2. QED BY <1>1, <2>1
<1>4. LineEnd(sql, i) \in i..N + 1
  BY <1>1, LineEndIs
<1>5. CASE Two(sql, i, "/", "*")
  <2>1. e = CommentEnd(sql, i)
    BY <1>2, <1>5, CommentLexeme
  <2>2. e = N + 1 \/ \E k \in i + 2..N : e = k + 1
    BY <1>1, <2>1, CommentEndIs
  <2>3. QED BY <1>1, <1>2, <2>2
<1>6. CASE ~Two(sql, i, "/", "*")
  <2>1. \/ \E b \in BOOLEAN : e = QuoteEnd(sql, i, b)
        \/ e = LineEnd(sql, i)
        \/ e = i
    <3>1. CASE sql[i] = "#" /\ IsMysql(l)
      BY <1>2, <3>1, HashLexeme
    <3>2. CASE Two(sql, i, "-", "-")
      BY <1>2, <3>2, DashesLexeme
    <3>3. CASE sql[i] \in {"'", DoubleQuote}
      BY <1>2, <3>3, LexemeEndCases
    <3>4. CASE sql[i] = Backquote /\ IsMysql(l)
      BY <1>2, <3>4, LexemeEndCases
    <3>5. CASE /\ sql[i] \notin {"'", DoubleQuote} /\ ~(sql[i] = Backquote /\ IsMysql(l))
               /\ ~(sql[i] = "#" /\ IsMysql(l)) /\ ~Two(sql, i, "-", "-")
      BY <1>2, <1>6, <3>5, LexemeEndCases
    <3>6. QED BY <3>1, <3>2, <3>3, <3>4, <3>5
  <2>2. QED BY <1>1, <1>2, <1>3, <1>4, <2>1
<1>7. QED BY <1>5, <1>6

\* The scan for the next placeholder, unrolled.
LEMMA NextSteps ==
  ASSUME NEW C, NEW sql \in Seq(C), NEW start \in 1..Len(sql) + 1, NEW l
  PROVE  \E next : NextPlaceholder(sql, start, l) = next[start] /\ Finds(next, sql, start, l)
<1>1. PICK N \in Nat : N = Len(sql) /\ start \in Nat
  BY LenProperties
<1>2. PICK stop : stop = {i \in start..N + 3 : i > N \/ sql[i] = "?"}
  OBVIOUS
<1>3. PICK val : val = [i \in start..N + 3 |-> IF i > N THEN npos ELSE i]
  OBVIOUS
<1>4. PICK nx : nx = [i \in start..N + 3 |-> LexemeEnd(sql, i, l) + 1]
  OBVIOUS
<1>5. \A i \in start..N + 3 : i \in stop \/ nx[i] \in i + 1..N + 3
  <2>1. SUFFICES ASSUME NEW i \in start..N + 3, i \notin stop PROVE nx[i] \in i + 1..N + 3
    OBVIOUS
  <2>2. i \in 1..Len(sql)
    BY <1>1, <1>2, <2>1
  <2>3. LexemeEnd(sql, i, l) \in i..Len(sql) + 1
    BY <2>2, LexemeEndType
  <2>4. nx[i] = LexemeEnd(sql, i, l) + 1
    BY <1>4
  <2>5. QED BY <1>1, <2>2, <2>3, <2>4
<1>6. PICK f : f = [i \in start..N + 3 |-> f[i]] /\ Jumps(f, start, N + 3, stop, val, nx)
  <2>1. start \in Nat /\ N + 3 \in Nat /\ start <= N + 3
    BY <1>1
  <2>2. QED BY <1>5, <2>1, JumpRecursion
<1>7. f = [i \in start..Len(sql) + 3 |->
            IF i > Len(sql) THEN npos
            ELSE IF sql[i] = "?" THEN i ELSE f[LexemeEnd(sql, i, l) + 1]]
  <2>1. ASSUME NEW i \in start..N + 3
        PROVE  f[i] = IF i > N THEN npos
                      ELSE IF sql[i] = "?" THEN i ELSE f[LexemeEnd(sql, i, l) + 1]
    <3>1. f[i] = IF i \in stop THEN val[i] ELSE f[nx[i]]
      BY <1>6 DEF Jumps
    <3>2. nx[i] = LexemeEnd(sql, i, l) + 1 /\ val[i] = IF i > N THEN npos ELSE i
      BY <1>3, <1>4
    <3>3. i \in stop <=> i > N \/ sql[i] = "?"
      BY <1>2
    <3>4. QED BY <3>1, <3>2, <3>3
  <2>2. QED BY <1>1, <1>6, <2>1
<1> DEFINE next[i \in start..Len(sql) + 3] ==
            IF i > Len(sql) THEN npos
            ELSE IF sql[i] = "?" THEN i ELSE next[LexemeEnd(sql, i, l) + 1]
<1>8. next = [i \in start..Len(sql) + 3 |->
            IF i > Len(sql) THEN npos
            ELSE IF sql[i] = "?" THEN i ELSE next[LexemeEnd(sql, i, l) + 1]]
  BY <1>7, Zenon
<1>9. NextPlaceholder(sql, start, l) = next[start]
  BY Zenon DEF NextPlaceholder
<1> HIDE DEF next
<1>10. Finds(next, sql, start, l)
  BY <1>8, Zenon DEF Finds
<1>11. QED BY <1>9, <1>10

-----------------------------------------------------------------------------
(* The driver skips what the server takes for one lexeme                   *)

LEMMA BeginsPlain ==
  ASSUME NEW f, NEW sql, NEW i \in Nat, f[i - 1].mode = "plain", NoMark(f[i - 1].read),
         i > Len(sql) => NoMark(f[Len(sql)].read)
  PROVE  Begins(f, sql, i)
<1>1. Fits("plain", sql[i]) /\ "plain" \in Rest
  BY DEF Fits, Rest, QuoteEnds
<1>2. QED BY <1>1 DEF Begins

LEMMA ScannerStep ==
  ASSUME NEW C, NEW f, NEW sql, NEW start, NEW l, Scanner(f, sql, start, l, C),
         NEW j \in start..Len(sql)
  PROVE  /\ j \in Nat /\ Len(sql) \in Nat /\ start \in Nat /\ j - 1 \in start - 1..Len(sql)
         /\ j \in start - 1..Len(sql) /\ j \in 1..Len(sql)
         /\ f[j] \in States(C) /\ f[j - 1] \in States(C) /\ sql[j] \in C
         /\ f[j] = Reads(f[j - 1], sql[j], l)
<1>1. sql \in Seq(C) /\ start \in 1..Len(sql) + 1
  BY DEF Scanner
<1>2. Len(sql) \in Nat
  BY <1>1, LenProperties
<1>3. start \in Nat /\ j \in Nat /\ j \in 1..Len(sql) /\ j - 1 \in start - 1..Len(sql)
      /\ j \in start - 1..Len(sql)
  BY <1>1, <1>2
<1>4. sql[j] \in C
  BY <1>1, <1>3, ElementOfSeq
<1>5. QED BY <1>2, <1>3, <1>4 DEF Scanner

\* A character inside quotes.
LEMMA QuotedStep ==
  ASSUME NEW C, NEW f, NEW sql, NEW start, NEW l, Scanner(f, sql, start, l, C),
         NEW j \in start..Len(sql), NEW q \in Quotes, f[j - 1].mode = q
  PROVE  /\ f[j].read = f[j - 1].read
         /\ sql[j] = Closing[q] => f[j].mode = Doubled[q]
         /\ sql[j] # Closing[q] /\ sql[j] = Backslash /\ l = "mysql" /\ q \in DOMAIN Escaped =>
              f[j].mode = Escaped[q]
         /\ sql[j] # Closing[q] /\ ~(sql[j] = Backslash /\ l = "mysql" /\ q \in DOMAIN Escaped) =>
              f[j].mode = q
<1>1. f[j] = Reads(f[j - 1], sql[j], l) /\ f[j - 1] \in States(C)
  BY ScannerStep
<1>2. PICK s : s = f[j - 1]
  OBVIOUS
<1>3. s = Reading(q, s.read, s.open)
  BY <1>1, <1>2, StateParts
<1>4. f[j] = Within(s, q, sql[j], l)
  BY <1>1, <1>2, ReadsQuoted
<1>5. CASE sql[j] = Closing[q]
  <2>1. f[j] = Reading(Doubled[q], s.read, s.open)
    BY <1>4, <1>5 DEF Within
  <2>2. QED BY <1>2, <1>5, <2>1, ReadingIs
<1>6. CASE sql[j] # Closing[q] /\ sql[j] = Backslash /\ l = "mysql" /\ q \in DOMAIN Escaped
  <2>1. f[j] = Reading(Escaped[q], s.read, s.open)
    BY <1>4, <1>6 DEF Within
  <2>2. QED BY <1>2, <1>6, <2>1, ReadingIs
<1>7. CASE sql[j] # Closing[q] /\ ~(sql[j] = Backslash /\ l = "mysql" /\ q \in DOMAIN Escaped)
  <2>1. f[j] = Reading(q, s.read, Append(s.open, sql[j]))
    BY <1>4, <1>7 DEF Within
  <2>2. QED BY <1>2, <1>7, <2>1, ReadingIs
<1>8. QED BY <1>5, <1>6, <1>7

\* A second quote, and the character behind a backslash, belong to the lexeme.
LEMMA DoubledStep ==
  ASSUME NEW C, NEW f, NEW sql, NEW start, NEW l, Scanner(f, sql, start, l, C),
         NEW j \in start..Len(sql), NEW q \in Quotes, f[j - 1].mode = Doubled[q],
         sql[j] = Closing[q]
  PROVE  f[j].read = f[j - 1].read /\ f[j].mode = q
<1>1. f[j] = Reads(f[j - 1], sql[j], l)
  BY ScannerStep
<1>2. PICK s : s = f[j - 1]
  OBVIOUS
<1>3. Doubled[q] \in QuoteEnds /\ Ended[Doubled[q]] = q
  BY QuoteTable DEF Quotes, QuoteEnds
<1>4. f[j] = AfterQuote(s, q, sql[j], l)
  BY <1>1, <1>2, <1>3, ReadsQuoteEnd
<1>5. f[j] = Reading(q, s.read, Append(s.open, sql[j]))
  BY <1>4 DEF AfterQuote
<1>6. QED BY <1>2, <1>5, ReadingIs

LEMMA EscapedStep ==
  ASSUME NEW C, NEW f, NEW sql, NEW start, NEW l, Scanner(f, sql, start, l, C),
         NEW j \in start..Len(sql), NEW q \in DOMAIN Escaped, f[j - 1].mode = Escaped[q]
  PROVE  f[j].read = f[j - 1].read /\ f[j].mode = q
<1>1. f[j] = Reads(f[j - 1], sql[j], l)
  BY ScannerStep
<1>2. PICK s : s = f[j - 1]
  OBVIOUS
<1>3. Escaped[q] \in Escapes /\ Resumed[Escaped[q]] = q
  BY QuoteTable, Domains DEF Escapes
<1>4. f[j] = Reading(q, s.read, Append(s.open, IF sql[j] = "n" THEN Newline ELSE sql[j]))
  BY <1>1, <1>2, <1>3, ReadsEscape
<1>5. QED BY <1>2, <1>4, ReadingIs

\* Quotes: the driver goes on where the server has closed them.
LEMMA QuoteScan ==
  ASSUME NEW C, NEW f, NEW sql, NEW start, NEW l, Scanner(f, sql, start, l, C),
         NEW i \in start..Len(sql), NEW q \in Quotes, f[i].mode = q, NoMark(f[i].read),
         sql[i] = Closing[q]
  PROVE  LET e == QuoteEnd(sql, i, l = "mysql" /\ q \in DOMAIN Escaped)
         IN  e \in i..Len(sql) + 1 /\ Begins(f, sql, e + 1)
<1>1. PICK N \in Nat : N = Len(sql) /\ i \in 1..N /\ i \in Nat /\ start \in Nat /\ sql \in Seq(C)
  BY ScannerStep DEF Scanner
<1>2. PICK b \in BOOLEAN : b = (l = "mysql" /\ q \in DOMAIN Escaped)
  OBVIOUS
<1>3. PICK end : QuoteEnd(sql, i, b) = end[i + 1] /\ Ends(end, sql, i, b)
  BY <1>1, QuoteEndSteps
<1>4. PICK S : S = {j \in i + 1..N + 1 :
                      /\ j <= N => f[j - 1].mode = q /\ NoMark(f[j - 1].read)
                      /\ j > N => NoMark(f[N].read)
                      => end[j] \in i..N + 1 /\ Begins(f, sql, end[j] + 1)}
  OBVIOUS
<1>5. ASSUME NEW j \in i + 1..N + 1, \A k \in j + 1..N + 1 : k \in S PROVE j \in S
  <2>1. SUFFICES ASSUME /\ j <= N => f[j - 1].mode = q /\ NoMark(f[j - 1].read)
                        /\ j > N => NoMark(f[N].read)
                 PROVE  end[j] \in i..N + 1 /\ Begins(f, sql, end[j] + 1)
    BY <1>4
  <2>2. end[j] = IF j > N THEN j
           ELSE IF b /\ sql[j] = Backslash THEN end[j + IF j < N THEN 2 ELSE 1]
           ELSE IF sql[j] # sql[i] THEN end[j + 1]
           ELSE IF j < N /\ sql[j + 1] = sql[i] THEN end[j + 2] ELSE j
    <3>1. j \in i + 1..Len(sql) + 2
      BY <1>1
    <3>2. QED BY <1>1, <1>3, <3>1 DEF Ends
  <2>3. CASE j > N
    <3>1. end[j] = N + 1 /\ j = N + 1
      BY <1>1, <2>2, <2>3
    <3>2. Begins(f, sql, N + 1 + 1)
      BY <1>1, <2>1, <2>3 DEF Begins
    <3>3. QED BY <1>1, <3>1, <3>2
  <2>4. CASE j <= N
    <3>0. j \in start..Len(sql) /\ j \in Nat /\ f[j - 1].mode = q /\ NoMark(f[j - 1].read)
      BY <1>1, <2>1, <2>4
    <3>1. j < N => j + 1 \in start..Len(sql) /\ j + 1 - 1 = j
      BY <1>1, <3>0
    <3>2. /\ f[j].read = f[j - 1].read
          /\ sql[j] # Closing[q] /\ sql[j] = Backslash /\ l = "mysql" /\ q \in DOMAIN Escaped =>
               f[j].mode = Escaped[q]
          /\ sql[j] # Closing[q] /\ ~(sql[j] = Backslash /\ l = "mysql" /\ q \in DOMAIN Escaped) =>
               f[j].mode = q
      BY <3>0, QuotedStep
    <3>8. NoMark(f[j].read)
      BY <3>0, <3>2
    <3>3. CASE b /\ sql[j] = Backslash
      <4>1. sql[j] # Closing[q]
        BY <3>3, QuoteTable DEF Quotes, Backslash, DoubleQuote, Backquote
      <4>2. f[j].mode = Escaped[q] /\ q \in DOMAIN Escaped
        BY <1>2, <3>2, <3>3, <4>1
      <4>3. CASE j < N
        <5>1. f[j + 1].mode = q /\ f[j + 1].read = f[j].read
          BY <3>1, <4>2, <4>3, EscapedStep
        <5>2. j + 2 \in S /\ end[j] = end[j + 2]
          BY <1>1, <1>5, <2>2, <2>4, <3>0, <3>3, <4>3
        <5>3. j + 2 - 1 = j + 1
          BY <3>0
        <5>4. j + 2 <= N \/ (j + 2 > N /\ N = j + 1)
          BY <1>1, <3>0, <4>3
        <5>5. /\ j + 2 <= N => f[j + 2 - 1].mode = q /\ NoMark(f[j + 2 - 1].read)
              /\ j + 2 > N => NoMark(f[N].read)
          BY <3>8, <5>1, <5>3, <5>4, <1>1, <3>0
        <5>6. QED BY <1>4, <5>2, <5>5
      <4>4. CASE ~(j < N)
        <5>1. j = N /\ end[j] = end[j + 1] /\ j + 1 \in S
          BY <1>1, <1>5, <2>2, <2>4, <3>0, <3>3, <4>4
        <5>2. ~(j + 1 <= N)
          BY <1>1, <5>1
        <5>3. QED BY <1>4, <3>8, <5>1, <5>2
      <4>5. QED BY <4>3, <4>4
    <3>4. CASE ~(b /\ sql[j] = Backslash) /\ sql[j] # sql[i]
      <4>1. f[j].mode = q
        BY <1>2, <3>2, <3>4
      <4>2. j + 1 \in S /\ end[j] = end[j + 1] /\ j + 1 - 1 = j
        BY <1>1, <1>5, <2>2, <2>4, <3>0, <3>4
      <4>3. j + 1 > N => N = j
        BY <1>1, <2>4, <3>0
      <4>4. QED BY <1>4, <3>8, <4>1, <4>2, <4>3
    <3>5. CASE ~(b /\ sql[j] = Backslash) /\ sql[j] = sql[i] /\ j < N /\ sql[j + 1] = sql[i]
      <4>1. f[j].mode = Doubled[q]
        BY <3>0, <3>5, QuotedStep
      <4>2. f[j + 1].mode = q /\ f[j + 1].read = f[j].read
        BY <3>1, <3>5, <4>1, DoubledStep
      <4>3. j + 2 \in S /\ end[j] = end[j + 2]
        BY <1>1, <1>5, <2>2, <2>4, <3>0, <3>5
      <4>4. j + 2 - 1 = j + 1
        BY <3>0
      <4>5. j + 2 <= N \/ (j + 2 > N /\ N = j + 1)
        BY <1>1, <3>0, <3>5
      <4>6. /\ j + 2 <= N => f[j + 2 - 1].mode = q /\ NoMark(f[j + 2 - 1].read)
            /\ j + 2 > N => NoMark(f[N].read)
        BY <3>8, <4>2, <4>4, <4>5, <1>1, <3>0
      <4>7. QED BY <1>4, <4>3, <4>6
    <3>6. CASE ~(b /\ sql[j] = Backslash) /\ sql[j] = sql[i] /\ ~(j < N /\ sql[j + 1] = sql[i])
      <4>1. f[j].mode = Doubled[q]
        BY <3>0, <3>6, QuotedStep
      <4>2. end[j] = j
        BY <2>2, <2>4, <3>0, <3>6, <1>1
      <4>3. Doubled[q] \in Rest /\ Ended[Doubled[q]] = q /\ Doubled[q] \notin {"dash", "slash"}
        BY QuoteTable DEF Quotes, QuoteEnds, Rest
      <4>4. j + 1 - 1 = j
        BY <3>0
      <4>5. j + 1 <= N => sql[j + 1] # Closing[q]
        BY <1>1, <3>0, <3>6
      <4>6. j + 1 <= N => Fits(f[j].mode, sql[j + 1])
        BY <4>1, <4>3, <4>5 DEF Fits
      <4>7. j + 1 > N => N = j
        BY <1>1, <2>4, <3>0
      <4>8. Begins(f, sql, j + 1)
        BY <1>1, <3>0, <3>8, <4>1, <4>3, <4>4, <4>6, <4>7 DEF Begins
      <4>9. QED BY <1>1, <2>4, <3>0, <4>2, <4>8
    <3>7. QED BY <3>3, <3>4, <3>5, <3>6
  <2>5. QED BY <1>1, <2>3, <2>4
<1>6. i + 1..N + 1 \subseteq S
  <2>1. i + 1 \in Nat /\ N + 1 \in Nat
    BY <1>1
  <2>2. QED BY <1>5, <2>1, DownInduction
<1>7. i + 1 \in S /\ i + 1 - 1 = i /\ (i + 1 > N => i = N)
  BY <1>1, <1>6
<1>8. end[i + 1] \in i..N + 1 /\ Begins(f, sql, end[i + 1] + 1)
  BY <1>4, <1>7
<1>9. QED BY <1>1, <1>2, <1>3, <1>8

\* From m on, up to e.
LEMMA UpInduction ==
  ASSUME NEW m \in Nat, NEW e \in Nat, NEW S, m \in S,
         \A j \in m + 1..e : j - 1 \in S => j \in S
  PROVE  \A j \in m..e : j \in S
<1>1. PICK A : A = {n \in Nat : m + n <= e => m + n \in S}
  OBVIOUS
<1>2. 0 \in A
  BY <1>1
<1>3. ASSUME NEW n \in A \cap Nat PROVE n + 1 \in A
  <2>1. SUFFICES ASSUME m + (n + 1) <= e PROVE m + (n + 1) \in S
    BY <1>1
  <2>2. m + n \in S
    BY <1>1, <2>1
  <2>3. m + (n + 1) \in m + 1..e /\ m + (n + 1) - 1 = m + n
    BY <2>1
  <2>4. QED BY <2>2, <2>3
<1>4. Nat \subseteq A
  BY <1>2, <1>3, Induction
<1>5. ASSUME NEW j \in m..e PROVE j \in S
  <2>1. j - m \in Nat /\ m + (j - m) = j
    OBVIOUS
  <2>2. QED BY <1>1, <1>4, <2>1
<1>6. QED BY <1>5

\* A comment to the end of the line.
LEMMA LineScan ==
  ASSUME NEW C, NEW f, NEW sql, NEW start, NEW l, Scanner(f, sql, start, l, C),
         NEW k \in start..Len(sql) + 1, f[k - 1].mode = "line", NoMark(f[k - 1].read),
         NEW e \in k..Len(sql) + 1, \A j \in k..e - 1 : sql[j] # Newline,
         e <= Len(sql) => sql[e] = Newline
  PROVE  Begins(f, sql, e + 1)
<1>1. PICK N \in Nat : N = Len(sql) /\ start \in 1..N + 1
  BY LenProperties DEF Scanner
<1>2. start \in Nat /\ k \in Nat /\ e \in Nat /\ k - 1 \in Nat /\ e - 1 \in Nat
  BY <1>1
<1>3. PICK S : S = {j \in Nat : f[j].mode = "line" /\ NoMark(f[j].read)}
  OBVIOUS
<1>4. ASSUME NEW j \in k - 1 + 1..e - 1, j - 1 \in S PROVE j \in S
  <2>1. j \in start..Len(sql) /\ j \in k..e - 1
    BY <1>1, <1>2
  <2>2. f[j] = Reads(f[j - 1], sql[j], l)
    BY <2>1, ScannerStep
  <2>3. f[j] = Reading("line", f[j - 1].read, <<>>)
    BY <1>3, <1>4, <2>1, <2>2, ReadsLine
  <2>4. QED BY <1>2, <1>3, <1>4, <2>1, <2>3, ReadingIs
<1>5. e - 1 \in S
  <2>1. \A j \in k - 1..e - 1 : j \in S
    BY <1>2, <1>3, <1>4, UpInduction
  <2>2. QED BY <1>2, <2>1
<1>6. CASE e <= N
  <2>1. e \in start..Len(sql)
    BY <1>1, <1>2, <1>6
  <2>2. f[e] = Reads(f[e - 1], sql[e], l)
    BY <2>1, ScannerStep
  <2>3. f[e] = Reading("plain", f[e - 1].read, <<>>)
    BY <1>1, <1>3, <1>5, <1>6, <2>2, ReadsLine
  <2>4. f[e].mode = "plain" /\ NoMark(f[e].read)
    BY <1>3, <1>5, <2>3, ReadingIs
  <2>5. e + 1 - 1 = e /\ (e + 1 > N => N = e)
    BY <1>1, <1>2, <1>6
  <2>6. Fits("plain", sql[e + 1]) /\ "plain" \in Rest
    BY DEF Fits, Rest, QuoteEnds
  <2>7. QED BY <1>1, <1>2, <2>4, <2>5, <2>6 DEF Begins
<1>7. CASE e > N
  <2>1. e - 1 = N /\ ~(e + 1 <= N)
    BY <1>1, <1>2, <1>7
  <2>2. QED BY <1>1, <1>2, <1>3, <1>5, <2>1 DEF Begins
<1>8. QED BY <1>1, <1>2, <1>6, <1>7

\* In a comment that begins at i, when a character of it has been read.
LEMMA CommentStep ==
  ASSUME NEW C, NEW f, NEW sql, NEW start, NEW l, Scanner(f, sql, start, l, C),
         NEW j \in start..Len(sql), f[j - 1].mode \in {"comment", "star"}
  PROVE  /\ f[j].read = f[j - 1].read
         /\ sql[j] = "*" => f[j].mode = "star"
         /\ sql[j] # "*" => f[j].mode = IF f[j - 1].mode = "star" /\ sql[j] = "/"
                                        THEN "plain" ELSE "comment"
<1>1. f[j] = Reads(f[j - 1], sql[j], l)
  BY ScannerStep
<1>2. CASE f[j - 1].mode = "comment"
  <2>1. f[j] = Reading(IF sql[j] = "*" THEN "star" ELSE "comment", f[j - 1].read, <<>>)
    BY <1>1, <1>2, ReadsComment
  <2>2. QED BY <1>2, <2>1, ReadingIs
<1>3. CASE f[j - 1].mode = "star"
  <2>1. PICK m : m = (CASE sql[j] = "/" -> "plain" [] sql[j] = "*" -> "star" [] OTHER -> "comment")
    OBVIOUS
  <2>2. /\ sql[j] = "/" => m = "plain"
        /\ sql[j] = "*" => m = "star"
        /\ sql[j] \notin {"/", "*"} => m = "comment"
    BY <2>1
  <2>3. f[j] = Reading(m, f[j - 1].read, <<>>)
    BY <1>1, <1>3, <2>1, ReadsStar
  <2>4. QED BY <1>3, <2>2, <2>3, ReadingIs
<1>4. QED BY <1>2, <1>3

\* A comment between /* and */.
LEMMA CommentScan ==
  ASSUME NEW C, NEW f, NEW sql, NEW start, NEW l, Scanner(f, sql, start, l, C),
         NEW i \in start..Len(sql), i + 1 <= Len(sql), f[i + 1].mode = "comment",
         NoMark(f[i + 1].read)
  PROVE  Begins(f, sql, CommentEnd(sql, i) + 1)
<1>1. PICK N \in Nat : N = Len(sql) /\ i \in 1..N /\ i \in Nat /\ start \in Nat /\ sql \in Seq(C)
  BY ScannerStep DEF Scanner
<1>2. PICK S : S = {j \in Nat : /\ NoMark(f[j].read) /\ f[j].mode \in {"comment", "star"}
                                /\ f[j].mode = "star" <=> j >= i + 2 /\ sql[j] = "*"}
  OBVIOUS
<1>3. i + 1 \in S
  BY <1>1, <1>2
<1>4. ASSUME NEW j \in i + 2..N, j - 1 \in S, j - 1 >= i + 2 => ~Two(sql, j - 1, "*", "/")
      PROVE  j \in S
  <2>1. j \in start..Len(sql) /\ j \in Nat /\ j >= i + 2
    BY <1>1
  <2>2. /\ f[j].read = f[j - 1].read
        /\ sql[j] = "*" => f[j].mode = "star"
        /\ sql[j] # "*" => f[j].mode = IF f[j - 1].mode = "star" /\ sql[j] = "/"
                                       THEN "plain" ELSE "comment"
    BY <1>2, <1>4, <2>1, CommentStep
  <2>3. ~(f[j - 1].mode = "star" /\ sql[j] = "/")
    <3>1. SUFFICES ASSUME f[j - 1].mode = "star", sql[j] = "/" PROVE FALSE
      OBVIOUS
    <3>2. j - 1 >= i + 2 /\ sql[j - 1] = "*"
      BY <1>2, <1>4, <3>1
    <3>3. j - 1 < Len(sql) /\ j - 1 + 1 = j
      BY <1>1, <2>1
    <3>4. Two(sql, j - 1, "*", "/")
      BY <3>1, <3>2, <3>3 DEF Two
    <3>5. QED BY <1>4, <3>2, <3>4
  <2>4. f[j].mode \in {"comment", "star"} /\ (f[j].mode = "star" <=> sql[j] = "*")
    BY <2>2, <2>3
  <2>5. QED BY <1>2, <1>4, <2>1, <2>2, <2>4
<1>5. ASSUME NEW e \in i + 1..N, \A m \in i + 2..e - 1 : ~Two(sql, m, "*", "/") PROVE e \in S
  <2>1. i + 1 \in Nat /\ e \in Nat
    BY <1>1
  <2>2. ASSUME NEW j \in i + 1 + 1..e, j - 1 \in S PROVE j \in S
    <3>1. j \in i + 2..N /\ (j - 1 >= i + 2 => j - 1 \in i + 2..e - 1)
      BY <1>1, <2>1
    <3>2. QED BY <1>4, <1>5, <2>2, <3>1
  <2>3. \A j \in i + 1..e : j \in S
    BY <1>3, <2>1, <2>2, UpInduction
  <2>4. QED BY <2>1, <2>3
<1>6. PICK e : e = CommentEnd(sql, i)
  OBVIOUS
<1>7. CASE e = N + 1 /\ \A k \in i + 2..N : ~Two(sql, k, "*", "/")
  <2>1. N \in i + 1..N /\ \A m \in i + 2..N - 1 : m \in i + 2..N
    BY <1>1
  <2>2. N \in S
    BY <1>5, <1>7, <2>1
  <2>3. NoMark(f[N].read) /\ N + 1 + 1 \in Nat /\ ~(N + 1 + 1 <= N)
    BY <1>1, <1>2, <2>2
  <2>4. QED BY <1>1, <1>6, <1>7, <2>3 DEF Begins
<1>8. CASE \E k \in i + 2..N : /\ e = k + 1 /\ Two(sql, k, "*", "/")
                               /\ \A m \in i + 2..k - 1 : ~Two(sql, m, "*", "/")
  <2>1. PICK k \in i + 2..N : /\ e = k + 1 /\ Two(sql, k, "*", "/")
                              /\ \A m \in i + 2..k - 1 : ~Two(sql, m, "*", "/")
    BY <1>8
  <2>2. k \in S
    <3>1. k \in i + 1..N
      BY <1>1
    <3>2. QED BY <1>5, <2>1, <3>1
  <2>3. k >= i + 2 /\ sql[k] = "*" /\ k < N /\ sql[k + 1] = "/"
    BY <1>1, <2>1 DEF Two
  <2>4. NoMark(f[k].read) /\ f[k].mode = "star"
    BY <1>2, <2>2, <2>3
  <2>5. k + 1 \in start..Len(sql) /\ k + 1 - 1 = k
    BY <1>1, <2>3
  <2>6. NoMark(f[k + 1].read) /\ f[k + 1].mode = "plain"
    BY <2>3, <2>4, <2>5, CommentStep
  <2>7. e + 1 - 1 = k + 1 /\ e + 1 \in Nat /\ (e + 1 > N => N = k + 1)
    BY <1>1, <2>1, <2>3
  <2>9. PICK n \in Nat : n = e + 1 /\ n - 1 = k + 1
    BY <1>1, <2>1
  <2>10. n > Len(sql) => NoMark(f[Len(sql)].read)
    BY <1>1, <2>6, <2>7, <2>9
  <2>11. Begins(f, sql, n)
    BY <2>6, <2>9, <2>10, BeginsPlain
  <2>12. QED BY <1>6, <2>9, <2>11
<1>9. QED BY <1>1, <1>6, <1>7, <1>8, CommentEndIs

\* A character outside of everything that is no mark.
LEMMA OutsideStep ==
  ASSUME NEW C, NEW f, NEW sql, NEW start, NEW l, Scanner(f, sql, start, l, C),
         NEW i \in start..Len(sql), Begins(f, sql, i), sql[i] # "?"
  PROVE  /\ NoMark(f[i].read)
         /\ sql[i] = "'" => f[i].mode = "value"
         /\ sql[i] = DoubleQuote => f[i].mode = IF IsMysql(l) THEN "text" ELSE "name"
         /\ sql[i] = Backquote /\ l # "postgresql" => f[i].mode = "backquoted"
         /\ sql[i] = "-" => f[i].mode = "dash"
         /\ sql[i] = "/" => f[i].mode = "slash"
         /\ sql[i] = "#" /\ IsMysql(l) => f[i].mode = "line"
         /\ sql[i] \notin {"'", DoubleQuote, "-", "/"} /\ (sql[i] # Backquote \/ l = "postgresql")
              /\ (sql[i] # "#" \/ ~IsMysql(l)) => f[i].mode = "plain"
<1>1. PICK c \in C : c = sql[i] /\ i \in Nat /\ i <= Len(sql)
  BY ScannerStep
<1>2. PICK s \in States(C) : s = f[i - 1] /\ f[i] = Reads(s, c, l)
  BY <1>1, ScannerStep
<1>3. s.mode \in Rest /\ Fits(s.mode, c) /\ NoMark(s.read)
  BY <1>1, <1>2 DEF Begins
<1>4. Alphabet(C)
  BY DEF Scanner
<1>5. PICK r \in Seq(Lexemes(C)) : r = s.read \o Over(s.mode, s.open)
  BY <1>4, SettledIs DEF Settled
<1>6. f[i] = InPlain(r, c, l)
  <2>1. PICK m \in Rest, x \in Seq(Lexemes(C)), o \in Seq(C) :
          m = s.mode /\ x = s.read /\ o = s.open /\ s = Reading(m, x, o)
    BY <1>3, StateParts
  <2>2. Reads(Reading(m, x, o), c, l) = InPlain(x \o Over(m, o), c, l)
    BY <1>3, <1>4, <2>1, Closes
  <2>3. QED BY <1>2, <1>5, <2>1, <2>2
<1>7. NoMark(r)
  <2>1. PICK x \in Seq(Lexemes(C)), y \in Seq(Lexemes(C)) :
          x = s.read /\ y = Over(s.mode, s.open) /\ NoMark(y)
    BY <1>4, StateParts, OverIs
  <2>2. Marks(x) = 0 /\ Marks(y) = 0
    BY <1>3, <2>1, NoMarkTimes
  <2>3. Marks(x \o y) = 0
    BY <2>2, MarksAreTimes, TimesConcat
  <2>4. QED BY <1>5, <2>1, <2>3, NoMarkTimes
<1>8. \/ \E m : f[i] = Reading(m, r, <<>>)
      \/ f[i] = Reading("plain", Append(r, Word(c)), <<>>)
  BY <1>1, <1>6, InPlainKinds
<1>9. NoMark(f[i].read)
  <2>1. CASE \E m : f[i] = Reading(m, r, <<>>)
    BY <1>7, <2>1, ReadingIs
  <2>2. CASE f[i] = Reading("plain", Append(r, Word(c)), <<>>)
    <3>1. Word(c) \in Lexemes(C) /\ Word(c) # Mark
      BY WordIs
    <3>2. Marks(r) = 0
      BY <1>7, NoMarkTimes
    <3>3. Marks(Append(r, Word(c))) = 0 /\ Append(r, Word(c)) \in Seq(Lexemes(C))
      BY <3>1, <3>2, MarksAreTimes, TimesAppend, AppendProperties
    <3>4. PICK t \in Seq(Lexemes(C)) : t = Append(r, Word(c)) /\ Marks(t) = 0
      BY <3>3
    <3>5. NoMark(t)
      BY <3>4, NoMarkTimes
    <3>6. PICK z : z = f[i] /\ z = Reading("plain", t, <<>>)
      BY <2>2, <3>4
    <3>7. z.read = t
      BY <3>6, ReadingIs
    <3>8. QED BY <3>5, <3>6, <3>7
  <2>3. QED BY <1>8, <2>1, <2>2
<1>10. /\ c = "'" => f[i] = Reading("value", r, <<>>)
       /\ c = DoubleQuote => f[i] = Reading(IF IsMysql(l) THEN "text" ELSE "name", r, <<>>)
       /\ c = Backquote /\ l # "postgresql" => f[i] = Reading("backquoted", r, <<>>)
       /\ c = "-" => f[i] = Reading("dash", r, <<>>)
       /\ c = "/" => f[i] = Reading("slash", r, <<>>)
       /\ c = "#" /\ IsMysql(l) => f[i] = Reading("line", r, <<>>)
       /\ c \in Blank => f[i] = Reading("plain", r, <<>>)
       /\ c \notin {"'", DoubleQuote, "-", "/", "?"} /\ c \notin Blank
          /\ (c # Backquote \/ l = "postgresql") /\ (c # "#" \/ ~IsMysql(l))
            => f[i] = Reading("plain", Append(r, Word(c)), <<>>)
  BY <1>6, InPlainCases
<1>11. QED BY <1>1, <1>9, <1>10, ReadingIs

\* The driver goes on where the next lexeme begins.
LEMMA LexemeScan ==
  ASSUME NEW C, NEW f, NEW sql, NEW start, NEW l \in {"mysql", "mysql_plain", "postgresql"},
         Scanner(f, sql, start, l, C), Dashes(f, sql, start, l),
         NEW i \in start..Len(sql), Begins(f, sql, i), sql[i] # "?"
  PROVE  Begins(f, sql, LexemeEnd(sql, i, l) + 1)
<1>1. PICK N \in Nat : N = Len(sql) /\ i \in 1..N /\ i \in Nat /\ start \in Nat /\ sql \in Seq(C)
  BY ScannerStep DEF Scanner
<1>2. /\ NoMark(f[i].read)
      /\ sql[i] = "'" => f[i].mode = "value"
      /\ sql[i] = DoubleQuote => f[i].mode = IF IsMysql(l) THEN "text" ELSE "name"
      /\ sql[i] = Backquote /\ l # "postgresql" => f[i].mode = "backquoted"
      /\ sql[i] = "-" => f[i].mode = "dash"
      /\ sql[i] = "/" => f[i].mode = "slash"
      /\ sql[i] = "#" /\ IsMysql(l) => f[i].mode = "line"
      /\ sql[i] \notin {"'", DoubleQuote, "-", "/"} /\ (sql[i] # Backquote \/ l = "postgresql")
           /\ (sql[i] # "#" \/ ~IsMysql(l)) => f[i].mode = "plain"
  BY OutsideStep
<1>3. IsMysql(l) <=> l # "postgresql"
  BY DEF IsMysql
<1>4. LexemeEnd(sql, i, l) \in i..N + 1
  BY <1>1, LexemeEndType
<1>5. CASE sql[i] \in {"'", DoubleQuote}
  <2>1. LexemeEnd(sql, i, l) = QuoteEnd(sql, i, l = "mysql")
    BY <1>5, LexemeEndCases
  <2>2. PICK q \in Quotes : /\ f[i].mode = q /\ sql[i] = Closing[q]
                            /\ q \in {"value", "text"} \/ l = "postgresql"
    BY <1>2, <1>3, <1>5, QuoteTable DEF Quotes
  <2>3. (l = "mysql") = (l = "mysql" /\ q \in DOMAIN Escaped)
    BY <2>2, Domains
  <2>4. Begins(f, sql, QuoteEnd(sql, i, l = "mysql" /\ q \in DOMAIN Escaped) + 1)
    BY <1>2, <2>2, QuoteScan
  <2>5. QED BY <2>1, <2>3, <2>4
<1>6. CASE sql[i] = Backquote /\ IsMysql(l)
  <2>1. LexemeEnd(sql, i, l) = QuoteEnd(sql, i, FALSE)
    BY <1>6, LexemeEndCases
  <2>2. "backquoted" \in Quotes /\ f[i].mode = "backquoted" /\ sql[i] = Closing["backquoted"]
    BY <1>2, <1>3, <1>6, QuoteTable DEF Quotes
  <2>3. FALSE = (l = "mysql" /\ "backquoted" \in DOMAIN Escaped)
    BY Domains
  <2>4. Begins(f, sql, QuoteEnd(sql, i, l = "mysql" /\ "backquoted" \in DOMAIN Escaped) + 1)
    BY <1>2, <2>2, QuoteScan
  <2>5. QED BY <2>1, <2>3, <2>4
<1>7. CASE sql[i] = "#" /\ IsMysql(l)
  <2>1. PICK e : e = LexemeEnd(sql, i, l) /\ e = LineEnd(sql, i)
    BY <1>7, HashLexeme
  <2>2. /\ e \in i..N + 1 /\ \A j \in i..e - 1 : sql[j] # Newline
        /\ e <= N => sql[e] = Newline
    BY <1>1, <2>1, LineEndIs
  <2>3. e # i
    BY <1>1, <1>7, <2>2 DEF Newline
  <2>4. i + 1 \in start..Len(sql) + 1 /\ e \in i + 1..Len(sql) + 1 /\ i + 1 - 1 = i
        /\ \A j \in i + 1..e - 1 : j \in i..e - 1
    BY <1>1, <2>2, <2>3
  <2>5. f[i + 1 - 1].mode = "line" /\ NoMark(f[i + 1 - 1].read)
    BY <1>2, <1>7, <2>4
  <2>6. QED BY <1>1, <2>1, <2>2, <2>4, <2>5, LineScan
<1>8. CASE Two(sql, i, "-", "-")
  <2>1. PICK e : e = LexemeEnd(sql, i, l) /\ e = LineEnd(sql, i)
    BY <1>8, DashesLexeme
  <2>2. /\ e \in i..N + 1 /\ \A j \in i..e - 1 : sql[j] # Newline
        /\ e <= N => sql[e] = Newline
    BY <1>1, <2>1, LineEndIs
  <2>3. sql[i] = "-" /\ sql[i + 1] = "-" /\ i < N
    BY <1>1, <1>8 DEF Two
  <2>4. e # i /\ e # i + 1
    BY <1>1, <2>2, <2>3 DEF Newline
  <2>5. i + 1 \in start..Len(sql) /\ i + 1 - 1 = i
    BY <1>1, <2>3
  <2>6. f[i + 1].mode = "two_dashes" /\ f[i + 1].read = f[i].read
    <3>1. f[i + 1] = Reads(f[i], "-", l)
      BY <2>3, <2>5, ScannerStep
    <3>2. f[i + 1] = Reading("two_dashes", f[i].read, <<>>)
      BY <1>2, <2>3, <3>1, ReadsDash
    <3>3. QED BY <3>2, ReadingIs
  <2>7. CASE i + 1 = N
    <3>1. e = N + 1
      BY <1>1, <2>2, <2>4, <2>7
    <3>2. NoMark(f[N].read) /\ e + 1 \in Nat /\ ~(e + 1 <= N)
      BY <1>1, <1>2, <2>6, <2>7, <3>1
    <3>3. QED BY <1>1, <2>1, <3>2 DEF Begins
  <2>8. CASE i + 1 < N
    <3>1. i + 2 \in start..Len(sql) /\ i + 2 - 1 = i + 1
      BY <1>1, <2>8
    <3>2. f[i + 2] = AfterTwoDashes(f[i + 1].read, sql[i + 2], l)
      BY <2>6, <3>1, ScannerStep, ReadsTwoDashes
    <3>3. IsMysql(l) => sql[i + 2] \in Blank
      BY <2>6, <3>1 DEF Dashes
    <3>4. sql[i + 2] = Newline => f[i + 2] = Reading("plain", f[i + 1].read, <<>>)
      BY <3>2, AfterTwoDashesCases
    <3>5. sql[i + 2] # Newline => f[i + 2] = Reading("line", f[i + 1].read, <<>>)
      BY <3>2, <3>3, AfterTwoDashesCases
    <3>6. NoMark(f[i + 2].read)
      BY <1>2, <2>6, <3>4, <3>5, ReadingIs
    <3>7. CASE e = i + 2
      <4>1. f[i + 2].mode = "plain"
        BY <1>1, <2>2, <2>8, <3>4, <3>7, ReadingIs
      <4>2. e + 1 \in Nat /\ e + 1 - 1 = i + 2 /\ (e + 1 > N => N = i + 2)
        BY <1>1, <2>8, <3>7
      <4>3. PICK n \in Nat : n = e + 1 /\ n - 1 = i + 2
        BY <1>1, <3>7
      <4>4. n > Len(sql) => NoMark(f[Len(sql)].read)
        BY <1>1, <3>6, <4>2, <4>3
      <4>5. Begins(f, sql, n)
        BY <3>6, <4>1, <4>3, <4>4, BeginsPlain
      <4>6. QED BY <2>1, <4>3, <4>5
    <3>8. CASE e # i + 2
      <4>1. e \in i + 3..Len(sql) + 1 /\ i + 3 \in start..Len(sql) + 1 /\ i + 3 - 1 = i + 2
            /\ i + 2 \in i..e - 1 /\ \A j \in i + 3..e - 1 : j \in i..e - 1
        BY <1>1, <2>2, <2>4, <2>8, <3>8
      <4>2. f[i + 3 - 1].mode = "line" /\ NoMark(f[i + 3 - 1].read)
        BY <2>2, <3>5, <3>6, <4>1, ReadingIs
      <4>3. QED BY <1>1, <2>1, <2>2, <4>1, <4>2, LineScan
    <3>9. QED BY <3>7, <3>8
  <2>9. QED BY <1>1, <2>3, <2>7, <2>8
<1>9. CASE Two(sql, i, "/", "*")
  <2>1. sql[i] = "/" /\ sql[i + 1] = "*" /\ i < N
    BY <1>1, <1>9 DEF Two
  <2>2. i + 1 \in start..Len(sql) /\ i + 1 - 1 = i
    BY <1>1, <2>1
  <2>3. f[i + 1] = Reads(f[i], "*", l)
    BY <2>1, <2>2, ScannerStep
  <2>4. f[i + 1] = Reading("comment", f[i].read, <<>>)
    BY <1>2, <2>1, <2>3, ReadsSlash
  <2>5. f[i + 1].mode = "comment" /\ NoMark(f[i + 1].read) /\ i + 1 <= Len(sql)
    BY <1>2, <2>2, <2>4, ReadingIs
  <2>6. Begins(f, sql, CommentEnd(sql, i) + 1)
    BY <2>5, CommentScan
  <2>7. QED BY <1>9, <2>6, CommentLexeme
<1>10. CASE /\ sql[i] \notin {"'", DoubleQuote} /\ ~(sql[i] = Backquote /\ IsMysql(l))
            /\ ~(sql[i] = "#" /\ IsMysql(l)) /\ ~Two(sql, i, "-", "-")
            /\ ~Two(sql, i, "/", "*")
  <2>1. LexemeEnd(sql, i, l) = i
    BY <1>10, LexemeEndCases
  <2>2. f[i].mode \in {"plain", "dash", "slash"}
        /\ (f[i].mode = "dash" => sql[i] = "-") /\ (f[i].mode = "slash" => sql[i] = "/")
    BY <1>2, <1>3, <1>10
  <2>3. i + 1 <= N => ~(sql[i] = "-" /\ sql[i + 1] = "-") /\ ~(sql[i] = "/" /\ sql[i + 1] = "*")
    BY <1>1, <1>10 DEF Two
  <2>4. i + 1 <= N => Fits(f[i].mode, sql[i + 1])
    BY <2>2, <2>3 DEF Fits, QuoteEnds
  <2>5. f[i].mode \in Rest
    BY <2>2 DEF Rest
  <2>6. i + 1 - 1 = i /\ i + 1 \in Nat /\ (i + 1 > N => N = i)
    BY <1>1
  <2>7. Begins(f, sql, i + 1)
    BY <1>1, <1>2, <2>4, <2>5, <2>6 DEF Begins
  <2>8. QED BY <2>1, <2>7
<1>11. QED BY <1>5, <1>6, <1>7, <1>8, <1>9, <1>10

\* The driver finds the first mark the server reads, if there is one.
LEMMA NextScan ==
  ASSUME NEW C, NEW f, NEW sql, NEW start, NEW l \in {"mysql", "mysql_plain", "postgresql"},
         Scanner(f, sql, start, l, C), Dashes(f, sql, start, l)
  PROVE  LET p == NextPlaceholder(sql, start, l)
         IN  \/ p = npos /\ NoMark(f[Len(sql)].read)
             \/ p \in start..Len(sql) /\ sql[p] = "?" /\ f[p - 1].mode \in Rest /\ NoMark(f[p - 1].read)
<1>1. PICK N \in Nat : N = Len(sql) /\ start \in 1..N + 1 /\ start \in Nat /\ sql \in Seq(C)
  BY LenProperties DEF Scanner
<1>2. PICK next : NextPlaceholder(sql, start, l) = next[start] /\ Finds(next, sql, start, l)
  BY <1>1, NextSteps
<1>3. PICK S : S = {i \in start..N + 3 : i <= N + 2 /\ Begins(f, sql, i) =>
                     \/ next[i] = npos /\ NoMark(f[N].read)
                     \/ /\ next[i] \in start..N /\ sql[next[i]] = "?"
                        /\ f[next[i] - 1].mode \in Rest /\ NoMark(f[next[i] - 1].read)}
  OBVIOUS
<1>4. ASSUME NEW i \in start..N + 3, \A k \in i + 1..N + 3 : k \in S PROVE i \in S
  <2>1. SUFFICES ASSUME i <= N + 2, Begins(f, sql, i)
                 PROVE  \/ next[i] = npos /\ NoMark(f[N].read)
                        \/ /\ next[i] \in start..N /\ sql[next[i]] = "?"
                           /\ f[next[i] - 1].mode \in Rest /\ NoMark(f[next[i] - 1].read)
    BY <1>3
  <2>2. next[i] = IF i > N THEN npos
                  ELSE IF sql[i] = "?" THEN i ELSE next[LexemeEnd(sql, i, l) + 1]
    BY <1>1, <1>2 DEF Finds
  <2>3. CASE i > N
    BY <1>1, <2>1, <2>2, <2>3 DEF Begins
  <2>4. CASE i <= N /\ sql[i] = "?"
    <3>1. next[i] = i /\ i \in start..N
      BY <1>1, <2>2, <2>4
    <3>2. QED BY <1>1, <2>1, <2>4, <3>1 DEF Begins
  <2>5. CASE i <= N /\ sql[i] # "?"
    <3>1. i \in start..Len(sql) /\ i \in 1..Len(sql)
      BY <1>1, <2>5
    <3>2. PICK e : e = LexemeEnd(sql, i, l)
      OBVIOUS
    <3>3. e \in i..N + 1
      BY <1>1, <3>1, <3>2, LexemeEndType
    <3>4. Begins(f, sql, e + 1)
      BY <2>1, <2>5, <3>1, <3>2, LexemeScan
    <3>5. e + 1 \in i + 1..N + 3 /\ e + 1 <= N + 2
      BY <1>1, <3>1, <3>3
    <3>6. next[i] = next[e + 1]
      BY <1>1, <2>2, <2>5, <3>1, <3>2
    <3>7. e + 1 \in S
      BY <1>4, <3>5
    <3>8. QED BY <1>3, <3>4, <3>5, <3>6, <3>7
  <2>6. QED BY <1>1, <2>3, <2>4, <2>5
<1>5. start \in S
  <2>1. N + 3 \in Nat /\ start \in Nat /\ start \in start..N + 3
    BY <1>1
  <2>2. start..N + 3 \subseteq S
    BY <1>4, <2>1, DownInduction, ZenonT(30)
  <2>3. QED BY <2>1, <2>2
<1>6. Begins(f, sql, start)
  <2>1. f[start - 1] = Outset
    BY DEF Scanner
  <2>2. f[start - 1].mode = "plain" /\ NoMark(f[start - 1].read)
    BY <2>1, OutsetIs, NoMarkEmpty
  <2>3. start > N => start - 1 = N
    BY <1>1
  <2>4. QED BY <1>1, <2>2, <2>3, BeginsPlain
<1>7. QED BY <1>1, <1>2, <1>3, <1>5, <1>6

-----------------------------------------------------------------------------
(* A text around one of its characters                                     *)

LEMMA AroundIs ==
  ASSUME NEW X, NEW t \in Seq(X), NEW c \in X, NEW w \in Seq(X)
  PROVE  /\ Around(t, c, w) \in Seq(X)
         /\ Encloses(Around(t, c, w), t, c, w)
<1>1. PICK o \in Seq(X) : o = <<c>> /\ Len(o) = 1 /\ o[1] = c
  BY OneIsSeq
<1>2. PICK p \in Seq(X) : p = t \o o
  BY ConcatProperties
<1>3. Len(t) \in Nat /\ Len(w) \in Nat
  BY LenProperties
<1>4. Len(p) = Len(t) + 1 /\ (\A i \in 1..Len(t) : p[i] = t[i]) /\ p[Len(t) + 1] = c
  <2>1. Len(t \o o) = Len(t) + Len(o)
        /\ \A i \in 1..Len(t) + Len(o) : (t \o o)[i] = IF i <= Len(t) THEN t[i] ELSE o[i - Len(t)]
    BY ConcatProperties
  <2>2. QED BY <1>1, <1>2, <1>3, <2>1
<1>5. PICK q \in Seq(X) : q = p \o w
  BY ConcatProperties
<1>6. Len(q) = Len(p) + Len(w)
      /\ \A i \in 1..Len(p) + Len(w) : q[i] = IF i <= Len(p) THEN p[i] ELSE w[i - Len(p)]
  BY <1>5, ConcatProperties
<1>7. /\ Len(q) = Len(t) + 1 + Len(w)
      /\ \A i \in 1..Len(t) : q[i] = t[i]
      /\ q[Len(t) + 1] = c
      /\ \A i \in 1..Len(w) : q[Len(t) + 1 + i] = w[i]
  <2>1. PICK n \in Nat, m \in Nat : n = Len(t) + 1 /\ m = Len(w)
    BY <1>3
  <2>2. Len(p) = n /\ Len(q) = n + m
    BY <1>4, <1>6, <2>1
  <2>3. \A i \in 1..n + m : q[i] = IF i <= n THEN p[i] ELSE w[i - n]
    BY <1>6, <2>1, <2>2
  <2>4. ASSUME NEW i \in 1..m PROVE q[n + i] = w[i]
    <3>1. n + i \in 1..n + m /\ ~(n + i <= n) /\ n + i - n = i
      BY <2>1
    <3>2. QED BY <2>3, <3>1
  <2>5. ASSUME NEW i \in 1..n PROVE q[i] = p[i]
    <3>1. i \in 1..n + m /\ i <= n
      BY <2>1
    <3>2. QED BY <2>3, <3>1
  <2>6. \A i \in 1..Len(t) : q[i] = t[i]
    BY <1>3, <1>4, <2>1, <2>5
  <2>7. q[n] = c
    BY <1>3, <1>4, <2>1, <2>5
  <2>8. QED BY <2>1, <2>2, <2>4, <2>6, <2>7
<1>8. Around(t, c, w) = q
  BY <1>1, <1>2, <1>5 DEF Around
<1>9. QED BY <1>7, <1>8 DEF Encloses

LEMMA PrefixAppend ==
  ASSUME NEW X, NEW s \in Seq(X), NEW k \in 1..Len(s)
  PROVE  SubSeq(s, 1, k) = Append(SubSeq(s, 1, k - 1), s[k])
<1>1. Len(s) \in Nat /\ k \in Nat /\ s[k] \in X /\ k \in 0..Len(s) /\ k - 1 \in 0..Len(s)
  BY LenProperties, ElementOfSeq
<1>2. PICK p \in Seq(X) : p = SubSeq(s, 1, k) /\ Len(p) = k /\ \A j \in 1..k : p[j] = s[j]
  <2>1. /\ SubSeq(s, 1, k) \in Seq(X) /\ Len(SubSeq(s, 1, k)) = k
        /\ \A j \in 1..k : SubSeq(s, 1, k)[j] = s[j]
    BY <1>1, PrefixIs
  <2>2. QED BY <2>1
<1>3. PICK q \in Seq(X) : q = SubSeq(s, 1, k - 1) /\ Len(q) = k - 1
                          /\ \A j \in 1..k - 1 : q[j] = s[j]
  <2>1. PICK m \in 0..Len(s) : m = k - 1
    BY <1>1
  <2>2. /\ SubSeq(s, 1, m) \in Seq(X) /\ Len(SubSeq(s, 1, m)) = m
        /\ \A j \in 1..m : SubSeq(s, 1, m)[j] = s[j]
    BY PrefixIs
  <2>3. QED BY <2>1, <2>2
<1>4. PICK a \in Seq(X) : a = Append(q, s[k]) /\ Len(a) = k
        /\ (\A j \in 1..k - 1 : a[j] = q[j]) /\ a[k] = s[k]
  <2>1. PICK a \in Seq(X) : a = Append(q, s[k])
    BY <1>1, AppendProperties
  <2>2. PICK m \in Nat : m = k - 1 /\ m + 1 = k /\ Len(q) = m
    BY <1>1, <1>3
  <2>3. Len(a) = m + 1 /\ (\A j \in 1..m : a[j] = q[j]) /\ a[m + 1] = s[k]
    BY <1>1, <2>1, <2>2, AppendProperties
  <2>4. QED BY <1>1, <2>1, <2>2, <2>3
<1>5. \A j \in 1..k : p[j] = a[j]
  BY <1>1, <1>2, <1>3, <1>4
<1>6. p = a
  BY <1>2, <1>4, <1>5, SeqEqual
<1>7. QED BY <1>2, <1>3, <1>4, <1>6

\* Any text stands around any of its characters.
LEMMA SplitAt ==
  ASSUME NEW X, NEW s \in Seq(X), NEW k \in 1..Len(s)
  PROVE  \E w \in Seq(X) : /\ s = Around(SubSeq(s, 1, k - 1), s[k], w)
                           /\ SubSeq(s, 1, k - 1) \in Seq(X) /\ s[k] \in X
                           /\ Len(SubSeq(s, 1, k - 1)) = k - 1
<1>1. Len(s) \in Nat /\ k \in Nat /\ s[k] \in X /\ k - 1 \in 0..Len(s)
  BY LenProperties, ElementOfSeq
<1>2. SubSeq(s, 1, k - 1) \in Seq(X) /\ Len(SubSeq(s, 1, k - 1)) = k - 1
  BY <1>1, PrefixIs
<1>3. PICK w \in Seq(X) : w = SubSeq(s, k + 1, Len(s))
  <2>1. \A i \in k + 1..Len(s) : s[i] \in X
    BY <1>1, ElementOfSeq
  <2>2. k + 1 \in Int /\ Len(s) \in Int
    BY <1>1
  <2>3. SubSeq(s, k + 1, Len(s)) \in Seq(X)
    BY <2>1, <2>2, SubSeqProperties
  <2>4. QED BY <2>3
<1>4. SubSeq(s, 1, k) \o w = s
  <2>1. 1 \in 1..Len(s) + 1 /\ k \in 1 - 1..Len(s) /\ Len(s) \in k..Len(s)
    BY <1>1
  <2>2. SubSeq(s, 1, k) \o SubSeq(s, k + 1, Len(s)) = SubSeq(s, 1, Len(s))
    BY <2>1, ConcatAdjacentSubSeq
  <2>3. QED BY <1>3, <2>2, SubSeqFull
<1>5. SubSeq(s, 1, k) = SubSeq(s, 1, k - 1) \o <<s[k]>>
  <2>1. PICK q \in Seq(X) : q = SubSeq(s, 1, k - 1)
    BY <1>2
  <2>2. SubSeq(s, 1, k) = Append(q, s[k])
    BY <2>1, PrefixAppend
  <2>3. QED BY <1>1, <2>1, <2>2, AppendIsConcat
<1>6. QED BY <1>1, <1>2, <1>3, <1>4, <1>5 DEF Around

\* find_next_placeholder() and find_next_postgresql_placeholder(): what they find in B, when
\* they begin behind D, is the first mark the server reads in B; and they find
\* nothing when it reads none.
THEOREM NextMark ==
  ASSUME NEW C, Alphabet(C), NEW D \in Seq(C), NEW B \in Seq(C),
         NEW l \in {"mysql", "mysql_plain", "postgresql"}, DashesBlank(B, l, C)
  PROVE  FirstMark(D, B, l, C)
<1>1. PICK d \in Nat, N \in Nat : d = Len(D) /\ N = Len(B)
  BY LenProperties
<1>2. PICK sql \in Seq(C) : /\ sql = D \o B /\ Len(sql) = d + N
                            /\ \A k \in 1..N : sql[d + k] = B[k]
  <2>1. PICK sql \in Seq(C) : sql = D \o B
    BY ConcatProperties
  <2>2. /\ Len(sql) = d + N
        /\ \A i \in 1..d + N : sql[i] = IF i <= d THEN D[i] ELSE B[i - d]
    BY <1>1, <2>1, ConcatProperties
  <2>3. \A k \in 1..N : sql[d + k] = B[k]
    BY <1>1, <2>2
  <2>4. QED BY <2>1, <2>2, <2>3
<1>3. PICK f : f = [j \in d..d + N |-> Runs(Outset, SubSeq(B, 1, j - d), l)]
  OBVIOUS
<1>4. \A j \in d..d + N : f[j] = Runs(Outset, SubSeq(B, 1, j - d), l)
  BY <1>3
<1>5. PICK o \in States(C) : o = Outset
  BY OutsetIs
<1>6. ASSUME NEW j \in d..d + N
      PROVE  SubSeq(B, 1, j - d) \in Seq(C) /\ f[j] \in States(C)
  <2>1. j - d \in 0..Len(B)
    BY <1>1
  <2>2. PICK t \in Seq(C) : t = SubSeq(B, 1, j - d)
    BY <2>1, PrefixIs
  <2>3. QED BY <1>4, <1>5, <2>2, RunsType
<1>7. f[d] = Outset
  <2>1. SubSeq(B, 1, 0) = <<>> /\ d - d = 0 /\ d \in d..d + N
    BY <1>1, SubSeqEmpty
  <2>2. QED BY <1>4, <1>5, <2>1, RunsEmpty
<1>8. ASSUME NEW j \in d + 1..d + N PROVE f[j] = Reads(f[j - 1], sql[j], l)
  <2> j - d \in 1..N /\ j = d + (j - d)
    BY <1>1
  <2>1. PICK k \in 1..Len(B) : k = j - d /\ j = d + k
    BY <1>1
  <2>2. j \in d..d + N /\ j - 1 \in d..d + N /\ j - 1 - d = k - 1 /\ sql[j] = B[k] /\ B[k] \in C
    BY <1>1, <1>2, <2>1, ElementOfSeq
  <2>3. PICK t \in Seq(C) : t = SubSeq(B, 1, k - 1)
    BY <1>6, <2>2
  <2>4. SubSeq(B, 1, k) = Append(t, B[k])
    BY <2>3, PrefixAppend
  <2>5. Runs(o, Append(t, B[k]), l) = Reads(Runs(o, t, l), B[k], l)
    BY <2>2, RunsAppend
  <2>6. f[j] = Runs(o, Append(t, B[k]), l) /\ f[j - 1] = Runs(o, t, l)
    BY <1>4, <1>5, <2>1, <2>2, <2>3, <2>4
  <2>7. QED BY <2>2, <2>5, <2>6
<1>9. Scanner(f, sql, d + 1, l, C)
  BY <1>1, <1>2, <1>6, <1>7, <1>8 DEF Scanner
<1>10. Dashes(f, sql, d + 1, l)
  <2>1. SUFFICES ASSUME NEW j \in d + 1..d + N, f[j - 1].mode = "two_dashes", IsMysql(l)
                 PROVE  sql[j] \in Blank
    BY <1>2 DEF Dashes
  <2> j - d \in 1..N /\ j = d + (j - d)
    BY <1>1
  <2>2. PICK k \in 1..Len(B) : k = j - d /\ j = d + k
    BY <1>1
  <2>3. j - 1 \in d..d + N /\ j - 1 - d = k - 1 /\ sql[j] = B[k]
    BY <1>1, <1>2, <2>2, SMTT(20)
  <2>4. PICK w \in Seq(C) : /\ B = Around(SubSeq(B, 1, k - 1), B[k], w)
                            /\ SubSeq(B, 1, k - 1) \in Seq(C) /\ B[k] \in C
    BY SplitAt
  <2>5. Runs(Outset, SubSeq(B, 1, k - 1), l).mode = "two_dashes"
    BY <1>4, <2>1, <2>3
  <2>6. QED BY <2>1, <2>3, <2>4, <2>5 DEF DashesBlank
<1>11. PICK p : p = NextPlaceholder(sql, d + 1, l)
  OBVIOUS
<1>12. CASE p = npos /\ NoMark(f[Len(sql)].read)
  <2>1. f[Len(sql)] = Runs(Outset, B, l)
    <3>1. Len(sql) \in d..d + N /\ Len(sql) - d = Len(B)
      BY <1>1, <1>2
    <3>2. QED BY <1>4, <3>1, SubSeqFull
  <2>2. QED BY <1>1, <1>2, <1>11, <1>12, <2>1 DEF FirstMark
<1>13. CASE /\ p \in d + 1..Len(sql) /\ sql[p] = "?" /\ f[p - 1].mode \in Rest
            /\ NoMark(f[p - 1].read)
  <2> p - d \in 1..N /\ p = d + (p - d)
    BY <1>1, <1>2, <1>13
  <2>1. PICK k \in 1..Len(B) : k = p - d /\ p = d + k
    BY <1>1, <1>2, <1>13
  <2>2. p - 1 \in d..d + N /\ p - 1 - d = k - 1 /\ sql[p] = B[k]
    BY <1>1, <1>2, <2>1, SMTT(20)
  <2>3. PICK w \in Seq(C) : /\ B = Around(SubSeq(B, 1, k - 1), B[k], w)
                            /\ SubSeq(B, 1, k - 1) \in Seq(C) /\ B[k] \in C
                            /\ Len(SubSeq(B, 1, k - 1)) = k - 1
    BY SplitAt
  <2>4. PICK t \in Seq(C) : t = SubSeq(B, 1, k - 1)
    BY <2>3
  <2>5. B = Around(t, "?", w) /\ "?" \in C /\ p = d + Len(t) + 1
    BY <1>1, <1>13, <2>1, <2>2, <2>3, <2>4
  <2>6. f[p - 1] = Runs(Outset, t, l)
    BY <1>4, <2>2, <2>4
  <2>7. QED BY <1>1, <1>2, <1>11, <1>13, <2>5, <2>6 DEF FirstMark
<1>14. QED BY <1>9, <1>10, <1>11, <1>12, <1>13, NextScan

LEMMA AroundAfter ==
  ASSUME NEW C, NEW D \in Seq(C), NEW t \in Seq(C), NEW c \in C, NEW w \in Seq(C)
  PROVE  Regrouped(D, t, c, w)
<1>1. PICK o \in Seq(C) : o = <<c>>
  BY OneIsSeq
<1>2. PICK a \in Seq(C) : a = t \o o
  BY ConcatProperties
<1>3. (D \o a) \o w = D \o (a \o w)
  BY ConcatAssociative, SMTT(20)
<1>4. (D \o t) \o o = D \o (t \o o)
  BY ConcatAssociative, SMTT(20)
<1>5. D \o Around(t, c, w) = D \o (a \o w)
  BY <1>1, <1>2 DEF Around
<1>6. Around(D \o t, c, w) = ((D \o t) \o o) \o w
  BY <1>1 DEF Around
<1>7. QED BY <1>2, <1>3, <1>4, <1>5, <1>6 DEF Regrouped

\* replace() puts v in the place of the character at the position that was found.
LEMMA ReplacedIs ==
  ASSUME NEW C, NEW D \in Seq(C), NEW t \in Seq(C), NEW c \in C, NEW w \in Seq(C),
         NEW v \in Seq(C)
  PROVE  PutIn(D, t, c, w, v)
<1>4. D \o Around(t, c, w) = Around(D \o t, c, w)
  <2>1. Regrouped(D, t, c, w)
    BY AroundAfter
  <2>2. QED BY <2>1, Zenon DEF Regrouped
<1>0. PICK p \in Seq(C) : p = D \o t
  BY ConcatProperties
<1>1. p = D \o t /\ Len(p) = Len(D) + Len(t)
  BY <1>0, ConcatProperties
<1>2. Len(D) \in Nat /\ Len(t) \in Nat /\ Len(w) \in Nat /\ Len(v) \in Nat
  BY LenProperties
<1>6. D \o Around(t, c, w) = Around(p, c, w)
  BY <1>1, <1>4
<1>7. PICK sql \in Seq(C) : sql = Around(p, c, w) /\ Len(sql) = Len(p) + 1 + Len(w)
        /\ (\A i \in 1..Len(p) : sql[i] = p[i]) /\ \A i \in 1..Len(w) : sql[Len(p) + 1 + i] = w[i]
  <2>1. PICK sql \in Seq(C) : sql = Around(p, c, w)
    BY AroundIs
  <2>2. Encloses(sql, p, c, w)
    BY <2>1, AroundIs
  <2>3. QED BY <2>1, <2>2 DEF Encloses
<1>20. PICK q \in Seq(C) : q = p \o v
  BY ConcatProperties
<1>3. q = p \o v /\ Len(q) = Len(D) + Len(t) + Len(v)
  <2>1. Len(q) = Len(p) + Len(v)
    BY <1>20, ConcatProperties
  <2>2. QED BY <1>1, <1>20, <2>1
<1>8. PICK n \in Nat : n = Len(p)
  BY LenProperties
<1>9. SubSeq(sql, 1, n) = p
  <2>1. n \in 0..Len(sql)
    BY <1>2, <1>7, <1>8
  <2>2. PICK x \in Seq(C) : x = SubSeq(sql, 1, n) /\ Len(x) = n /\ \A i \in 1..n : x[i] = sql[i]
    <3>1. SubSeq(sql, 1, n) \in Seq(C) /\ Len(SubSeq(sql, 1, n)) = n
          /\ \A i \in 1..n : SubSeq(sql, 1, n)[i] = sql[i]
      BY <2>1, PrefixIs
    <3>2. QED BY <3>1
  <2>3. \A i \in 1..n : x[i] = p[i]
    BY <1>7, <1>8, <2>2
  <2>4. x = p
    BY <1>8, <2>2, <2>3, SeqEqual
  <2>5. QED BY <2>2, <2>4
<1>10. SubSeq(sql, n + 2, Len(sql)) = w
  <2>1. PICK m \in Nat : m = Len(sql) /\ m = n + 1 + Len(w)
    BY <1>7, <1>8, LenProperties
  <2>2. ASSUME NEW i \in n + 2..m PROVE sql[i] \in C
    <3>1. i \in 1..Len(sql)
      BY <1>8, <2>1
    <3>2. QED BY <3>1, ElementOfSeq
  <2>3. /\ SubSeq(sql, n + 2, m) \in Seq(C)
        /\ Len(SubSeq(sql, n + 2, m)) = IF n + 2 <= m THEN m - (n + 2) + 1 ELSE 0
        /\ \A i \in 1..m - (n + 2) + 1 : SubSeq(sql, n + 2, m)[i] = sql[n + 2 + i - 1]
    <3>1. PICK k \in Nat : k = n + 2
      BY <1>8
    <3>2. k \in Int /\ m \in Int /\ \A i \in k..m : sql[i] \in C
      BY <2>1, <2>2, <3>1
    <3>3. /\ SubSeq(sql, k, m) \in Seq(C)
          /\ Len(SubSeq(sql, k, m)) = IF k <= m THEN m - k + 1 ELSE 0
          /\ \A i \in 1..m - k + 1 : SubSeq(sql, k, m)[i] = sql[k + i - 1]
      BY <3>2, SubSeqProperties
    <3>4. QED BY <3>1, <3>3
  <2>4. PICK x \in Seq(C) : x = SubSeq(sql, n + 2, m)
    BY <2>3
  <2>5. Len(x) = Len(w)
    BY <1>2, <1>8, <2>1, <2>3, <2>4
  <2>6. ASSUME NEW i \in 1..Len(w) PROVE x[i] = w[i]
    <3>1. i \in 1..m - (n + 2) + 1 /\ n + 2 + i - 1 = n + 1 + i
      BY <1>2, <1>8, <2>1
    <3>2. QED BY <1>7, <1>8, <2>3, <2>4, <3>1
  <2>7. x = w
    BY <2>5, <2>6, SeqEqual
  <2>8. QED BY <2>1, <2>4, <2>7
<1>11. Replaced(sql, n + 1, v) = q \o w
  <2>1. PICK k \in Nat : k = n + 1
    BY <1>8
  <2>2. k - 1 = n /\ k + 1 = n + 2
    BY <1>8, <2>1
  <2>3. Replaced(sql, k, v) = q \o w
    BY <1>3, <1>9, <1>10, <2>2 DEF Replaced
  <2>4. QED BY <2>1, <2>3
<1>12. QED BY <1>1, <1>3, <1>6, <1>7, <1>8, <1>11 DEF PutIn

-----------------------------------------------------------------------------
(* Counting the marks that are read                                        *)

LEMMA SettledAfter ==
  ASSUME NEW C, Alphabet(C), NEW r \in Seq(Lexemes(C)), NEW s \in States(C)
  PROVE  Settled(After(r, s)) = r \o Settled(s) /\ After(r, s).mode = s.mode
         /\ After(r, s) \in States(C)
<1>1. PICK x \in Seq(Lexemes(C)), y \in Seq(Lexemes(C)) : x = s.read /\ y = Over(s.mode, s.open)
  BY StateParts, OverIs
<1>2. (r \o x) \o y = r \o (x \o y)
  BY ConcatAssociative
<1>3. After(r, s).mode = s.mode /\ After(r, s).open = s.open /\ After(r, s).read = r \o x
      /\ After(r, s) \in States(C)
  BY <1>1, AfterIs
<1>4. Settled(After(r, s)) = (r \o x) \o y
  BY <1>1, <1>3 DEF Settled
<1>5. Settled(s) = x \o y
  BY <1>1 DEF Settled
<1>6. QED BY <1>2, <1>3, <1>4, <1>5

\* The marks of two texts are those of both.
LEMMA MarksConcat ==
  ASSUME NEW C, NEW p \in Seq(Lexemes(C)), NEW q \in Seq(Lexemes(C))
  PROVE  Marks(p \o q) = Marks(p) + Marks(q) /\ Marks(p) \in Nat /\ Marks(q) \in Nat
<1>1. Times(Mark, p \o q) = Times(Mark, p) + Times(Mark, q)
  BY TimesConcat
<1>2. Times(Mark, p) \in Nat /\ Times(Mark, q) \in Nat
  BY TimesType
<1>3. QED BY <1>1, <1>2, MarksAreTimes

LEMMA MarksAppend ==
  ASSUME NEW C, NEW p \in Seq(Lexemes(C)), NEW x \in Lexemes(C)
  PROVE  Marks(Append(p, x)) = Marks(p) + IF x = Mark THEN 1 ELSE 0
<1>1. Times(Mark, Append(p, x)) = Times(Mark, p) + IF x = Mark THEN 1 ELSE 0
  BY TimesAppend
<1>2. QED BY <1>1, MarksAreTimes

\* Only `?' outside of everything is read as a mark.
LEMMA MarkStep ==
  ASSUME NEW C, Alphabet(C), NEW s \in States(C), NEW c \in C, NEW l
  PROVE  Marks(Reads(s, c, l).read) =
           Marks(s.read) + IF c = "?" /\ s.mode \in Rests(l) THEN 1 ELSE 0
<1>1. PICK m \in Modes, r \in Seq(Lexemes(C)), o \in Seq(C) :
        m = s.mode /\ r = s.read /\ o = s.open /\ s = Reading(m, r, o)
  BY StateParts
<1>2. ReadsOuter(m, o, c, l, C) \/ ReadsInner(m, o, c, l, C)
  BY ReadsKinds
<1>3. PICK k \in Nat : k = Marks(r)
  BY MarksConcat
<1>7. PICK d : d = Reads(s, c, l).read
  OBVIOUS
<1>8. SUFFICES Marks(d) = k + IF c = "?" /\ m \in Rests(l) THEN 1 ELSE 0
  BY <1>1, <1>3, <1>7
<1>4. CASE ReadsInner(m, o, c, l, C)
  <2>1. c = "?" => m \notin Rests(l)
    BY <1>4 DEF ReadsInner
  <2>2. PICK m2 \in Modes, o2 \in Seq(C) : Inner(m, o, c, l, m2, o2)
    BY <1>4 DEF ReadsInner
  <2>3. d = r
    BY <1>1, <1>7, <2>2, ReadingIs DEF Inner
  <2>4. Marks(d) = k + 0
    BY <1>3, <2>3
  <2>5. QED BY <2>1, <2>4
<1>5. CASE ReadsOuter(m, o, c, l, C)
  <2>1. m \in Rests(l)
    BY <1>5 DEF ReadsOuter
  <2>2. PICK p \in Seq(Lexemes(C)) : NoMark(p) /\ Outer(m, o, c, l, p)
    BY <1>5 DEF ReadsOuter
  <2>3. PICK q \in Seq(Lexemes(C)) : q = r \o p
    BY ConcatProperties
  <2>4. Reads(s, c, l) = InPlain(q, c, l)
    BY <1>1, <2>2, <2>3 DEF Outer
  <2>5. PICK e \in Seq(Lexemes(C)) : e = PlainEmits(c, l)
    BY InPlainIs
  <2>6. InPlain(q, c, l) = Reading(PlainMode(c, l), q \o e, <<>>)
    BY <2>5, InPlainIs
  <2>7. Marks(e) = IF c = "?" THEN 1 ELSE 0
    <3>1. e = IF c = "?" THEN <<Mark>>
              ELSE IF PlainMode(c, l) = "plain" /\ c \notin Blank THEN <<Word(c)>> ELSE <<>>
      BY <2>5, InPlainIs
    <3>2. PICK x \in Lexemes(C) : x = IF c = "?" THEN Mark ELSE Word(c)
      BY WordIs, MarkIs
    <3>3. Marks(Append(<<>>, x)) = Marks(<<>>) + IF x = Mark THEN 1 ELSE 0
      BY EmptySeq, MarksAppend
    <3>4. Append(<<>>, x) = <<x>>
      BY OneIsSeq
    <3>5. Marks(<<>>) = 0
      BY TimesEmpty, MarksAreTimes
    <3>6. x = Mark <=> c = "?"
      BY <3>2, WordIs
    <3>7. QED BY <3>1, <3>2, <3>3, <3>4, <3>5, <3>6
  <2>8. d = q \o e
    <3>1. PICK z : z = q \o e
      OBVIOUS
    <3>2. Reads(s, c, l) = Reading(PlainMode(c, l), z, <<>>)
      BY <2>4, <2>6, <3>1
    <3>3. d = z
      BY <1>7, <3>2, ReadingIs
    <3>4. QED BY <3>1, <3>3
  <2>9. Marks(q \o e) = Marks(q) + Marks(e) /\ Marks(q) = Marks(r) + Marks(p)
    BY <2>3, MarksConcat
  <2>10. Marks(p) = 0
    BY <2>2, NoMarkTimes
  <2>11. Marks(d) = k + IF c = "?" THEN 1 ELSE 0
    BY <1>3, <2>7, <2>8, <2>9, <2>10
  <2>12. QED BY <2>1, <2>11
<1>6. QED BY <1>2, <1>4, <1>5

\* As many marks are read as there are `?', or fewer.
LEMMA MarksInText ==
  ASSUME NEW C, Alphabet(C), NEW s \in States(C), NEW l
  PROVE  \A w \in Seq(C) : Marks(Runs(s, w, l).read) <= Marks(s.read) + Times("?", w)
<1> DEFINE S == {w \in Seq(C) : Marks(Runs(s, w, l).read) <= Marks(s.read) + Times("?", w)}
<1>1. Marks(s.read) \in Nat
  BY StateParts, MarksConcat
<1>2. <<>> \in S
  <2>1. Runs(s, <<>>, l) = s /\ Times("?", <<>>) = 0 /\ <<>> \in Seq(C)
    BY RunsEmpty, TimesEmpty, EmptySeq
  <2>2. QED BY <1>1, <2>1
<1>3. ASSUME NEW w \in S \cap Seq(C), NEW c \in C
      PROVE  Append(w, c) \in S
  <2>1. PICK x \in States(C) : x = Runs(s, w, l)
    BY RunsType
  <2>2. Marks(x.read) <= Marks(s.read) + Times("?", w)
    BY <2>1
  <2>3. Runs(s, Append(w, c), l) = Reads(x, c, l)
    BY <2>1, RunsAppend
  <2>4. Marks(Reads(x, c, l).read) =
          Marks(x.read) + IF c = "?" /\ x.mode \in Rests(l) THEN 1 ELSE 0
    BY MarkStep
  <2>5. Times("?", Append(w, c)) = Times("?", w) + IF c = "?" THEN 1 ELSE 0
    BY TimesAppend
  <2>6. Times("?", w) \in Nat /\ Marks(x.read) \in Nat
    BY TimesType, StateParts, MarksConcat
  <2>7. Marks(Runs(s, Append(w, c), l).read) <= Marks(s.read) + Times("?", Append(w, c))
    BY <1>1, <2>2, <2>3, <2>4, <2>5, <2>6
  <2>8. Append(w, c) \in Seq(C)
    BY AppendProperties
  <2>9. QED BY <2>7, <2>8
<1> HIDE DEF S
<1>4. Seq(C) \subseteq S
  BY <1>2, <1>3, AppendInduction
<1>5. QED BY <1>4 DEF S

-----------------------------------------------------------------------------
(* A text after another                                                    *)

LEMMA HeadIs ==
  ASSUME NEW X, NEW x \in X, NEW v \in Seq(X)
  PROVE  <<x>> \o v \in Seq(X) /\ Heads(<<x>> \o v, x, v)
<1>1. PICK h \in Seq(X) : h = <<x>> /\ Len(h) = 1 /\ h[1] = x
  BY OneIsSeq
<1>2. PICK p \in Seq(X) : p = h \o v
  BY ConcatProperties
<1>3. PICK n \in Nat : n = Len(v)
  BY LenProperties
<1>4. Len(p) = Len(h) + Len(v)
      /\ \A i \in 1..Len(h) + Len(v) : p[i] = IF i <= Len(h) THEN h[i] ELSE v[i - Len(h)]
  BY <1>2, ConcatProperties
<1>5. Len(p) = n + 1 /\ p[1] = x
  BY <1>1, <1>3, <1>4
<1>6. ASSUME NEW i \in 1..n PROVE p[i + 1] = v[i]
  <2>1. PICK j \in Nat : j = i + 1 /\ j - 1 = i /\ j \in 1..1 + n /\ ~(j <= 1)
    BY <1>3, SMTT(20)
  <2>2. QED BY <1>1, <1>3, <1>4, <2>1
<1>7. QED BY <1>1, <1>2, <1>3, <1>5, <1>6 DEF Heads

LEMMA HeadSplit ==
  ASSUME NEW X, NEW w \in Seq(X), w # <<>>
  PROVE  \E c \in X, v \in Seq(X) : c = w[1] /\ w = <<c>> \o v
<1>1. Len(w) \in Nat \ {0}
  BY EmptySeq
<1>2. 1 \in 1..Len(w) /\ Len(w) \in 1..Len(w)
  BY <1>1
<1>3. SubSeq(w, 1, Len(w)) = <<w[1]>> \o SubSeq(w, 1 + 1, Len(w))
  BY <1>2, SubSeqRecursiveFirst
<1>4. SubSeq(w, 1, Len(w)) = w
  BY SubSeqFull
<1>5. PICK v : v = SubSeq(w, 1 + 1, Len(w))
  OBVIOUS
<1>6. v \in Seq(X)
  <2>1. \A i \in 2..Len(w) : w[i] \in X
    BY ElementOfSeq, <1>1
  <2>2. SubSeq(w, 2, Len(w)) \in Seq(X)
    BY <1>1, <2>1, SubSeqProperties
  <2>3. QED BY <1>5, <2>2
<1>7. w[1] \in X
  BY <1>2, ElementOfSeq
<1>8. QED BY <1>3, <1>4, <1>5, <1>6, <1>7

LEMMA HeadSame ==
  ASSUME NEW X, NEW p, NEW x \in X, NEW v \in Seq(X), NEW y \in X, NEW w \in Seq(X),
         p = <<x>> \o v, p = <<y>> \o w
  PROVE  x = y /\ v = w
<1>1. Heads(p, x, v) /\ Heads(p, y, w)
  BY HeadIs
<1>2. Len(v) \in Nat /\ Len(w) \in Nat
  BY LenProperties
<1>3. Len(v) = Len(w)
  BY <1>1, <1>2 DEF Heads
<1>4. x = y /\ \A i \in 1..Len(v) : v[i] = w[i]
  BY <1>1, <1>3 DEF Heads
<1>5. v = w
  BY <1>3, <1>4, SeqEqual
<1>6. QED BY <1>4, <1>5

LEMMA SettlingText ==
  ASSUME NEW C, Alphabet(C), NEW s \in States(C), s.mode \in Rest,
         NEW w \in Seq(C), w # <<>>, Fits(s.mode, w[1]), NEW l
  PROVE  Runs(s, w, l) = After(Settled(s), Runs(Outset, w, l))
<1>1. PICK c \in C, v \in Seq(C) : c = w[1] /\ w = <<c>> \o v
  BY HeadSplit
<1>2. Runs(s, <<c>> \o v, l) = After(Settled(s), Runs(Outset, <<c>> \o v, l))
  BY <1>1, Settling
<1>3. QED BY <1>1, <1>2

\* A text behind one that is over is read as if it were alone.
LEMMA PlainSettles ==
  ASSUME NEW C, Alphabet(C), NEW R \in Seq(Lexemes(C)), NEW w \in Seq(C), NEW l
  PROVE  Runs(Reading("plain", R, <<>>), w, l) = After(R, Runs(Outset, w, l))
<1>1. <<>> \in Seq(C) /\ "plain" \in Modes
  BY EmptySeq, OutsetIs
<1>2. Runs(Reading("plain", R, <<>>), w, l) = After(R, Runs(At("plain", <<>>), w, l))
  BY <1>1, RunsShift
<1>3. QED BY <1>2, OutsetIs

-----------------------------------------------------------------------------
(* Texts whose marks stand apart                                           *)

LEMMA GoodAt ==
  ASSUME NEW C, NEW l, NEW t \in Seq(C), NEW c \in C, NEW w \in Seq(C),
         Good(Around(t, c, w), l, C)
  PROVE  Apart(Runs(Outset, t, l).mode, c, w, l)
  BY DEF Good

LEMMA GoodDashes ==
  ASSUME NEW C, NEW l, NEW B, Good(B, l, C)
  PROVE  DashesBlank(B, l, C)
  BY DEF Good, DashesBlank, Apart

\* What is still to come of a good text is good.
LEMMA GoodSuffix ==
  ASSUME NEW C, Alphabet(C), NEW l, NEW O \in Seq(C), NEW B \in Seq(C), NEW R \in Seq(Lexemes(C)),
         Runs(Outset, O, l) = Reading("plain", R, <<>>), Good(O \o B, l, C)
  PROVE  Good(B, l, C)
<1>1. SUFFICES ASSUME NEW t \in Seq(C), NEW c \in C, NEW w \in Seq(C), B = Around(t, c, w)
               PROVE  Apart(Runs(Outset, t, l).mode, c, w, l)
  BY DEF Good
<1>2. O \o B = Around(O \o t, c, w)
  <2>1. Regrouped(O, t, c, w)
    BY AroundAfter
  <2>2. QED BY <1>1, <2>1, Zenon DEF Regrouped
<1>3. PICK p \in Seq(C) : p = O \o t
  BY ConcatProperties
<1>4. Apart(Runs(Outset, p, l).mode, c, w, l)
  <2>1. Good(Around(p, c, w), l, C)
    BY <1>2, <1>3, Zenon
  <2>2. QED BY <2>1, GoodAt
<1>5. Runs(Outset, p, l).mode = Runs(Outset, t, l).mode
  <2>1. PICK o \in States(C) : o = Outset
    BY OutsetIs
  <2>2. Runs(o, O \o t, l) = Runs(Runs(o, O, l), t, l)
    BY RunsConcat
  <2>3. Runs(Reading("plain", R, <<>>), t, l) = After(R, Runs(Outset, t, l))
    BY PlainSettles
  <2>4. Runs(Outset, t, l) \in States(C)
    BY <2>1, RunsType
  <2>5. QED BY <1>3, <2>1, <2>2, <2>3, <2>4, AfterIs
<1>6. QED BY <1>4, <1>5

\* What stands at the end of a text that leads to a mode.
LEMMA LastOf ==
  ASSUME NEW C, Alphabet(C), NEW s \in States(C), NEW c \in C, NEW l
  PROVE  LET m == Reads(s, c, l).mode
         IN  /\ m = "value_end" => c = "'"
             /\ m = "dash" => c = "-"
             /\ m = "two_dashes" => c = "-" /\ s.mode = "dash"
<1>1. PICK m \in Modes, r \in Seq(Lexemes(C)), o \in Seq(C) :
        m = s.mode /\ r = s.read /\ o = s.open /\ s = Reading(m, r, o)
  BY StateParts
<1>2. ReadsOuter(m, o, c, l, C) \/ ReadsInner(m, o, c, l, C)
  BY ReadsKinds
<1>3. CASE ReadsInner(m, o, c, l, C)
  <2>1. PICK m2 \in Modes, o2 \in Seq(C) : Origin(m, c, m2) /\ Inner(m, o, c, l, m2, o2)
    BY <1>3 DEF ReadsInner
  <2>2. Reads(s, c, l).mode = m2
    BY <1>1, <2>1, ReadingIs DEF Inner
  <2>3. QED BY <1>1, <2>1, <2>2 DEF Origin
<1>4. CASE ReadsOuter(m, o, c, l, C)
  <2>1. PICK p \in Seq(Lexemes(C)) : Outer(m, o, c, l, p)
    BY <1>4 DEF ReadsOuter
  <2>2. PICK q \in Seq(Lexemes(C)) : q = r \o p
    BY ConcatProperties
  <2>3. Reads(s, c, l) = InPlain(q, c, l)
    BY <1>1, <2>1, <2>2 DEF Outer
  <2>4. PICK n : n = InPlain(q, c, l).mode
    OBVIOUS
  <2>5. n \notin {"value_end", "two_dashes"} /\ (n = "dash" => c = "-")
    <3>1. c = "'" => n = "value"
      BY <2>4, InPlainCases, ReadingIs
    <3>2. c = DoubleQuote => n \in {"text", "name"}
      BY <2>4, InPlainCases, ReadingIs
    <3>3. c = Backquote /\ l # "postgresql" => n = "backquoted"
      BY <2>4, InPlainCases, ReadingIs
    <3>4. c = "/" => n = "slash"
      BY <2>4, InPlainCases, ReadingIs
    <3>5. c = "#" /\ IsMysql(l) => n = "line"
      BY <2>4, InPlainCases, ReadingIs
    <3>6. c = "?" => n = "plain"
      BY <2>4, InPlainCases, ReadingIs
    <3>7. c \in Blank => n = "plain"
      BY <2>4, InPlainCases, ReadingIs
    <3>8. c = "-" => n = "dash"
      BY <2>4, InPlainCases, ReadingIs
    <3>9. c \notin {"'", DoubleQuote, "-", "/", "?"} /\ c \notin Blank
            /\ (c # Backquote \/ l = "postgresql") /\ (c # "#" \/ ~IsMysql(l)) => n = "plain"
      BY <2>4, InPlainCases, ReadingIs
    <3>10. QED BY <3>1, <3>2, <3>3, <3>4, <3>5, <3>6, <3>7, <3>8, <3>9
  <2>6. QED BY <2>3, <2>4, <2>5
<1>5. QED BY <1>2, <1>3, <1>4

-----------------------------------------------------------------------------
(* Texts that are put together                                             *)

LEMMA AppendAround ==
  ASSUME NEW C, NEW T \in Seq(C), NEW d \in C, NEW t \in Seq(C), NEW c \in C, NEW w \in Seq(C),
         Append(T, d) = Around(t, c, w)
  PROVE  \/ w = <<>> /\ t = T /\ c = d
         \/ \E v \in Seq(C) : w = Append(v, d) /\ T = Around(t, c, v)
<1>1. PICK a \in Seq(C) : a = Append(t, c) /\ a = t \o <<c>>
  <2>1. Append(t, c) \in Seq(C) /\ Append(t, c) = t \o <<c>>
    BY AppendProperties, AppendIsConcat
  <2>2. QED BY <2>1
<1>2. Around(t, c, w) = a \o w
  BY <1>1 DEF Around
<1>3. CASE w = <<>>
  <2>1. a \o <<>> = a
    BY ConcatEmptySeq
  <2>2. Append(T, d) = Append(t, c)
    BY <1>1, <1>2, <1>3, <2>1
  <2>3. QED BY <1>3, <2>2, AppendInjective
<1>4. CASE w # <<>>
  <2>1. PICK v \in Seq(C), e \in C : w = Append(v, e)
    BY <1>4, SequenceEmptyOrAppend
  <2>2. a \o Append(v, e) = Append(a \o v, e)
    BY ConcatAppend
  <2>3. PICK b \in Seq(C) : b = a \o v
    BY ConcatProperties
  <2>4. Append(T, d) = Append(b, e)
    BY <1>2, <2>1, <2>2, <2>3
  <2>5. T = b /\ d = e
    BY <2>4, AppendInjective
  <2>6. T = Around(t, c, v)
    BY <1>1, <2>3, <2>5 DEF Around
  <2>7. QED BY <2>1, <2>5, <2>6
<1>5. QED BY <1>3, <1>4

\* A character is put behind a text: it does not touch a mark.
LEMMA GoodStep ==
  ASSUME NEW C, Alphabet(C), NEW l, NEW T \in Seq(C), Good(T, l, C), NEW d \in C,
         Apart(Runs(Outset, T, l).mode, d, <<>>, l),
         d \in {"'", "?"} => \A t \in Seq(C) : T # Append(t, "?") \/ Runs(Outset, t, l).mode \notin Rests(l)
  PROVE  Good(Append(T, d), l, C)
<1>1. SUFFICES ASSUME NEW t \in Seq(C), NEW c \in C, NEW w \in Seq(C),
                      Append(T, d) = Around(t, c, w)
               PROVE  Apart(Runs(Outset, t, l).mode, c, w, l)
  BY DEF Good
<1>2. CASE w = <<>> /\ t = T /\ c = d
  BY <1>2
<1>3. ASSUME NEW v \in Seq(C), w = Append(v, d), T = Around(t, c, v)
      PROVE  Apart(Runs(Outset, t, l).mode, c, w, l)
  <2>1. Apart(Runs(Outset, t, l).mode, c, v, l)
    BY <1>3, GoodAt
  <2>2. ASSUME c = "?", Runs(Outset, t, l).mode \in Rests(l) PROVE ~Touches(w)
    <3>1. ~Touches(v)
      BY <2>1, <2>2 DEF Apart
    <3>2. CASE v = <<>>
      <4>1. T = Append(t, "?")
        <5>1. PICK a \in Seq(C) : a = Append(t, c) /\ a = t \o <<c>>
          <6>1. Append(t, c) \in Seq(C) /\ Append(t, c) = t \o <<c>>
            BY AppendProperties, AppendIsConcat
          <6>2. QED BY <6>1
        <5>2. a \o <<>> = a
          BY ConcatEmptySeq
        <5>3. QED BY <1>3, <2>2, <3>2, <5>1, <5>2 DEF Around
      <4>2. d \notin {"'", "?"}
        BY <2>2, <4>1
      <4>3. w[1] = d
        BY <1>3, <3>2
      <4>4. QED BY <4>2, <4>3 DEF Touches
    <3>3. CASE v # <<>>
      <4>1. Len(v) \in Nat \ {0}
        BY <3>3, EmptySeq
      <4>2. w[1] = v[1]
        BY <1>3, <4>1, AppendProperties
      <4>3. QED BY <3>1, <3>3, <4>2 DEF Touches
    <3>4. QED BY <3>2, <3>3
  <2>3. QED BY <2>1, <2>2 DEF Apart
<1>4. QED BY <1>1, <1>2, <1>3, AppendAround

LEMMA GoodEmpty ==
  ASSUME NEW C, NEW l
  PROVE  Good(<<>>, l, C)
<1>1. SUFFICES ASSUME NEW t \in Seq(C), NEW c \in C, NEW w \in Seq(C), <<>> = Around(t, c, w)
               PROVE  FALSE
  BY DEF Good
<1>2. Encloses(Around(t, c, w), t, c, w)
  BY AroundIs
<1>3. Len(<<>>) = Len(t) + 1 + Len(w)
  BY <1>1, <1>2 DEF Encloses
<1>4. QED BY <1>3, EmptySeq, LenProperties

\* A word is put before a text.
LEMMA GoodHead ==
  ASSUME NEW C, Alphabet(C), NEW l, NEW B \in Seq(C), Good(B, l, C), NEW d \in C, d \notin Special
  PROVE  Good(<<d>> \o B, l, C)
<1>1. SUFFICES ASSUME NEW t \in Seq(C), NEW c \in C, NEW w \in Seq(C),
                      <<d>> \o B = Around(t, c, w)
               PROVE  Apart(Runs(Outset, t, l).mode, c, w, l)
  BY DEF Good
<1>2. PICK h \in Seq(C) : h = <<d>>
  BY OneIsSeq
<1>3. PICK o \in States(C) : o = Outset
  BY OutsetIs
<1>4. CASE t = <<>>
  <2>1. Runs(o, <<>>, l) = o
    BY RunsEmpty
  <2>2. Runs(Outset, t, l).mode = "plain"
    BY <1>3, <1>4, <2>1, OutsetIs
  <2>3. c = d
    <3>1. Encloses(Around(t, c, w), t, c, w)
      BY AroundIs
    <3>2. Around(t, c, w)[Len(t) + 1] = c
      BY <3>1 DEF Encloses
    <3>3. Len(t) + 1 = 1
      BY <1>4
    <3>4. PICK u : u = <<d>> \o B
      OBVIOUS
    <3>5. u[1] = c
      BY <1>1, <3>2, <3>3, <3>4
    <3>6. 1 \in 1..Len(h) + Len(B) /\ 1 <= Len(h) /\ h[1] = d
      BY <1>2, OneIsSeq, LenProperties
    <3>7. (h \o B)[1] = h[1]
      BY <3>6, ConcatProperties
    <3>8. QED BY <1>2, <3>4, <3>5, <3>6, <3>7
  <2>4. QED BY <2>2, <2>3 DEF Apart, Special
<1>5. CASE t # <<>>
  <2>1. PICK v \in Seq(C), e \in C : t = <<e>> \o v
    BY <1>5, HeadSplit
  <2>2. PICK f \in Seq(C) : f = <<e>>
    BY OneIsSeq
  <2>3. PICK a \in Seq(C) : a = Around(v, c, w)
    BY AroundIs
  <2>4. f \o a = h \o B
    <3>1. Regrouped(f, v, c, w)
      BY AroundAfter
    <3>2. QED BY <1>1, <1>2, <2>1, <2>2, <2>3, <3>1, Zenon DEF Regrouped
  <2>5. d = e /\ a = B
    <3>1. PICK p : p = <<e>> \o a /\ p = <<d>> \o B
      BY <1>2, <2>2, <2>4
    <3>2. QED BY <3>1, HeadSame
  <2>6. Apart(Runs(Outset, v, l).mode, c, w, l)
    BY <2>3, <2>5, GoodAt
  <2>7. Runs(Outset, t, l).mode = Runs(Outset, v, l).mode
    <3>1. o.mode \in Rest /\ Settled(o) \in Seq(Lexemes(C))
      BY <1>3, OutsetIs, SettledIs DEF Rest
    <3>2. Reads(o, d, l) = Reading("plain", Append(Settled(o), Word(d)), <<>>)
      BY <3>1, ReadsWord
    <3>3. PICK R \in Seq(Lexemes(C)) : R = Append(Settled(o), Word(d))
      BY <3>1, WordIs, AppendProperties
    <3>4. Runs(o, <<d>> \o v, l) = Runs(Reads(o, d, l), v, l)
      BY RunsHead
    <3>5. Runs(Reading("plain", R, <<>>), v, l) = After(R, Runs(Outset, v, l))
      BY PlainSettles
    <3>6. Runs(Outset, v, l) \in States(C)
      BY <1>3, RunsType
    <3>7. Runs(Outset, t, l) = After(R, Runs(Outset, v, l))
      BY <1>3, <2>1, <2>5, <3>2, <3>3, <3>4, <3>5
    <3>8. QED BY <3>6, <3>7, AfterIs
  <2>8. QED BY <2>6, <2>7
<1>6. QED BY <1>4, <1>5

\* What a program's own text has to be is enough for that.
LEMMA SoundGood ==
  ASSUME NEW C, Alphabet(C), NEW u \in Seq(C), Sound(u)
  PROVE  Good(u, lang, C)
<1>1. SUFFICES ASSUME NEW t \in Seq(C), NEW c \in C, NEW w \in Seq(C), u = Around(t, c, w)
               PROVE  Apart(Runs(Outset, t, lang).mode, c, w, lang)
  BY DEF Good
<1>2. PICK n \in Nat, k \in Nat : n = Len(t) /\ k = Len(w)
  BY LenProperties
<1>3. /\ Len(u) = n + 1 + k /\ u[n + 1] = c
      /\ \A i \in 1..n : u[i] = t[i]
      /\ \A i \in 1..k : u[n + 1 + i] = w[i]
  <2>1. Encloses(u, t, c, w)
    BY <1>1, AroundIs
  <2>2. QED BY <1>2, <2>1 DEF Encloses
<1>4. \A i \in 1..n + k : \A d \in {"?", "'", DoubleQuote, Backquote} : {u[i], u[i + 1]} # {"?", d}
  <2>1. \A i \in 1..Len(u) - 1 : \A d \in {"?", "'", DoubleQuote, Backquote} :
          {u[i], u[i + 1]} # {"?", d}
    BY DEF Sound
  <2>2. Len(u) - 1 = n + k
    BY <1>2, <1>3
  <2>3. QED BY <2>1, <2>2
<1>5. PICK m : m = Runs(Outset, t, lang).mode
  OBVIOUS
<1>6. PICK o \in States(C) : o = Outset
  BY OutsetIs
<1>7. ASSUME t # <<>>
      PROVE  \E v \in Seq(C), e \in C : /\ t = Append(v, e) /\ u[n] = e /\ n \in Nat \ {0}
                                        /\ m = Reads(Runs(o, v, lang), e, lang).mode
                                        /\ Runs(o, v, lang) \in States(C)
  <2>1. PICK v \in Seq(C), e \in C : t = Append(v, e)
    BY <1>7, SequenceEmptyOrAppend
  <2>2. PICK h \in Nat : h = Len(v)
    BY LenProperties
  <2>3. n = h + 1 /\ t[h + 1] = e
    BY <1>2, <2>1, <2>2, AppendProperties
  <2>4. n \in 1..n /\ u[n] = e
    BY <1>3, <2>2, <2>3, SMTT(20)
  <2>5. Runs(o, Append(v, e), lang) = Reads(Runs(o, v, lang), e, lang)
    BY RunsAppend
  <2>6. Runs(o, v, lang) \in States(C)
    BY RunsType
  <2>7. QED BY <1>5, <1>6, <2>1, <2>3, <2>2, <2>4, <2>5, <2>6
<1>8. t = <<>> => m = "plain"
  <2>1. Runs(o, <<>>, lang) = o
    BY RunsEmpty
  <2>2. QED BY <1>5, <1>6, <2>1, OutsetIs
<1>9. ASSUME c = "?", m = "value_end" PROVE FALSE
  <2>1. PICK v \in Seq(C), e \in C : u[n] = e /\ n \in Nat \ {0}
                                     /\ m = Reads(Runs(o, v, lang), e, lang).mode
                                     /\ Runs(o, v, lang) \in States(C)
    BY <1>7, <1>8, <1>9
  <2>2. e = "'"
    BY <1>9, <2>1, LastOf
  <2>3. n \in 1..n + k /\ {u[n], u[n + 1]} = {"?", "'"}
    BY <1>2, <1>3, <1>9, <2>1, <2>2
  <2>4. QED BY <1>4, <2>3
<1>10. ASSUME c = "?", Touches(w) PROVE FALSE
  <2>1. k \in Nat \ {0} /\ w[1] \in {"'", "?"}
    BY <1>2, <1>10, EmptySeq DEF Touches
  <2>2. u[n + 1 + 1] = w[1] /\ n + 1 \in 1..n + k
    BY <1>2, <1>3, <2>1
  <2>3. {u[n + 1], u[n + 1 + 1]} = {"?", w[1]}
    BY <1>3, <1>10, <2>2
  <2>4. QED BY <1>4, <2>1, <2>2, <2>3
<1>11. ASSUME IsMysql(lang), m = "two_dashes" PROVE c \in Blank
  <2>1. PICK v \in Seq(C), e \in C : /\ t = Append(v, e) /\ u[n] = e /\ n \in Nat \ {0}
                                     /\ m = Reads(Runs(o, v, lang), e, lang).mode
                                     /\ Runs(o, v, lang) \in States(C)
    BY <1>7, <1>8, <1>11
  <2>2. e = "-" /\ Runs(o, v, lang).mode = "dash"
    BY <1>11, <2>1, LastOf
  <2>3. v # <<>>
    BY <1>6, <2>2, RunsEmpty, OutsetIs
  <2>4. PICK y \in Seq(C), d \in C : v = Append(y, d)
    BY <2>3, SequenceEmptyOrAppend
  <2>5. d = "-"
    <3>1. Runs(o, Append(y, d), lang) = Reads(Runs(o, y, lang), d, lang)
      BY RunsAppend
    <3>2. Runs(o, y, lang) \in States(C)
      BY RunsType
    <3>3. QED BY <2>2, <2>4, <3>1, <3>2, LastOf
  <2>6. PICK h \in Nat : h = Len(y)
    BY LenProperties
  <2>7. Len(v) = h + 1 /\ v[h + 1] = d
    BY <2>4, <2>6, AppendProperties
  <2>8. n = h + 1 + 1 /\ t[h + 1] = d
    <3>1. Len(Append(v, e)) = Len(v) + 1 /\ \A i \in 1..Len(v) : Append(v, e)[i] = v[i]
      BY AppendProperties
    <3>2. h + 1 \in 1..Len(v)
      BY <2>6, <2>7
    <3>3. QED BY <1>2, <2>1, <2>7, <3>1, <3>2
  <2>14. PICK N \in Nat : N = Len(u) /\ N = n + 1 + k
    BY <1>2, <1>3
  <2>15. PICK j \in Nat : j = h + 1 /\ j + 1 = n
    BY <2>6, <2>8
  <2>16. j + 2 = n + 1 /\ j \in 1..N - 2 /\ j < N /\ j \in 1..n
    BY <1>2, <2>6, <2>14, <2>15
  <2>9. j = h + 1 /\ j + 1 = n /\ j + 2 = n + 1 /\ j \in 1..Len(u) - 2
                         /\ j < Len(u) /\ j \in 1..n
    BY <2>14, <2>15, <2>16
  <2>10. u[j] = "-" /\ u[j + 1] = "-"
    BY <1>3, <2>1, <2>2, <2>5, <2>8, <2>9
  <2>11. Two(u, j, "-", "-")
    BY <2>9, <2>10 DEF Two
  <2>12. u[j + 2] \in Blank
    BY <1>11, <2>9, <2>11 DEF Sound
  <2>13. QED BY <1>3, <2>9, <2>12
<1>12. QED BY <1>5, <1>9, <1>10, <1>11 DEF Apart

-----------------------------------------------------------------------------
(* What is put in the place of a mark                                      *)

LEMMA PutsIs ==
  ASSUME NEW C, NEW v, NEW y, NEW l, Puts(v, y, l, C),
         NEW x \in States(C), x.mode \in Rest, x.mode # "value_end"
  PROVE  Runs(x, v, l).mode \in {"plain", "value_end"}
         /\ Settled(Runs(x, v, l)) = Append(Settled(x), y)
  BY DEF Puts

\* What is put in the place of a mark is read as the argument.
LEMMA PutsMysqlValue ==
  ASSUME NEW C, Alphabet(C), NEW v \in Seq(C), NEW l \in {"mysql", "mysql_plain"}
  PROVE  Puts(escape_mysql_string(v, l = "mysql_plain"), Value(v), l, C)
<1>1. escape_mysql_string(v, l = "mysql_plain") \in Seq(C)
  <2>1. PICK o \in States(C) : o = Outset
    BY OutsetIs
  <2>2. o.mode \in Rest /\ o.mode # "value_end"
    BY <2>1, OutsetIs DEF Rest
  <2>3. QED BY <2>2, MysqlValueReads
<1>2. ASSUME NEW x \in States(C), x.mode \in Rest, x.mode # "value_end"
      PROVE  LET z == Runs(x, escape_mysql_string(v, l = "mysql_plain"), l)
             IN  z.mode \in {"plain", "value_end"} /\ Settled(z) = Append(Settled(x), Value(v))
  <2>1. PICK r \in Seq(Lexemes(C)) : r = Settled(x)
    BY SettledIs
  <2>2. Runs(x, escape_mysql_string(v, l = "mysql_plain"), l) = Reading("value_end", r, v)
    BY <1>2, <2>1, MysqlValueReads
  <2>3. Settled(Reading("value_end", r, v)) = Append(r, Value(v))
    BY SettledValue
  <2>4. QED BY <2>1, <2>2, <2>3, ReadingIs
<1>3. QED BY <1>1, <1>2 DEF Puts

LEMMA PutsSqlValue ==
  ASSUME NEW C, Alphabet(C), NEW v \in Seq(C), NEW l,
         l = "mysql" => \A i \in DOMAIN v : v[i] # Backslash
  PROVE  Puts(escape_sql_string(v), Value(v), l, C)
<1>1. escape_sql_string(v) \in Seq(C)
  <2>1. PICK o \in States(C) : o = Outset
    BY OutsetIs
  <2>2. o.mode \in Rest /\ o.mode # "value_end"
    BY <2>1, OutsetIs DEF Rest
  <2>3. QED BY <2>2, SqlValueReads
<1>2. ASSUME NEW x \in States(C), x.mode \in Rest, x.mode # "value_end"
      PROVE  LET z == Runs(x, escape_sql_string(v), l)
             IN  z.mode \in {"plain", "value_end"} /\ Settled(z) = Append(Settled(x), Value(v))
  <2>1. PICK r \in Seq(Lexemes(C)) : r = Settled(x)
    BY SettledIs
  <2>2. Runs(x, escape_sql_string(v), l) = Reading("value_end", r, v)
    BY <1>2, <2>1, SqlValueReads
  <2>3. Settled(Reading("value_end", r, v)) = Append(r, Value(v))
    BY SettledValue
  <2>4. QED BY <2>1, <2>2, <2>3, ReadingIs
<1>3. QED BY <1>1, <1>2 DEF Puts

\* A blank behind it changes nothing.
LEMMA PutsBlank ==
  ASSUME NEW C, Alphabet(C), NEW v, NEW y \in Lexemes(C), NEW l, Puts(v, y, l, C)
  PROVE  Puts(v \o <<" ">>, y, l, C)
<1>1. v \in Seq(C) /\ " " \in C
  BY DEF Puts, Alphabet
<1>2. v \o <<" ">> = Append(v, " ") /\ Append(v, " ") \in Seq(C)
  BY <1>1, AppendIsConcat, AppendProperties
<1>3. ASSUME NEW x \in States(C), x.mode \in Rest, x.mode # "value_end"
      PROVE  LET z == Runs(x, Append(v, " "), l)
             IN  z.mode \in {"plain", "value_end"} /\ Settled(z) = Append(Settled(x), y)
  <2>1. PICK z \in States(C) : z = Runs(x, v, l)
    BY <1>1, RunsType
  <2>2. z.mode \in {"plain", "value_end"} /\ Settled(z) = Append(Settled(x), y)
    BY <1>3, <2>1, PutsIs
  <2>3. Runs(x, Append(v, " "), l) = Reads(z, " ", l)
    BY <1>1, <2>1, RunsAppend
  <2>4. PICK r \in Seq(Lexemes(C)) : r = Settled(z)
    BY SettledIs
  <2>5. z.mode \in Rest
    BY <2>2 DEF Rest, QuoteEnds
  <2>6. Reads(z, " ", l) = Reading("plain", r, <<>>)
    BY <2>4, <2>5, ReadsBlank DEF Blank
  <2>7. Settled(Reading("plain", r, <<>>)) = r
    BY SettledPlain
  <2>8. PICK q : q = Runs(x, Append(v, " "), l)
    OBVIOUS
  <2>9. q = Reading("plain", r, <<>>)
    BY <2>3, <2>6, <2>8
  <2>10. q.mode = "plain" /\ Settled(q) = Append(Settled(x), y)
    BY <2>2, <2>4, <2>7, <2>9, ReadingIs
  <2>11. QED BY <2>8, <2>10
<1>4. QED BY <1>2, <1>3 DEF Puts

LEMMA PutsWord ==
  ASSUME NEW C, Alphabet(C), NEW c \in C, c \notin Special, NEW l
  PROVE  Puts(<<c>>, Word(c), l, C)
<1>1. <<c>> \in Seq(C)
  BY OneIsSeq
<1>2. ASSUME NEW x \in States(C), x.mode \in Rest, x.mode # "value_end"
      PROVE  LET z == Runs(x, <<c>>, l)
             IN  z.mode \in {"plain", "value_end"} /\ Settled(z) = Append(Settled(x), Word(c))
  <2>1. Runs(x, <<c>>, l) = Reads(x, c, l)
    BY RunsOne
  <2>2. PICK r \in Seq(Lexemes(C)) : r = Append(Settled(x), Word(c))
    BY SettledIs, WordIs, AppendProperties
  <2>3. Reads(x, c, l) = Reading("plain", r, <<>>)
    BY <1>2, <2>2, ReadsWord
  <2>4. Settled(Reading("plain", r, <<>>)) = r
    BY SettledPlain
  <2>5. QED BY <2>1, <2>2, <2>3, <2>4, ReadingIs
<1>3. QED BY <1>1, <1>2 DEF Puts

-----------------------------------------------------------------------------
(* Replacing the marks of a text, one after the other                      *)

LEMMA AroundAppend ==
  ASSUME NEW C, NEW t \in Seq(C), NEW c \in C, NEW w \in Seq(C), NEW a, a = Append(t, c)
  PROVE  Around(t, c, w) = a \o w
<1>1. a = t \o <<c>>
  BY AppendIsConcat
<1>2. QED BY <1>1 DEF Around

LEMMA AroundHead ==
  ASSUME NEW C, NEW t \in Seq(C), NEW c \in C, NEW w \in Seq(C)
  PROVE  /\ Around(t, c, w) # <<>>
         /\ Around(t, c, w)[1] = IF t = <<>> THEN c ELSE t[1]
<1>1. Encloses(Around(t, c, w), t, c, w) /\ Around(t, c, w) \in Seq(C)
  BY AroundIs
<1>2. Len(t) \in Nat /\ Len(w) \in Nat /\ (t # <<>> => Len(t) \in Nat \ {0})
  BY LenProperties, EmptySeq
<1>3. Len(Around(t, c, w)) # 0
  BY <1>1, <1>2 DEF Encloses
<1>4. CASE t = <<>>
  <2>1. Len(t) + 1 = 1
    BY <1>4
  <2>2. QED BY <1>1, <1>3, <1>4, <2>1 DEF Encloses
<1>5. CASE t # <<>>
  <2>1. 1 \in 1..Len(t)
    BY <1>2, <1>5
  <2>2. QED BY <1>1, <1>3, <1>5, <2>1 DEF Encloses
<1>6. QED BY <1>4, <1>5

\* Reading what stands before a mark, after x.
LEMMA Reaching ==
  ASSUME NEW C, Alphabet(C), NEW l, NEW x \in States(C), x.mode \in {"plain", "value_end"},
         NEW t \in Seq(C), NEW w \in Seq(C), "?" \in C, Good(Around(t, "?", w), l, C),
         x.mode = "value_end" => ~Touches(Around(t, "?", w)),
         Runs(Outset, t, l).mode \in Rest
  PROVE  Reached(x, t, l)
<1>1. PICK o \in States(C) : o = Outset
  BY OutsetIs
<1>2. PICK y \in States(C) : y = Runs(Outset, t, l)
  BY <1>1, RunsType
<1>3. PICK b : b = Around(t, "?", w) /\ b # <<>> /\ b[1] = IF t = <<>> THEN "?" ELSE t[1]
  BY AroundHead
<1>4. y.mode # "value_end"
  <2>1. Apart(y.mode, "?", w, l)
    BY <1>2, GoodAt
  <2>2. y.mode \in Rests(l)
    BY <1>2 DEF Rest, Rests
  <2>3. QED BY <2>1, <2>2 DEF Apart
<1>5. CASE t = <<>>
  <2>1. y = o /\ Runs(x, t, l) = x
    BY <1>1, <1>2, <1>5, RunsEmpty
  <2>2. x.mode = "plain"
    BY <1>3, <1>5 DEF Touches
  <2>3. Settled(o) = <<>>
    <3>1. <<>> \in Seq(Lexemes(C))
      BY EmptySeq
    <3>2. Settled(Reading("plain", <<>>, <<>>)) = <<>>
      BY <3>1, SettledPlain
    <3>3. QED BY <1>1, <3>2 DEF Outset
  <2>4. Settled(x) \o <<>> = Settled(x)
    BY SettledIs, ConcatEmptySeq
  <2>5. "plain" \in Rest
    BY DEF Rest
  <2>6. QED BY <1>2, <2>1, <2>2, <2>3, <2>4, <2>5 DEF Reached
<1>6. CASE t # <<>>
  <2>1. Fits(x.mode, t[1])
    <3>1. CASE x.mode = "plain"
      BY <3>1 DEF Fits, QuoteEnds
    <3>2. CASE x.mode = "value_end"
      <4>1. t[1] # "'"
        BY <1>3, <1>6, <3>2 DEF Touches
      <4>2. Closing[Ended["value_end"]] = "'"
        BY QuoteTable
      <4>3. QED BY <3>2, <4>1, <4>2 DEF Fits
    <3>3. QED BY <3>1, <3>2
  <2>2. x.mode \in Rest
    BY DEF Rest, QuoteEnds
  <2>3. PICK r \in Seq(Lexemes(C)) : r = Settled(x)
    BY SettledIs
  <2>4. Runs(x, t, l) = After(r, y)
    BY <1>2, <1>6, <2>1, <2>2, <2>3, SettlingText
  <2>5. Settled(After(r, y)) = r \o Settled(y) /\ After(r, y).mode = y.mode
    BY SettledAfter
  <2>6. QED BY <1>2, <1>4, <2>3, <2>4, <2>5 DEF Reached
<1>7. QED BY <1>5, <1>6

\* Reading on over a mark.
LEMMA Crossing ==
  ASSUME NEW C, Alphabet(C), NEW l, NEW t \in Seq(C), "?" \in C,
         Runs(Outset, t, l).mode \in Rest, NEW O \in Seq(C), NEW R \in Seq(Lexemes(C)),
         Runs(Outset, O, l) = Reading("plain", R, <<>>), NEW p, NEW P, NEW q, NEW Q,
         Crosses(O, t, p, P, R, Settled(Runs(Outset, t, l)), q, Q)
  PROVE  Runs(Outset, P, l) = Reading("plain", Q, <<>>)
<1>1. PICK o \in States(C) : o = Outset
  BY OutsetIs
<1>2. PICK y \in States(C) : y = Runs(Outset, t, l)
  BY <1>1, RunsType
<1>0. p = O \o t /\ P = Append(p, "?") /\ q = R \o Settled(Runs(Outset, t, l)) /\ Q = Append(q, Mark)
  BY DEF Crosses
<1>3. p \in Seq(C)
  BY <1>0, ConcatProperties
<1>4. Runs(o, p, l) = Runs(Runs(o, O, l), t, l)
  BY <1>0, RunsConcat
<1>5. PICK z \in States(C) : z = After(R, y)
  BY AfterIs
<1>6. Runs(o, p, l) = z
  BY <1>1, <1>2, <1>4, <1>5, PlainSettles
<1>7. Runs(o, Append(p, "?"), l) = Reads(z, "?", l)
  BY <1>3, <1>6, RunsAppend
<1>8. z.mode \in Rest /\ Settled(z) = R \o Settled(y)
  BY <1>2, <1>5, SettledAfter
<1>9. Reads(z, "?", l) = Reading("plain", Append(Settled(z), Mark), <<>>)
  BY <1>8, ReadsMark
<1>10. QED BY <1>0, <1>1, <1>2, <1>7, <1>8, <1>9

\* One turn of the loop: the next mark is replaced and the search goes on behind it.
LEMMA LoopStep ==
  ASSUME NEW C, Alphabet(C), NEW l, "?" \in C, NEW O, NEW B, NEW D, NEW R, NEW n \in Nat,
         NEW g \in [Nat -> Lexemes(C)], Along(O, B, D, R, n, g, l, C),
         NEW t \in Seq(C), NEW w \in Seq(C), B = Around(t, "?", w),
         Runs(Outset, t, l).mode \in Rest, NoMark(Runs(Outset, t, l).read),
         NEW v, Puts(v, g[n + 1], l, C)
  PROVE  Onward(O, B, D, t, w, v, n, g, l, C)
<1>1. /\ O \in Seq(C) /\ B \in Seq(C) /\ D \in Seq(C) /\ R \in Seq(Lexemes(C))
      /\ Runs(Outset, O, l) = Reading("plain", R, <<>>)
      /\ Marks(R) = n /\ n <= Len(O) /\ Good(B, l, C)
      /\ Runs(Outset, D, l).mode \in {"plain", "value_end"}
      /\ Settled(Runs(Outset, D, l)) = FilledWith(R, g)
      /\ Runs(Outset, D, l).mode = "value_end" => ~Touches(B)
  BY DEF Along
<1>2. PICK o \in States(C) : o = Outset
  BY OutsetIs
<1>3. PICK y \in States(C) : y = Runs(Outset, t, l)
  BY <1>2, RunsType
<1>4. PICK ys \in Seq(Lexemes(C)) : ys = Settled(y)
  BY SettledIs
<1>5. NoMark(ys)
  <2>1. PICK a \in Seq(Lexemes(C)), b \in Seq(Lexemes(C)) : a = y.read /\ b = Over(y.mode, y.open)
    BY StateParts, OverIs
  <2>2. NoMark(a) /\ NoMark(b)
    BY <1>3, <2>1, StateParts, OverIs
  <2>3. Marks(a) = 0 /\ Marks(b) = 0
    BY <2>2, NoMarkTimes
  <2>4. Marks(a \o b) = Marks(a) + Marks(b)
    BY MarksConcat
  <2>5. Marks(ys) = 0
    BY <1>4, <2>1, <2>3, <2>4 DEF Settled
  <2>6. QED BY <2>5, NoMarkTimes
<1>6. PICK q \in Seq(Lexemes(C)) : q = R \o ys
  BY <1>1, ConcatProperties
<1>7. PICK Q \in Seq(Lexemes(C)) : Q = Append(q, Mark)
  BY MarkIs, AppendProperties
<1>8. PICK p \in Seq(C) : p = O \o t
  BY <1>1, ConcatProperties
<1>9. PICK P \in Seq(C) : P = Append(p, "?")
  BY AppendProperties
<1>10. Runs(Outset, P, l) = Reading("plain", Q, <<>>)
  <2>1. Crosses(O, t, p, P, R, Settled(Runs(Outset, t, l)), q, Q)
    BY <1>3, <1>4, <1>6, <1>7, <1>8, <1>9, Zenon DEF Crosses
  <2>2. QED BY <1>1, <2>1, Crossing
<1>11. Marks(q) = n
  <2>1. Marks(R \o ys) = Marks(R) + Marks(ys) /\ Marks(ys) = 0
    BY <1>1, <1>5, MarksConcat, NoMarkTimes
  <2>2. QED BY <1>1, <1>6, <2>1
<1>12. Marks(Q) = n + 1
  BY <1>7, <1>11, MarkIs, MarksAppend
<1>13. n + 1 <= Len(P)
  <2>1. Len(p) = Len(O) + Len(t) /\ Len(P) = Len(p) + 1 /\ Len(O) \in Nat /\ Len(t) \in Nat
    BY <1>1, <1>8, <1>9, ConcatProperties, AppendProperties, LenProperties
  <2>2. QED BY <1>1, <2>1
<1>14. P \o w = O \o B
  <2>1. Regrouped(O, t, "?", w)
    BY <1>1, AroundAfter
  <2>2. O \o B = Around(p, "?", w)
    BY <1>8, <2>1, Zenon DEF Regrouped
  <2>3. Around(p, "?", w) = P \o w
    BY <1>9, AroundAppend
  <2>4. QED BY <2>2, <2>3
<1>15. Good(w, l, C)
  <2>1. PICK a \in Seq(C) : a = Append(t, "?")
    BY AppendProperties
  <2>2. B = a \o w
    BY <2>1, AroundAppend
  <2>3. PICK r \in Seq(Lexemes(C)) : r = Append(ys, Mark)
    BY MarkIs, AppendProperties
  <2>4. Runs(Outset, a, l) = Reading("plain", r, <<>>)
    <3>1. Runs(o, Append(t, "?"), l) = Reads(y, "?", l)
      BY <1>2, <1>3, RunsAppend
    <3>2. Reads(y, "?", l) = Reading("plain", Append(Settled(y), Mark), <<>>)
      BY <1>3, ReadsMark
    <3>3. QED BY <1>2, <1>4, <2>1, <2>3, <3>1, <3>2
  <2>5. Good(a \o w, l, C)
    BY <1>1, <2>2
  <2>6. QED BY <2>4, <2>5, GoodSuffix
<1>16. ~Touches(w)
  <2>1. Apart(y.mode, "?", w, l)
    BY <1>1, <1>3, GoodAt
  <2>2. y.mode \in Rests(l)
    BY <1>3 DEF Rest, Rests
  <2>3. QED BY <2>1, <2>2 DEF Apart
<1>17. PICK x \in States(C) : x = Runs(Outset, D, l)
  BY <1>1, <1>2, RunsType
<1>18. PICK d \in Seq(C) : d = D \o t
  BY <1>1, ConcatProperties
<1>19. PICK z \in States(C) : z = Runs(Outset, d, l) /\ z = Runs(x, t, l)
  <2>1. Runs(o, D \o t, l) = Runs(Runs(o, D, l), t, l)
    BY <1>1, RunsConcat
  <2>2. Runs(x, t, l) \in States(C)
    BY RunsType
  <2>3. QED BY <1>2, <1>17, <1>18, <2>1, <2>2
<1>27. Reached(x, t, l)
  BY <1>1, <1>17, Reaching
<1>28. z.mode \in Rest /\ z.mode # "value_end"
  BY <1>19, <1>27 DEF Reached
<1>20. Settled(z) = FilledWith(R, g) \o ys
  BY <1>1, <1>3, <1>4, <1>17, <1>19, <1>27 DEF Reached
<1>21. PICK e \in Seq(C) : e = d \o v
  BY ConcatProperties DEF Puts
<1>22. Runs(Outset, e, l) = Runs(z, v, l)
  <2>1. v \in Seq(C)
    BY DEF Puts
  <2>2. Runs(o, d \o v, l) = Runs(Runs(o, d, l), v, l)
    BY <2>1, RunsConcat
  <2>3. QED BY <1>2, <1>19, <1>21, <2>2
<1>23. /\ Runs(Outset, e, l).mode \in {"plain", "value_end"}
       /\ Settled(Runs(Outset, e, l)) = Append(Settled(z), g[n + 1])
  BY <1>28, <1>22, PutsIs
<1>24. FilledWith(Q, g) = Append(FilledWith(R, g) \o ys, g[n + 1])
  <2>1. FilledWith(R \o ys, g) = FilledWith(R, g) \o ys
    BY <1>1, <1>5, FilledWithConcat, ZenonT(30)
  <2>2. FilledWith(Append(q, Mark), g) =
          Append(FilledWith(q, g), IF Mark = Mark THEN g[Marks(q) + 1] ELSE Mark)
    BY MarkIs, FilledWithAppend
  <2>3. QED BY <1>6, <1>7, <1>11, <2>1, <2>2
<1>25. Along(P, w, e, Q, n + 1, g, l, C)
  BY <1>10, <1>12, <1>13, <1>15, <1>16, <1>20, <1>23, <1>24 DEF Along
<1>26. QED BY <1>14, <1>18, <1>21, <1>25 DEF Onward

-----------------------------------------------------------------------------
(* The texts as a whole                                                    *)

LEMMA SaysIs ==
  ASSUME NEW u, NEW l
  PROVE  Says(u, l) = Runs(Outset, Append(u, Newline), l).read
  BY DEF Says, ServerReads, Outset

\* A text that comes after another that leads to x.
LEMMA SaysAfter ==
  ASSUME NEW C, Alphabet(C), NEW l, NEW D \in Seq(C), NEW B \in Seq(C),
         Runs(Outset, D, l).mode \in {"plain", "value_end"},
         Runs(Outset, D, l).mode = "value_end" => ~Touches(B)
  PROVE  SaysBoth(D, B, l)
<1>1. PICK o \in States(C) : o = Outset
  BY OutsetIs
<1>2. PICK x \in States(C) : x = Runs(Outset, D, l)
  BY <1>1, RunsType
<1>3. Newline \in C
  BY DEF Alphabet
<1>4. PICK b \in Seq(C) : b = Append(B, Newline) /\ b # <<>>
  BY <1>3, AppendProperties
<1>5. Append(D \o B, Newline) = D \o b
  <2>1. D \o Append(B, Newline) = Append(D \o B, Newline)
    BY <1>3, ConcatAppend
  <2>2. QED BY <1>4, <2>1, Zenon
<1>6. Runs(o, D \o b, l) = Runs(x, b, l)
  <2>1. Runs(o, D \o b, l) = Runs(Runs(o, D, l), b, l)
    BY RunsConcat
  <2>2. QED BY <1>1, <1>2, <2>1
<1>7. Fits(x.mode, b[1])
  <2>1. CASE x.mode = "plain"
    BY <2>1 DEF Fits, QuoteEnds
  <2>2. CASE x.mode = "value_end"
    <3>1. b[1] # "'"
      <4>1. CASE B = <<>>
        BY <1>3, <1>4, <4>1 DEF Newline
      <4>2. CASE B # <<>>
        <5>1. Len(B) \in Nat \ {0}
          BY <4>2, EmptySeq
        <5>2. b[1] = B[1]
          BY <1>3, <1>4, <5>1, AppendProperties
        <5>3. QED BY <1>2, <2>2, <4>2, <5>2 DEF Touches
      <4>3. QED BY <4>1, <4>2
    <3>2. Closing[Ended["value_end"]] = "'"
      BY QuoteTable
    <3>3. QED BY <2>2, <3>1, <3>2 DEF Fits
  <2>3. QED BY <1>2, <2>1, <2>2
<1>8. x.mode \in Rest
  BY <1>2 DEF Rest, QuoteEnds
<1>9. Runs(x, b, l) = After(Settled(x), Runs(Outset, b, l))
  BY <1>4, <1>7, <1>8, SettlingText
<1>10. Runs(Outset, b, l) \in States(C)
  BY <1>1, RunsType
<1>11. Runs(x, b, l).read = Settled(x) \o Runs(Outset, b, l).read
  <2>1. PICK r \in Seq(Lexemes(C)), y \in States(C) : r = Settled(x) /\ y = Runs(Outset, b, l)
    BY <1>10, SettledIs
  <2>2. After(r, y).read = r \o y.read
    BY AfterIs
  <2>3. QED BY <1>9, <2>1, <2>2
<1>12. PICK u : u = D \o B
  OBVIOUS
<1>13. Says(u, l) = Runs(o, D \o b, l).read
  BY <1>1, <1>5, <1>12, SaysIs
<1>14. Says(B, l) = Runs(Outset, b, l).read
  BY <1>4, SaysIs
<1>15. QED BY <1>2, <1>6, <1>11, <1>12, <1>13, <1>14 DEF SaysBoth

LEMMA SaysType ==
  ASSUME NEW C, Alphabet(C), NEW u \in Seq(C), NEW l
  PROVE  Says(u, l) \in Seq(Lexemes(C)) /\ Marks(Says(u, l)) = Marks(Runs(Outset, u, l).read)
<1>1. PICK o \in States(C) : o = Outset
  BY OutsetIs
<1>2. PICK x \in States(C) : x = Runs(Outset, u, l)
  BY <1>1, RunsType
<1>3. Newline \in C /\ Newline # "?"
  BY DEF Alphabet, Newline
<1>4. Runs(o, Append(u, Newline), l) = Reads(x, Newline, l)
  BY <1>1, <1>2, <1>3, RunsAppend
<1>5. Says(u, l) = Reads(x, Newline, l).read
  BY <1>1, <1>4, SaysIs
<1>6. Says(u, l) \in Seq(Lexemes(C))
  BY <1>3, <1>5, ReadsType, StateParts
<1>7. Marks(x.read) \in Nat
  BY StateParts, MarksConcat
<1>8. Marks(Reads(x, Newline, l).read) =
        Marks(x.read) + IF Newline = "?" /\ x.mode \in Rests(l) THEN 1 ELSE 0
  BY <1>3, MarkStep
<1>9. QED BY <1>2, <1>3, <1>5, <1>6, <1>7, <1>8

\* When no mark is left, all are replaced and nothing else has changed.
LEMMA LoopEnd ==
  ASSUME NEW C, Alphabet(C), NEW l, NEW O, NEW B, NEW D, NEW R, NEW n \in Nat,
         NEW g \in [Nat -> Lexemes(C)], Along(O, B, D, R, n, g, l, C)
  PROVE  /\ Marks(Says(O \o B, l)) = n + Marks(Runs(Outset, B, l).read)
         /\ Marks(Runs(Outset, B, l).read) \in Nat
         /\ Marks(Runs(Outset, B, l).read) = 0 =>
              Says(D \o B, l) = FilledWith(Says(O \o B, l), g)
<1>1. /\ O \in Seq(C) /\ B \in Seq(C) /\ D \in Seq(C) /\ R \in Seq(Lexemes(C))
      /\ Runs(Outset, O, l) = Reading("plain", R, <<>>)
      /\ Marks(R) = n
      /\ Runs(Outset, D, l).mode \in {"plain", "value_end"}
      /\ Settled(Runs(Outset, D, l)) = FilledWith(R, g)
      /\ Runs(Outset, D, l).mode = "value_end" => ~Touches(B)
  BY DEF Along
<1>2. PICK z \in Seq(Lexemes(C)) : z = Says(B, l) /\ Marks(z) = Marks(Runs(Outset, B, l).read)
  BY <1>1, SaysType
<1>3. Says(O \o B, l) = R \o z
  <2>1. Runs(Outset, O, l).mode = "plain" /\ Settled(Runs(Outset, O, l)) = R
    BY <1>1, ReadingIs, SettledPlain
  <2>2. SaysBoth(O, B, l)
    BY <1>1, <2>1, SaysAfter
  <2>3. QED BY <1>2, <2>1, <2>2 DEF SaysBoth
<1>4. Says(D \o B, l) = FilledWith(R, g) \o z
  <2>1. SaysBoth(D, B, l)
    BY <1>1, SaysAfter
  <2>2. QED BY <1>1, <1>2, <2>1 DEF SaysBoth
<1>5. Marks(R \o z) = Marks(R) + Marks(z) /\ Marks(z) \in Nat
  BY <1>1, MarksConcat
<1>6. Marks(z) = 0 => FilledWith(R \o z, g) = FilledWith(R, g) \o z
  BY <1>1, NoMarkTimes, FilledWithConcat
<1>7. QED BY <1>1, <1>2, <1>3, <1>4, <1>5, <1>6

\* Before the first turn nothing is replaced.
LEMMA HalfwayStart ==
  ASSUME NEW C, Alphabet(C), NEW l, NEW u \in Seq(C), Good(u, l, C),
         NEW g \in [Nat -> Lexemes(C)]
  PROVE  Halfway(u, u, 1, 0, g, l, C)
<1>1. PICK e : e = <<>> /\ e \in Seq(C) /\ e \in Seq(Lexemes(C)) /\ Len(e) = 0
  BY EmptySeq
<1>2. u = e \o u
  BY <1>1, ConcatEmptySeq
<1>3. Runs(Outset, e, l) = Reading("plain", e, <<>>)
  <2>1. PICK o \in States(C) : o = Outset
    BY OutsetIs
  <2>2. Runs(o, <<>>, l) = o
    BY RunsEmpty
  <2>3. QED BY <1>1, <2>1, <2>2, Zenon DEF Outset
<1>4. Marks(e) = 0
  BY <1>1, TimesEmpty, MarksAreTimes
<1>5. Settled(Reading("plain", e, <<>>)) = e /\ FilledWith(e, g) = e
  <2>1. Settled(Reading("plain", e, <<>>)) = e
    BY <1>1, SettledPlain
  <2>2. FilledWith(<<>>, g) = <<>>
    BY FilledWithEmpty
  <2>3. QED BY <1>1, <2>1, <2>2
<1>6. Reading("plain", e, <<>>).mode = "plain"
  BY ReadingIs
<1>7. Along(e, u, e, e, 0, g, l, C)
  BY <1>1, <1>3, <1>4, <1>5, <1>6 DEF Along
<1>8. 1 = Len(e) + 1
  BY <1>1
<1>9. QED BY <1>2, <1>7, <1>8, Zenon DEF Halfway

\* A `?' outside of everything is one mark more.
LEMMA MarkAhead ==
  ASSUME NEW C, Alphabet(C), NEW l, NEW B, "?" \in C,
         NEW t \in Seq(C), NEW w \in Seq(C), B = Around(t, "?", w),
         Runs(Outset, t, l).mode \in Rests(l)
  PROVE  Marks(Runs(Outset, B, l).read) >= Marks(Runs(Outset, t, l).read) + 1
<1>1. PICK o \in States(C) : o = Outset
  BY OutsetIs
<1>2. PICK y \in States(C) : y = Runs(o, t, l)
  BY RunsType
<1>3. PICK a \in Seq(C) : a = Append(t, "?")
  BY AppendProperties
<1>4. PICK z \in States(C) : z = Reads(y, "?", l)
  BY ReadsType
<1>5. Runs(o, a, l) = z
  BY <1>2, <1>3, <1>4, RunsAppend
<1>6. Marks(z.read) = Marks(y.read) + 1 /\ Marks(y.read) \in Nat
  <2>1. Marks(z.read) = Marks(y.read) + IF "?" = "?" /\ y.mode \in Rests(l) THEN 1 ELSE 0
    BY <1>4, MarkStep
  <2>2. Marks(y.read) \in Nat
    BY StateParts, MarksConcat
  <2>3. QED BY <1>1, <1>2, <2>1, <2>2
<1>7. B = a \o w
  BY <1>3, AroundAppend
<1>8. Runs(o, a \o w, l) = Runs(Runs(o, a, l), w, l)
  BY RunsConcat
<1>9. PICK m \in Modes, r \in Seq(Lexemes(C)), p \in Seq(C) :
        m = z.mode /\ r = z.read /\ p = z.open /\ z = Reading(m, r, p)
  BY StateParts
<1>10. PICK x \in States(C) : x = Runs(At(m, p), w, l)
  BY AtIs, RunsType
<1>11. Runs(z, w, l) = After(r, x)
  <2>1. Runs(Reading(m, r, p), w, l) = After(r, Runs(At(m, p), w, l))
    BY RunsShift
  <2>2. QED BY <1>9, <1>10, <2>1
<1>12. Runs(z, w, l).read = r \o x.read
  BY <1>11, AfterIs
<1>13. Marks(r \o x.read) = Marks(r) + Marks(x.read) /\ Marks(x.read) \in Nat
  BY StateParts, MarksConcat
<1>15. Runs(Outset, B, l).read = r \o x.read
  BY <1>1, <1>5, <1>7, <1>8, <1>12
<1>14. QED
  <2>1. PICK i \in Nat, j \in Nat : i = Marks(y.read) /\ j = Marks(x.read)
    BY <1>6, <1>13
  <2>2. Marks(Runs(Outset, B, l).read) = i + 1 + j
    BY <1>6, <1>9, <1>13, <1>15, <2>1
  <2>3. Marks(Runs(Outset, t, l).read) = i
    BY <1>1, <1>2, <2>1
  <2>4. QED BY <2>1, <2>2, <2>3

\* A mark of what is left is replaced.
LEMMA HalfwayStep ==
  ASSUME NEW C, Alphabet(C), NEW l, "?" \in C, NEW O, NEW B, NEW D, NEW R, NEW n \in Nat,
         NEW g \in [Nat -> Lexemes(C)], Along(O, B, D, R, n, g, l, C),
         NEW t \in Seq(C), NEW w \in Seq(C), B = Around(t, "?", w),
         Runs(Outset, t, l).mode \in Rest, NoMark(Runs(Outset, t, l).read),
         NEW v, Puts(v, g[n + 1], l, C), NEW u, NEW sql, Splits(u, O, B), Splits(sql, D, B),
         NEW p, p = Len(D) + Len(t) + 1
  PROVE  Halfway(u, Replaced(sql, p, v), p + Len(v), n + 1, g, l, C)
<1>9. Onward(O, B, D, t, w, v, n, g, l, C)
  BY LoopStep
<1>1. PICK P, Q : Along(P, w, (D \o t) \o v, Q, n + 1, g, l, C) /\ P \o w = O \o B
  BY <1>9, Zenon DEF Onward
<1>2. D \in Seq(C) /\ v \in Seq(C)
  BY DEF Along, Puts
<1>3. PICK E : E = (D \o t) \o v
  OBVIOUS
<1>4. Replaced(sql, p, v) = E \o w /\ Len(E) = Len(D) + Len(t) + Len(v)
  <2>1. PutIn(D, t, "?", w, v)
    BY <1>2, ReplacedIs
  <2>2. QED BY <1>3, <2>1, Zenon DEF PutIn, Splits
<1>5. Len(D) \in Nat /\ Len(t) \in Nat /\ Len(v) \in Nat
  BY <1>2, LenProperties
<1>6. p + Len(v) = Len(E) + 1
  BY <1>4, <1>5
<1>7. Along(P, w, E, Q, n + 1, g, l, C) /\ u = P \o w
  BY <1>1, <1>3, Zenon DEF Splits
<1>8. QED BY <1>4, <1>6, <1>7, Zenon DEF Halfway

\* The next placeholder that is found is the next mark the server reads.
LEMMA Searching ==
  ASSUME NEW C, Alphabet(C), NEW l \in {"mysql", "mysql_plain", "postgresql"}, NEW u, NEW sql,
         NEW at, NEW n \in Nat, NEW g \in [Nat -> Lexemes(C)], Halfway(u, sql, at, n, g, l, C)
  PROVE  LET p == NextPlaceholder(sql, at, l)
         IN  \/ p = npos /\ Marks(Says(u, l)) = n /\ Says(sql, l) = FilledWith(Says(u, l), g)
             \/ p # npos /\ Marks(Says(u, l)) \in Nat /\ Marks(Says(u, l)) > n
                /\ MayPut(u, sql, p, n, g, l, C)
<1>1. PICK O, B, D, R : /\ Along(O, B, D, R, n, g, l, C)
                        /\ u = O \o B /\ sql = D \o B /\ at = Len(D) + 1
  BY Zenon DEF Halfway
<1>2. O \in Seq(C) /\ B \in Seq(C) /\ D \in Seq(C) /\ Good(B, l, C)
  BY <1>1 DEF Along
<1>3. DashesBlank(B, l, C)
  BY <1>2, GoodDashes
<1>4. PICK p : p = NextPlaceholder(sql, at, l)
  OBVIOUS
<1>5. PICK o \in States(C) : o = Outset
  BY OutsetIs
<1>6. PICK M : M = Marks(Runs(Outset, B, l).read)
  OBVIOUS
<1>7. /\ Marks(Says(u, l)) = n + M /\ M \in Nat
      /\ M = 0 => Says(sql, l) = FilledWith(Says(u, l), g)
  BY <1>1, <1>6, LoopEnd
<1>8. \/ p = npos /\ NoMark(Runs(Outset, B, l).read)
      \/ \E t \in Seq(C), w \in Seq(C) :
           /\ B = Around(t, "?", w) /\ p = Len(D) + Len(t) + 1 /\ "?" \in C
           /\ Runs(Outset, t, l).mode \in Rest /\ NoMark(Runs(Outset, t, l).read)
  <2>1. FirstMark(D, B, l, C)
    BY <1>2, <1>3, NextMark
  <2>2. QED BY <1>1, <1>4, <2>1, Zenon DEF FirstMark
<1>9. CASE p = npos /\ NoMark(Runs(Outset, B, l).read)
  <2>1. Runs(Outset, B, l).read \in Seq(Lexemes(C))
    BY <1>2, <1>5, RunsType, StateParts
  <2>2. M = 0
    BY <1>6, <1>9, <2>1, NoMarkTimes
  <2>3. QED BY <1>4, <1>7, <1>9, <2>2
<1>10. ASSUME NEW t \in Seq(C), NEW w \in Seq(C),
              B = Around(t, "?", w), p = Len(D) + Len(t) + 1, "?" \in C,
              Runs(Outset, t, l).mode \in Rest, NoMark(Runs(Outset, t, l).read)
       PROVE  p # npos /\ Marks(Says(u, l)) \in Nat /\ Marks(Says(u, l)) > n
              /\ MayPut(u, sql, p, n, g, l, C)
  <2>1. Len(D) \in Nat /\ Len(t) \in Nat
    BY <1>2, LenProperties
  <2>2. p # npos
    BY <1>10, <2>1 DEF npos
  <2>3. M >= 1
    <3>1. Runs(Outset, t, l).mode \in Rests(l)
      BY <1>10 DEF Rest, Rests
    <3>2. M >= Marks(Runs(Outset, t, l).read) + 1
      BY <1>6, <1>10, <3>1, MarkAhead
    <3>3. Marks(Runs(Outset, t, l).read) \in Nat
      BY <1>5, RunsType, StateParts, MarksConcat
    <3>4. QED BY <1>7, <3>2, <3>3
  <2>4. ASSUME NEW v, Puts(v, g[n + 1], l, C)
        PROVE  Halfway(u, Replaced(sql, p, v), p + Len(v), n + 1, g, l, C)
    <3>1. Splits(u, O, B) /\ Splits(sql, D, B)
      BY <1>1 DEF Splits
    <3>2. Along(O, B, D, R, n, g, l, C)
      BY <1>1
    <3>3. QED BY <1>10, <2>4, <3>1, <3>2, HalfwayStep
  <2>5. MayPut(u, sql, p, n, g, l, C)
    BY <2>4 DEF MayPut
  <2>6. QED BY <1>7, <2>2, <2>3, <2>5
<1>11. QED BY <1>4, <1>8, <1>9, <1>10

-----------------------------------------------------------------------------
(* The loops                                                               *)

\* What one placeholder more makes of the outcome.
LEMMA OutcomeStep ==
  ASSUME NEW C, Alphabet(C), NEW l \in {"mysql", "mysql_plain", "postgresql"}, NEW u \in Seq(C),
         NEW n \in Nat, NEW g \in [Nat -> Lexemes(C)], NEW q, Outcome(u, q, n, g, l, C),
         NEW v, Puts(v, g[n + 1], l, C),
         NEW p, p = NextPlaceholder(q.sql, q.search_pos, l),
         NEW r, r = IF q.thrown \/ p = npos THEN Progress(q.sql, q.search_pos, TRUE)
                    ELSE Progress(Replaced(q.sql, p, v), p + Len(v), FALSE)
  PROVE  Outcome(u, r, n + 1, g, l, C)
<1>1. CASE q.thrown
  <2>1. r = Progress(q.sql, q.search_pos, TRUE)
    BY <1>1
  <2>2. r.thrown = TRUE /\ r.sql = q.sql
    BY <2>1 DEF Progress
  <2>3. Marks(Says(u, l)) < n /\ Says(q.sql, l) = FilledWith(Says(u, l), g)
    BY <1>1 DEF Outcome
  <2>4. Marks(Says(u, l)) \in Nat
    BY SaysType, MarksConcat
  <2>5. Marks(Says(u, l)) < n + 1
    BY <2>3, <2>4
  <2>6. QED BY <2>2, <2>3, <2>5 DEF Outcome
<1>2. CASE ~q.thrown
  <2>1. Halfway(u, q.sql, q.search_pos, n, g, l, C)
    BY <1>2 DEF Outcome
  <2>2. \/ p = npos /\ Marks(Says(u, l)) = n /\ Says(q.sql, l) = FilledWith(Says(u, l), g)
        \/ p # npos /\ MayPut(u, q.sql, p, n, g, l, C)
    BY <2>1, Searching
  <2>3. CASE p = npos /\ Marks(Says(u, l)) = n /\ Says(q.sql, l) = FilledWith(Says(u, l), g)
    <3>1. r = Progress(q.sql, q.search_pos, TRUE)
      BY <2>3
    <3>2. r.thrown = TRUE /\ r.sql = q.sql
      BY <3>1 DEF Progress
    <3>3. Marks(Says(u, l)) < n + 1
      BY <2>3
    <3>4. QED BY <2>3, <3>2, <3>3 DEF Outcome
  <2>4. CASE p # npos /\ MayPut(u, q.sql, p, n, g, l, C)
    <3>1. PICK s : s = Replaced(q.sql, p, v)
      OBVIOUS
    <3>2. r = Progress(s, p + Len(v), FALSE)
      BY <1>2, <2>4, <3>1
    <3>3. r.thrown = FALSE /\ r.sql = s /\ r.search_pos = p + Len(v)
      BY <3>2 DEF Progress
    <3>4. Halfway(u, s, p + Len(v), n + 1, g, l, C)
      BY <2>4, <3>1 DEF MayPut
    <3>5. QED BY <3>3, <3>4 DEF Outcome
  <2>5. QED BY <2>2, <2>3, <2>4
<1>3. QED BY <1>1, <1>2

LEMMA OutcomeStart ==
  ASSUME NEW C, Alphabet(C), NEW l, NEW u \in Seq(C), Good(u, l, C),
         NEW g \in [Nat -> Lexemes(C)]
  PROVE  Outcome(u, Progress(u, 1, FALSE), 0, g, l, C)
<1>1. Halfway(u, u, 1, 0, g, l, C)
  BY HalfwayStart
<1>2. PICK q : q = Progress(u, 1, FALSE)
  OBVIOUS
<1>3. q.sql = u /\ q.search_pos = 1 /\ q.thrown = FALSE
  BY <1>2 DEF Progress
<1>4. Outcome(u, q, 0, g, l, C)
  BY <1>1, <1>3 DEF Outcome
<1>5. QED BY <1>2, <1>4

LEMMA FindsIs ==
  ASSUME NEW l \in {"mysql", "mysql_plain"}, NEW sql, NEW at
  PROVE  FindsIn(sql, at, l) = NextPlaceholder(sql, at, l)
<1>1. (IF l = "mysql_plain" THEN "mysql_plain" ELSE "mysql") = l
  OBVIOUS
<1>2. QED BY <1>1, Zenon DEF FindsIn, find_next_placeholder

LEMMA FormatStepIs ==
  ASSUME NEW C, Alphabet(C), NEW l \in {"mysql", "mysql_plain"}, NEW u \in Seq(C),
         NEW n \in Nat, NEW g \in [Nat -> Lexemes(C)], NEW q, Outcome(u, q, n, g, l, C),
         NEW a \in Seq(C), g[n + 1] = Value(a)
  PROVE  Outcome(u, FormatStep(q, a, l), n + 1, g, l, C)
<1>1. PICK v : v = escape_mysql_string(a, l = "mysql_plain")
  OBVIOUS
<1>2. Puts(v, g[n + 1], l, C)
  BY <1>1, PutsMysqlValue
<1>3. PICK p : p = NextPlaceholder(q.sql, q.search_pos, l)
  OBVIOUS
<1>4. PICK r : r = IF q.thrown \/ p = npos THEN Progress(q.sql, q.search_pos, TRUE)
                   ELSE Progress(Replaced(q.sql, p, v), p + Len(v), FALSE)
  OBVIOUS
<1>5. Outcome(u, r, n + 1, g, l, C)
  BY <1>2, <1>3, <1>4, OutcomeStep
<1>6. find_next_placeholder(q.sql, q.search_pos, l = "mysql_plain") = p
  BY <1>3, FindsIs, Zenon DEF FindsIn
<1>7. FormatStep(q, a, l) = r
  BY <1>1, <1>4, <1>6, Zenon DEF FormatStep, replace_next_placeholder
<1>8. QED BY <1>5, <1>7

\* The turns of the loop, one after the other.
LEMMA FormatStepsExist ==
  ASSUME NEW sql, NEW args, NEW l
  PROVE  \A n \in Nat : \E f : FormatSteps(f, sql, args, n, l)
<1> DEFINE A == {n \in Nat : \E f : FormatSteps(f, sql, args, n, l)}
<1>1. 0 \in A
  <2>1. PICK f : f = [k \in 0..0 |-> Progress(sql, 1, FALSE)]
    OBVIOUS
  <2>2. FormatSteps(f, sql, args, 0, l)
    BY <2>1 DEF FormatSteps
  <2>3. QED BY <2>2
<1>2. ASSUME NEW n \in A \cap Nat PROVE n + 1 \in A
  <2>1. PICK f : FormatSteps(f, sql, args, n, l)
    OBVIOUS
  <2>2. PICK g : g = [k \in 0..n + 1 |-> IF k <= n THEN f[k] ELSE FormatStep(f[n], args[n + 1], l)]
    OBVIOUS
  <2>3. ASSUME NEW k \in 0..n + 1
        PROVE  g[k] = IF k = 0 THEN Progress(sql, 1, FALSE) ELSE FormatStep(g[k - 1], args[k], l)
    <3>1. CASE k = 0
      BY <2>1, <2>2, <3>1 DEF FormatSteps
    <3>2. CASE k \in 1..n
      <4>1. k \in 0..n /\ k - 1 \in 0..n + 1 /\ k - 1 <= n /\ k # 0 /\ k <= n
        BY <3>2
      <4>2. f[k] = FormatStep(f[k - 1], args[k], l)
        BY <2>1, <4>1 DEF FormatSteps
      <4>3. g[k] = f[k] /\ g[k - 1] = f[k - 1]
        BY <2>2, <4>1
      <4>4. QED BY <4>1, <4>2, <4>3
    <3>3. CASE k = n + 1
      <4>1. k # 0 /\ k - 1 = n /\ n \in 0..n + 1 /\ ~(k <= n)
        BY <3>3
      <4>2. g[n] = f[n] /\ g[k] = FormatStep(f[n], args[n + 1], l)
        BY <2>2, <4>1
      <4>3. QED BY <3>3, <4>1, <4>2
    <3>4. n \in Nat /\ (k = 0 \/ k \in 1..n \/ k = n + 1)
      OBVIOUS
    <3>5. QED BY <3>1, <3>2, <3>3, <3>4
  <2>4. FormatSteps(g, sql, args, n + 1, l)
    BY <2>2, <2>3 DEF FormatSteps
  <2>5. QED BY <2>4
<1>3. Nat \subseteq A
  <2> HIDE DEF A
  <2>1. QED BY <1>1, <1>2, Induction
<1>4. QED BY <1>3

\* format_query_args(): mysql_async puts the arguments in the place of the marks,
\* each in its own, and throws if and only if there are too few of them or too many.
THEOREM FormatFills ==
  ASSUME NEW C, Alphabet(C), NEW l \in {"mysql", "mysql_plain"}, NEW u \in Seq(C),
         Good(u, l, C), NEW args \in Seq(Seq(C))
  PROVE  LET done == format_query_args(u, l = "mysql_plain", args)
         IN  /\ done.thrown <=> Len(args) # Marks(Says(u, l))
             /\ ~done.thrown => Says(done.sql, l) = Filled(Says(u, l), args)
<1>1. PICK N \in Nat : N = Len(args)
  BY LenProperties
<1>2. PICK g \in [Nat -> Lexemes(C)] : g = Given(args) /\ \A n \in 1..N : g[n] = Value(args[n])
  BY <1>1, GivenIs
<1> DEFINE after[n \in 0..Len(args)] ==
             IF n = 0 THEN Progress(u, 1, FALSE) ELSE FormatStep(after[n - 1], args[n], l)
<1>3. after = [n \in 0..Len(args) |->
                 IF n = 0 THEN Progress(u, 1, FALSE) ELSE FormatStep(after[n - 1], args[n], l)]
  <2>1. \E f : FormatSteps(f, u, args, Len(args), l)
    BY <1>1, FormatStepsExist
  <2>2. QED BY <2>1, Zenon DEF FormatSteps
<1> DEFINE all == after[Len(args)]
           left == FindsIn(all.sql, all.search_pos, l)
           done == IF all.thrown \/ left = npos THEN all
                   ELSE Progress(all.sql, all.search_pos, TRUE)
<1>4. format_query_args(u, l = "mysql_plain", args) = done
  BY Zenon DEF format_query_args, FormatStep, FindsIn
<1> HIDE DEF after
<1> DEFINE A == {n \in Nat : n <= N => Outcome(u, after[n], n, g, l, C)}
<1>5. 0 \in A
  <2>1. after[0] = Progress(u, 1, FALSE)
    BY <1>1, <1>3
  <2>2. Outcome(u, Progress(u, 1, FALSE), 0, g, l, C)
    BY OutcomeStart
  <2>3. Outcome(u, after[0], 0, g, l, C)
    BY <2>1, <2>2
  <2>4. QED BY <2>3
<1>6. ASSUME NEW n \in A \cap Nat PROVE n + 1 \in A
  <2>1. SUFFICES ASSUME n + 1 <= N PROVE Outcome(u, after[n + 1], n + 1, g, l, C)
    OBVIOUS
  <2>2. PICK m \in Nat : m = n + 1 /\ m \in 0..N /\ m # 0 /\ m - 1 = n /\ m \in 1..N /\ n <= N
    BY <2>1
  <2>3. Outcome(u, after[n], n, g, l, C)
    BY <2>2
  <2>4. after[m] = FormatStep(after[n], args[m], l)
    BY <1>1, <1>3, <2>2
  <2>5. args[m] \in Seq(C) /\ g[n + 1] = Value(args[m])
    BY <1>1, <1>2, <2>2, ElementOfSeq
  <2>6. Outcome(u, FormatStep(after[n], args[m], l), n + 1, g, l, C)
    BY <2>3, <2>5, FormatStepIs
  <2>7. QED BY <2>2, <2>4, <2>6
<1>7. Outcome(u, all, N, g, l, C)
  <2>1. Nat \subseteq A
    <3> HIDE DEF A
    <3>1. QED BY <1>5, <1>6, Induction
  <2>2. QED BY <1>1, <2>1
<1>8. left = NextPlaceholder(all.sql, all.search_pos, l)
  BY FindsIs
<1> HIDE DEF A
<1>9. PICK q, p, d : q = all /\ p = left /\ d = done
  OBVIOUS
<1>10. PICK L \in Seq(Lexemes(C)) : L = Says(u, l)
  BY SaysType
<1>11. Marks(L) \in Nat
  BY MarksConcat
<1>12. Marks(L) = N => FilledWith(L, g) = Filled(L, args)
  BY <1>1, <1>2, FilledIs
<1>13. CASE q.thrown
  <2>1. d = q
    BY <1>9, <1>13
  <2>2. Marks(L) < N /\ Says(q.sql, l) = FilledWith(L, g)
    BY <1>7, <1>9, <1>10, <1>13 DEF Outcome
  <2>3. d.thrown /\ Marks(L) # N
    BY <1>11, <1>13, <2>1, <2>2
  <2>4. QED BY <1>1, <1>4, <1>9, <1>10, <2>3
<1>14. CASE ~q.thrown
  <2>1. Halfway(u, q.sql, q.search_pos, N, g, l, C)
    BY <1>7, <1>9, <1>14 DEF Outcome
  <2>2. \/ p = npos /\ Marks(L) = N /\ Says(q.sql, l) = FilledWith(L, g)
        \/ p # npos /\ Marks(L) > N
    BY <1>8, <1>9, <1>10, <2>1, Searching
  <2>3. CASE p = npos /\ Marks(L) = N /\ Says(q.sql, l) = FilledWith(L, g)
    <3>1. d = q
      BY <1>9, <2>3
    <3>2. ~d.thrown /\ Marks(L) = N /\ Says(d.sql, l) = Filled(L, args)
      BY <1>12, <1>14, <2>3, <3>1
    <3>3. QED BY <1>1, <1>4, <1>9, <1>10, <3>2
  <2>4. CASE p # npos /\ Marks(L) > N
    <3>1. d = Progress(q.sql, q.search_pos, TRUE)
      BY <1>9, <1>14, <2>4
    <3>2. d.thrown = TRUE
      BY <3>1 DEF Progress
    <3>3. Marks(L) # N
      BY <1>11, <2>4
    <3>4. QED BY <1>1, <1>4, <1>9, <1>10, <3>2, <3>3
  <2>5. QED BY <2>2, <2>3, <2>4
<1>15. QED BY <1>13, <1>14

LEMMA NumberStepsExist ==
  ASSUME NEW sql
  PROVE  \A n \in Nat : \E f : NumberSteps(f, sql, n)
<1> DEFINE A == {n \in Nat : \E f : NumberSteps(f, sql, n)}
<1>1. 0 \in A
  <2>1. PICK f : f = [k \in 0..0 |-> Progress(sql, 1, FALSE)]
    OBVIOUS
  <2>2. NumberSteps(f, sql, 0)
    BY <2>1 DEF NumberSteps
  <2>3. QED BY <2>2
<1>2. ASSUME NEW n \in A \cap Nat PROVE n + 1 \in A
  <2>1. PICK f : NumberSteps(f, sql, n)
    OBVIOUS
  <2>2. PICK g : g = [k \in 0..n + 1 |-> IF k <= n THEN f[k] ELSE NumberStep(f[n], n + 1)]
    OBVIOUS
  <2>3. ASSUME NEW k \in 0..n + 1
        PROVE  g[k] = IF k = 0 THEN Progress(sql, 1, FALSE) ELSE NumberStep(g[k - 1], k)
    <3>1. CASE k = 0
      BY <2>1, <2>2, <3>1 DEF NumberSteps
    <3>2. CASE k \in 1..n
      <4>1. k \in 0..n /\ k - 1 \in 0..n + 1 /\ k - 1 <= n /\ k # 0 /\ k <= n
        BY <3>2
      <4>2. f[k] = NumberStep(f[k - 1], k)
        BY <2>1, <4>1 DEF NumberSteps
      <4>3. g[k] = f[k] /\ g[k - 1] = f[k - 1]
        BY <2>2, <4>1
      <4>4. QED BY <4>1, <4>2, <4>3
    <3>3. CASE k = n + 1
      <4>1. k # 0 /\ k - 1 = n /\ n \in 0..n + 1 /\ ~(k <= n)
        BY <3>3
      <4>2. g[n] = f[n] /\ g[k] = NumberStep(f[n], n + 1)
        BY <2>2, <4>1
      <4>3. QED BY <3>3, <4>1, <4>2
    <3>4. n \in Nat /\ (k = 0 \/ k \in 1..n \/ k = n + 1)
      OBVIOUS
    <3>5. QED BY <3>1, <3>2, <3>3, <3>4
  <2>4. NumberSteps(g, sql, n + 1)
    BY <2>2, <2>3 DEF NumberSteps
  <2>5. QED BY <2>4
<1>3. Nat \subseteq A
  <2> HIDE DEF A
  <2>1. QED BY <1>1, <1>2, Induction
<1>4. QED BY <1>3

LEMMA NumbersIs ==
  ASSUME NEW C, Numbered(C)
  PROVE  Numbers \in [Nat -> Lexemes(C)] /\ \A n \in Nat : Numbers[n] = Word(Parameter(n))
<1>1. ASSUME NEW n \in Nat PROVE Word(Parameter(n)) \in Lexemes(C)
  BY WordIs DEF Numbered
<1>2. QED BY <1>1 DEF Numbers

LEMMA NumberStepIs ==
  ASSUME NEW C, Alphabet(C), Numbered(C), NEW u \in Seq(C), NEW n \in Nat,
         NEW q, Outcome(u, q, n, Numbers, "postgresql", C)
  PROVE  Outcome(u, NumberStep(q, n + 1), n + 1, Numbers, "postgresql", C)
<1>1. PICK g \in [Nat -> Lexemes(C)] : g = Numbers
  BY NumbersIs
<1>2. PICK v \in Seq(C) : v = <<Parameter(n + 1)>> /\ Len(v) = 1
  <2>1. Parameter(n + 1) \in C
    BY DEF Numbered
  <2>2. QED BY <2>1, OneIsSeq
<1>3. Puts(v, g[n + 1], "postgresql", C)
  <2>1. PICK c \in C : c = Parameter(n + 1) /\ c \notin Special
    BY DEF Numbered
  <2>2. Puts(<<c>>, Word(c), "postgresql", C)
    BY <2>1, PutsWord
  <2>3. g[n + 1] = Word(c)
    BY <1>1, <2>1, NumbersIs
  <2>4. QED BY <1>2, <2>1, <2>2, <2>3
<1>4. PICK p : p = NextPlaceholder(q.sql, q.search_pos, "postgresql")
  OBVIOUS
<1>5. PICK r : r = IF q.thrown \/ p = npos THEN Progress(q.sql, q.search_pos, TRUE)
                   ELSE Progress(Replaced(q.sql, p, v), p + Len(v), FALSE)
  OBVIOUS
<1>6. Outcome(u, r, n + 1, g, "postgresql", C)
  BY <1>1, <1>3, <1>4, <1>5, OutcomeStep
<1>7. find_next_postgresql_placeholder(q.sql, q.search_pos) = p
  BY <1>4, Zenon DEF find_next_postgresql_placeholder
<1>8. NumberStep(q, n + 1) = r
  <2>1. p + Len(v) = p + 1
    BY <1>2
  <2>2. QED BY <1>2, <1>5, <1>7, <2>1, Zenon DEF NumberStep
<1>9. QED BY <1>1, <1>6, <1>8

\* replace_postgresql_placeholders(): each mark becomes the parameter of its number.
THEOREM PostgresFills ==
  ASSUME NEW C, Alphabet(C), Numbered(C), NEW u \in Seq(C), Good(u, "postgresql", C)
  PROVE  Says(replace_postgresql_placeholders(u), "postgresql")
           = FilledWith(Says(u, "postgresql"), Numbers)
<1>1. PICK N \in Nat : N = Len(u)
  BY LenProperties
<1>2. PICK g \in [Nat -> Lexemes(C)] : g = Numbers
  BY NumbersIs
<1> DEFINE after[n \in 0..Len(u)] ==
             IF n = 0 THEN Progress(u, 1, FALSE) ELSE NumberStep(after[n - 1], n)
<1>3. after = [n \in 0..Len(u) |->
                 IF n = 0 THEN Progress(u, 1, FALSE) ELSE NumberStep(after[n - 1], n)]
  <2>1. \E f : NumberSteps(f, u, Len(u))
    BY <1>1, NumberStepsExist
  <2>2. QED BY <2>1, Zenon DEF NumberSteps
<1>4. replace_postgresql_placeholders(u) = after[Len(u)].sql
  BY Zenon DEF replace_postgresql_placeholders, NumberStep
<1> HIDE DEF after
<1> DEFINE A == {n \in Nat : n <= N => Outcome(u, after[n], n, g, "postgresql", C)}
<1>5. 0 \in A
  <2>1. after[0] = Progress(u, 1, FALSE)
    BY <1>1, <1>3
  <2>2. Outcome(u, Progress(u, 1, FALSE), 0, g, "postgresql", C)
    BY OutcomeStart
  <2>3. QED BY <2>1, <2>2
<1>6. ASSUME NEW n \in A \cap Nat PROVE n + 1 \in A
  <2>1. SUFFICES ASSUME n + 1 <= N PROVE Outcome(u, after[n + 1], n + 1, g, "postgresql", C)
    OBVIOUS
  <2>2. PICK m \in Nat : m = n + 1 /\ m \in 0..N /\ m # 0 /\ m - 1 = n /\ n <= N
    BY <2>1
  <2>3. Outcome(u, after[n], n, g, "postgresql", C)
    BY <2>2
  <2>4. after[m] = NumberStep(after[n], m)
    BY <1>1, <1>3, <2>2
  <2>5. Outcome(u, NumberStep(after[n], n + 1), n + 1, g, "postgresql", C)
    BY <1>2, <2>3, NumberStepIs
  <2>6. QED BY <2>2, <2>4, <2>5
<1>7. Outcome(u, after[N], N, g, "postgresql", C)
  <2>1. Nat \subseteq A
    <3> HIDE DEF A
    <3>1. QED BY <1>5, <1>6, Induction
  <2>2. QED BY <2>1
<1> HIDE DEF A
<1>8. PICK q : q = after[N]
  OBVIOUS
<1>9. CASE q.thrown
  BY <1>1, <1>2, <1>4, <1>7, <1>8, <1>9 DEF Outcome
<1>10. CASE ~q.thrown
  <2>1. Halfway(u, q.sql, q.search_pos, N, g, "postgresql", C)
    BY <1>7, <1>8, <1>10 DEF Outcome
  <2>2. PICK O, B, D, R : Along(O, B, D, R, N, g, "postgresql", C) /\ u = O \o B /\ q.sql = D \o B
    BY <2>1 DEF Halfway
  <2>3. O \in Seq(C) /\ B \in Seq(C) /\ N <= Len(O)
    BY <2>2 DEF Along
  <2>4. B = <<>>
    <3>1. Len(u) = Len(O) + Len(B)
      BY <2>2, <2>3, ConcatProperties
    <3>2. Len(O) \in Nat /\ Len(B) \in Nat
      BY <2>3, LenProperties
    <3>3. Len(B) = 0
      BY <1>1, <2>3, <3>1, <3>2
    <3>4. QED BY <2>3, <3>3, EmptySeq
  <2>5. Marks(Runs(Outset, B, "postgresql").read) = 0
    <3>1. Runs(Outset, <<>>, "postgresql").read = <<>>
      BY RunsEmpty, OutsetIs
    <3>2. Marks(<<>>) = 0
      BY MarksAreTimes, TimesEmpty
    <3>3. QED BY <2>4, <3>1, <3>2
  <2>6. Says(D \o B, "postgresql") = FilledWith(Says(O \o B, "postgresql"), g)
    BY <2>2, <2>5, LoopEnd
  <2>7. QED BY <1>1, <1>2, <1>4, <1>8, <2>2, <2>6
<1>11. QED BY <1>9, <1>10

-----------------------------------------------------------------------------
(* Texts of the builders                                                   *)

LEMMA SpecialIs ==
  ASSUME NEW C, Special \subseteq C
  PROVE  Alphabet(C) /\ "?" \in C /\ " " \in C /\ "'" \in C
  BY DEF Special, Alphabet

LEMMA ExtendsIs ==
  ASSUME NEW C, NEW s \in Seq(C), NEW c \in C, NEW p, Extends(p, s, c)
  PROVE  Len(p) = Len(s) + 1 /\ (\A i \in 1..Len(s) : p[i] = s[i]) /\ p[Len(s) + 1] = c
  BY AppendProperties DEF Extends

LEMMA LastSame ==
  ASSUME NEW C, NEW s \in Seq(C), NEW t \in Seq(C), NEW c \in C, NEW d \in C,
         NEW p, Extends(p, s, c), Extends(p, t, d)
  PROVE  s = t /\ c = d
<1>1. Len(p) = Len(s) + 1 /\ (\A i \in 1..Len(s) : p[i] = s[i]) /\ p[Len(s) + 1] = c
  BY ExtendsIs
<1>2. Len(p) = Len(t) + 1 /\ (\A i \in 1..Len(t) : p[i] = t[i]) /\ p[Len(t) + 1] = d
  BY ExtendsIs
<1>3. Len(s) = Len(t)
  BY <1>1, <1>2, LenProperties
<1>4. s = t
  BY <1>1, <1>2, <1>3, SeqEqual
<1>5. QED BY <1>1, <1>2, <1>3, <1>4

LEMMA TwoAppended ==
  ASSUME NEW C, NEW y \in Seq(C), NEW x \in C
  PROVE  y \o <<x, x>> = Append(Append(y, x), x)
<1>1. <<x, x>> = Append(<<x>>, x) /\ <<x>> \in Seq(C)
  OBVIOUS
<1>2. y \o Append(<<x>>, x) = Append(y \o <<x>>, x)
  BY <1>1, ConcatAppend
<1>3. y \o <<x>> = Append(y, x)
  BY AppendIsConcat
<1>4. QED BY <1>1, <1>2, <1>3

LEMMA ReadyEmpty ==
  ASSUME NEW C, Special \subseteq C, NEW l
  PROVE  Ready(<<>>, l, C)
<1>1. Good(<<>>, l, C)
  BY GoodEmpty
<1>2. ASSUME NEW t \in Seq(C), <<>> = Append(t, "?") PROVE FALSE
  <2>1. "?" \in C
    BY SpecialIs
  <2>2. PICK u : u = Append(t, "?")
    OBVIOUS
  <2>3. u # <<>>
    BY <2>1, <2>2, AppendProperties
  <2>4. QED BY <1>2, <2>2, <2>3
<1>3. QED BY <1>1, <1>2 DEF Ready, EndsUnmarked

\* One character more, which may be a mark only where none may stand.
LEMMA ReadyStep ==
  ASSUME NEW C, Special \subseteq C, NEW l, NEW T, Ready(T, l, C), NEW d \in C,
         NEW m, m = Runs(Outset, T, l).mode, m # "two_dashes", d = "?" => m \notin Rests(l)
  PROVE  Ready(Append(T, d), l, C)
<1>1. Alphabet(C) /\ "?" \in C /\ T \in Seq(C) /\ Good(T, l, C) /\ EndsUnmarked(T, l, C)
  BY SpecialIs DEF Ready
<1>2. Apart(m, d, <<>>, l)
  BY DEF Apart
<1>3. Good(Append(T, d), l, C)
  BY <1>1, <1>2, GoodStep DEF EndsUnmarked
<1>4. ASSUME NEW t \in Seq(C), Append(T, d) = Append(t, "?")
      PROVE  Runs(Outset, t, l).mode \notin Rests(l)
  <2>1. T = t /\ d = "?"
    <3>1. PICK p : p = Append(T, d)
      OBVIOUS
    <3>2. Extends(p, T, d) /\ Extends(p, t, "?")
      BY <1>4, <3>1 DEF Extends
    <3>3. QED BY <1>1, <3>2, LastSame
  <2>2. QED BY <2>1
<1>5. Append(T, d) \in Seq(C)
  BY <1>1, AppendProperties
<1>6. QED BY <1>3, <1>4, <1>5 DEF Ready, EndsUnmarked

\* A mark, and the blanks the builders write behind it.
LEMMA ReadyMark ==
  ASSUME NEW C, Special \subseteq C, NEW l, NEW T, Ready(T, l, C),
         Runs(Outset, T, l).mode = "plain"
  PROVE  /\ Ready(Append(Append(Append(T, "?"), " "), " "), l, C)
         /\ Runs(Outset, Append(Append(Append(T, "?"), " "), " "), l)
              = Reading("plain", Append(Settled(Runs(Outset, T, l)), Mark), <<>>)
<1>1. Alphabet(C) /\ "?" \in C /\ " " \in C /\ T \in Seq(C) /\ Good(T, l, C) /\ EndsUnmarked(T, l, C)
  BY SpecialIs DEF Ready
<1>2. PICK o \in States(C) : o = Outset
  BY OutsetIs
<1>3. PICK s \in States(C) : s = Runs(Outset, T, l)
  BY <1>1, <1>2, RunsType
<1>4. PICK r \in Seq(Lexemes(C)) : r = Append(Settled(s), Mark)
  BY <1>1, SettledIs, MarkIs, AppendProperties
<1>5. PICK x \in States(C) : x = Reading("plain", r, <<>>)
  <2>1. "plain" \in Modes /\ <<>> \in Seq(C)
    BY DEF Modes
  <2>2. QED BY <2>1, StateIs
<1>6. x.mode = "plain" /\ Settled(x) = r /\ x.mode \in Rest
  BY <1>5, ReadingIs, SettledPlain DEF Rest
<1>7. PICK U \in Seq(C) : U = Append(T, "?")
  BY <1>1, AppendProperties
<1>8. PICK V \in Seq(C) : V = Append(U, " ")
  BY <1>1, AppendProperties
<1>9. Runs(o, U, l) = x
  <2>1. Runs(o, U, l) = Reads(s, "?", l)
    BY <1>1, <1>2, <1>3, <1>7, RunsAppend
  <2>2. s.mode \in Rest
    BY <1>3 DEF Rest
  <2>3. Reads(s, "?", l) = Reading("plain", r, <<>>)
    BY <1>1, <1>4, <2>2, ReadsMark
  <2>4. QED BY <1>5, <2>1, <2>3
<1>10. Reads(x, " ", l) = x
  <2>1. " " \in Blank
    BY DEF Blank
  <2>2. Reads(x, " ", l) = Reading("plain", Settled(x), <<>>)
    BY <1>1, <1>6, <2>1, ReadsBlank
  <2>3. QED BY <1>5, <1>6, <2>2
<1>11. Runs(o, V, l) = x
  BY <1>1, <1>8, <1>9, <1>10, RunsAppend
<1>12. Runs(o, Append(V, " "), l) = x
  BY <1>1, <1>11, <1>10, RunsAppend
<1>13. Good(U, l, C)
  <2>1. Apart("plain", "?", <<>>, l)
    BY DEF Apart, Touches
  <2>2. QED BY <1>1, <1>7, <2>1, GoodStep DEF EndsUnmarked
<1>14. Good(V, l, C)
  <2>1. Apart("plain", " ", <<>>, l)
    BY DEF Apart
  <2>2. Runs(Outset, U, l).mode = "plain"
    BY <1>2, <1>6, <1>9
  <2>3. QED BY <1>1, <1>8, <1>13, <2>1, <2>2, GoodStep
<1>15. Ready(V, l, C)
  <2>1. ASSUME NEW t \in Seq(C), V = Append(t, "?") PROVE FALSE
    <3>1. " " = "?"
      <4>1. Extends(V, U, " ") /\ Extends(V, t, "?")
        BY <1>8, <2>1 DEF Extends
      <4>2. QED BY <1>1, <4>1, LastSame
    <3>2. QED BY <3>1
  <2>2. QED BY <1>14, <2>1 DEF Ready, EndsUnmarked
<1>16. Ready(Append(V, " "), l, C)
  <2>1. Runs(Outset, V, l).mode = "plain"
    BY <1>2, <1>6, <1>11
  <2>2. QED BY <1>1, <1>15, <2>1, ReadyStep
<1>17. QED BY <1>2, <1>3, <1>4, <1>5, <1>7, <1>8, <1>12, <1>16

LEMMA NotAtRest ==
  ASSUME NEW l
  PROVE  "value" \notin Rests(l)
  BY DEF Rests, QuoteEnds

LEMMA GrowsIs ==
  ASSUME NEW C, NEW D, NEW f \in [D -> Seq(C)], NEW S \in Seq(C), NEW v \in Seq(D), NEW x \in D
  PROVE  Grows(S, f, v, x)
<1>1. PICK w \in Seq(C) : w = Spelt(f, v)
  BY SpeltType
<1>2. PICK p \in Seq(C) : p = f[x]
  OBVIOUS
<1>3. Spelt(f, Append(v, x)) = w \o p
  BY <1>1, <1>2, SpeltAppend
<1>4. (S \o w) \o p = S \o (w \o p)
  BY ConcatAssociative
<1>5. QED BY <1>1, <1>2, <1>3, <1>4 DEF Grows

LEMMA ReadyInside ==
  ASSUME NEW C, Special \subseteq C, NEW D \in SUBSET C, NEW l, l # "mysql" \/ Backslash \notin D,
         NEW S, Ready(S, l, C), NEW r \in Seq(Lexemes(C)),
         Runs(Outset, S, l) = Reading("value", r, <<>>)
  PROVE  \A v \in Seq(D) :
           Ready(S \o Spelt(SqlSpelling(D), v), l, C)
           /\ Runs(Outset, S \o Spelt(SqlSpelling(D), v), l) = Reading("value", r, v)
<1> DEFINE f == SqlSpelling(D)
           A == Inside(S, f, D, l, C)
<1>1. Alphabet(C) /\ S \in Seq(C) /\ "'" \in C
  BY SpecialIs DEF Ready
<1>2. PICK o \in States(C) : o = Outset
  BY OutsetIs
<1>3. Spells(f, D, C, l)
  BY <1>1, SqlSpells
<1>4. f \in [D -> Seq(C)]
  BY <1>3 DEF Spells
<1> HIDE DEF f
<1>5. ASSUME NEW v \in Seq(D)
      PROVE  Spelt(f, v) \in Seq(C) /\ Runs(o, S \o Spelt(f, v), l) = Reading("value", r, v)
  <2>1. PICK w \in Seq(C) : w = Spelt(f, v)
    BY <1>4, SpeltType
  <2>2. Runs(o, S \o w, l) = Runs(Runs(o, S, l), w, l)
    BY <1>1, RunsConcat
  <2>3. Runs(Reading("value", r, <<>>), w, l) = Reading("value", r, v)
    BY <1>1, <1>3, <2>1, SpeltReads
  <2>4. QED BY <1>2, <2>1, <2>2, <2>3
<1>6. <<>> \in A
  <2>1. Spelt(f, <<>>) = <<>>
    BY SpeltEmpty
  <2>2. S \o <<>> = S
    BY <1>1, ConcatEmptySeq
  <2>3. S \o Spelt(f, <<>>) = S
    BY <2>1, <2>2
  <2>4. Ready(S \o Spelt(f, <<>>), l, C)
    BY <2>3
  <2>5. <<>> \in Seq(D)
    OBVIOUS
  <2>6. QED BY <2>4, <2>5 DEF Inside
<1>7. ASSUME NEW v \in A \cap Seq(D), NEW x \in D PROVE Append(v, x) \in A
  <2>1. PICK w \in Seq(C) : w = Spelt(f, v)
    BY <1>5
  <2>2. PICK y \in Seq(C) : y = S \o w
    BY <1>1, ConcatProperties
  <2>3. Ready(y, l, C) /\ Runs(o, y, l) = Reading("value", r, v)
    BY <1>5, <1>7, <2>1, <2>2 DEF Inside
  <2>4. PICK p \in Seq(C) : p = f[x]
    BY <1>4
  <2>5. Grows(S, f, v, x)
    BY <1>1, <1>4, GrowsIs
  <2>6. S \o Spelt(f, Append(v, x)) = y \o p
    BY <2>1, <2>2, <2>4, <2>5, Zenon DEF Grows
  <2>7. PICK z \in Seq(C) : z = Append(y, x)
    BY AppendProperties
  <2>8. Runs(Outset, y, l).mode = "value"
    BY <1>2, <2>3, ReadingIs
  <2>9. Ready(z, l, C)
    <3>1. "value" # "two_dashes" /\ "value" \notin Rests(l) /\ x \in C
      BY NotAtRest
    <3>2. QED BY <2>3, <2>7, <2>8, <3>1, ReadyStep
  <2>10. Append(v, x) \in Seq(D)
    BY AppendProperties
  <2>11. CASE x # "'"
    <3>1. p = <<x>>
      BY <2>4, <2>11 DEF f, SqlSpelling
    <3>2. y \o <<x>> = Append(y, x)
      BY AppendIsConcat
    <3>3. QED BY <2>6, <2>7, <2>9, <2>10, <3>1, <3>2 DEF Inside
  <2>12. CASE x = "'"
    <3>1. p = <<x, x>>
      BY <2>4, <2>12 DEF f, SqlSpelling
    <3>2. y \o <<x, x>> = Append(z, x)
      <4>1. x \in C
        OBVIOUS
      <4>2. QED BY <2>7, <4>1, TwoAppended
    <3>3. Runs(o, z, l) = Reads(Reading("value", r, v), x, l)
      BY <1>1, <2>3, <2>7, RunsAppend
    <3>4. Runs(o, z, l).mode = "value_end"
      BY <2>12, <3>3, ReadsInValue, ReadingIs
    <3>5. Ready(Append(z, x), l, C)
      <4>1. "value_end" # "two_dashes" /\ x # "?" /\ x \in C
        BY <2>12
      <4>2. QED BY <1>2, <2>9, <3>4, <4>1, ReadyStep
    <3>6. QED BY <2>6, <2>10, <3>1, <3>2, <3>5 DEF Inside
  <2>13. QED BY <2>11, <2>12
<1>8. Seq(D) \subseteq A
  <2> HIDE DEF A
  <2>1. QED BY <1>6, <1>7, AppendInduction
<1>9. QED BY <1>2, <1>5, <1>8 DEF f, Inside

LEMMA AssociatesIs ==
  ASSUME NEW C, NEW s \in Seq(C), NEW t \in Seq(C), NEW u \in Seq(C)
  PROVE  Associates(s, t, u)
  BY ConcatAssociative DEF Associates

LEMMA OneAppended ==
  ASSUME NEW C, NEW y \in Seq(C), NEW t \in Seq(C), NEW x \in C
  PROVE  Extends(y \o Append(t, x), y \o t, x)
  BY ConcatAppend DEF Extends

LEMMA ThreeIs ==
  ASSUME NEW X, NEW x \in X, NEW y \in X, NEW z \in X
  PROVE  Append(Append(<<x>>, y), z) = <<x, y, z>>
<1>1. <<x>> \in Seq(X) /\ Len(<<x>>) = 1 /\ <<x>>[1] = x
  OBVIOUS
<1>2. <<x, y, z>> \in Seq(X) /\ Len(<<x, y, z>>) = 3
  OBVIOUS
<1>3. PICK b \in Seq(X) : b = <<x, y, z>>
  BY <1>2
<1>4. Len(b) = 3 /\ b[1] = x /\ b[2] = y /\ b[3] = z
  BY <1>3
<1>5. PICK a \in Seq(X) : a = Append(<<x>>, y)
  BY <1>1, AppendProperties
<1>6. Len(a) = 2 /\ a[1] = x /\ a[2] = y
  BY <1>1, <1>5, AppendProperties
<1>7. PICK c \in Seq(X) : c = Append(a, z)
  BY AppendProperties
<1>8. Len(c) = 3 /\ (\A i \in 1..2 : c[i] = a[i]) /\ c[3] = z
  <2>1. Extends(c, a, z)
    BY <1>7 DEF Extends
  <2>2. Len(c) = Len(a) + 1 /\ (\A i \in 1..Len(a) : c[i] = a[i]) /\ c[Len(a) + 1] = z
    BY <2>1, ExtendsIs
  <2>3. QED BY <1>6, <2>2
<1>9. \A i \in 1..3 : c[i] = b[i]
  BY <1>4, <1>6, <1>8
<1>10. c = b
  BY <1>4, <1>8, <1>9, SeqEqual
<1>11. QED BY <1>3, <1>5, <1>7, <1>10

LEMMA MarkAppended ==
  ASSUME NEW C, NEW y \in Seq(C), "?" \in C, " " \in C
  PROVE  y \o MarkText = Append(Append(Append(y, "?"), " "), " ")
<1>1. PICK a \in Seq(C) : a = <<"?">>
  BY OneIsSeq
<1>2. PICK b \in Seq(C) : b = Append(a, " ")
  BY AppendProperties
<1>3. Append(b, " ") = MarkText
  BY <1>1, <1>2, ThreeIs DEF MarkText
<1>4. Extends(y \o Append(b, " "), y \o b, " ")
  BY OneAppended
<1>5. Extends(y \o Append(a, " "), y \o a, " ")
  BY OneAppended
<1>6. y \o a = Append(y, "?")
  BY <1>1, AppendIsConcat
<1>7. QED BY <1>2, <1>3, <1>4, <1>5, <1>6, Zenon DEF Extends

\* A word is put behind a text.
LEMMA JoinsWord ==
  ASSUME NEW C, Special \subseteq C, NEW l, NEW T, Ready(T, l, C),
         Runs(Outset, T, l).mode \in {"plain", "value_end"}, NEW c \in C \ Special
  PROVE  Grown(T, <<c>>, Word(c), l, C)
<1>1. Alphabet(C) /\ T \in Seq(C) /\ c \in C
  BY SpecialIs DEF Ready
<1>2. PICK o \in States(C) : o = Outset
  BY OutsetIs
<1>3. PICK s \in States(C) : s = Runs(Outset, T, l)
  BY <1>1, <1>2, RunsType
<1>4. PICK r \in Seq(Lexemes(C)) : r = Append(Settled(s), Word(c))
  BY <1>1, SettledIs, WordIs, AppendProperties
<1>5. PICK U \in Seq(C) : U = Append(T, c)
  BY <1>1, AppendProperties
<1>6. T \o <<c>> = U
  BY <1>1, <1>5, AppendIsConcat
<1>7. Runs(o, U, l) = Reading("plain", r, <<>>)
  <2>1. Runs(o, U, l) = Reads(s, c, l)
    BY <1>1, <1>2, <1>3, <1>5, RunsAppend
  <2>2. s.mode \in Rest /\ c \notin Special
    BY <1>3 DEF Rest, QuoteEnds
  <2>3. Reads(s, c, l) = Reading("plain", r, <<>>)
    BY <1>1, <1>4, <2>2, ReadsWord
  <2>4. QED BY <2>1, <2>3
<1>8. Ready(U, l, C)
  <2>1. s.mode # "two_dashes" /\ c # "?"
    BY <1>3 DEF Special
  <2>2. QED BY <1>1, <1>3, <1>5, <2>1, ReadyStep
<1>9. Runs(Outset, U, l).mode = "plain" /\ Settled(Runs(Outset, U, l)) = r
  BY <1>2, <1>7, ReadingIs, SettledPlain
<1>10. Word(c).kind # "value"
  BY <1>1, WordIs
<1>11. QED BY <1>3, <1>4, <1>6, <1>8, <1>9, <1>10 DEF Grown

\* A mark, with its blanks.
LEMMA JoinsMark ==
  ASSUME NEW C, Special \subseteq C, NEW l, NEW T, Ready(T, l, C),
         Runs(Outset, T, l).mode = "plain"
  PROVE  Grown(T, MarkText, Mark, l, C)
<1>1. Alphabet(C) /\ "?" \in C /\ " " \in C /\ T \in Seq(C)
  BY SpecialIs DEF Ready
<1>2. PICK o \in States(C) : o = Outset
  BY OutsetIs
<1>3. PICK s \in States(C) : s = Runs(Outset, T, l)
  BY <1>1, <1>2, RunsType
<1>4. PICK r \in Seq(Lexemes(C)) : r = Append(Settled(s), Mark)
  BY <1>1, SettledIs, MarkIs, AppendProperties
<1>5. PICK U : U = Append(Append(Append(T, "?"), " "), " ")
  OBVIOUS
<1>6. Ready(U, l, C) /\ Runs(Outset, U, l) = Reading("plain", r, <<>>)
  BY <1>3, <1>4, <1>5, ReadyMark
<1>7. T \o MarkText = U
  BY <1>1, <1>5, MarkAppended
<1>8. Runs(Outset, U, l).mode = "plain" /\ Settled(Runs(Outset, U, l)) = r
  BY <1>6, ReadingIs, SettledPlain
<1>9. Mark.kind # "value"
  BY MarkIs
<1>10. QED BY <1>3, <1>4, <1>6, <1>7, <1>8, <1>9 DEF Grown

LEMMA WrapsIs ==
  ASSUME NEW C, NEW T \in Seq(C), NEW q \in Seq(C), NEW w \in Seq(C),
         NEW S, S = T \o q, NEW y, y = S \o w, NEW z, z = y \o q
  PROVE  Wraps(T, q, w, S, y, z)
<1>1. PICK p \in Seq(C) : p = q \o w
  BY ConcatProperties
<1>2. Associates(T, p, q)
  BY <1>1, AssociatesIs
<1>3. Associates(T, q, w)
  BY AssociatesIs
<1>4. QED BY <1>1, <1>2, <1>3, Zenon DEF Wraps, Associates

\* What was written of a value so far is read as that much of the value.
LEMMA InsideReads ==
  ASSUME NEW C, Special \subseteq C, NEW l, NEW D, NEW S, NEW r, NEW v, Opened(S, r, v, D, l, C),
         NEW y, Splits(y, S, Spelt(SqlSpelling(D), v))
  PROVE  Ready(y, l, C) /\ Runs(Outset, y, l) = Reading("value", r, v)
<1>1. /\ D \in SUBSET C /\ (l # "mysql" \/ Backslash \notin D) /\ v \in Seq(D)
      /\ Ready(S, l, C) /\ r \in Seq(Lexemes(C))
      /\ Runs(Outset, S, l) = Reading("value", r, <<>>)
  BY DEF Opened
<1>2. \A x \in Seq(D) :
         Ready(S \o Spelt(SqlSpelling(D), x), l, C)
         /\ Runs(Outset, S \o Spelt(SqlSpelling(D), x), l) = Reading("value", r, x)
  BY <1>1, ReadyInside
<1>3. QED BY <1>1, <1>2 DEF Splits

\* A value, escaped and between quotes.
LEMMA JoinsValue ==
  ASSUME NEW C, Special \subseteq C, NEW l, NEW T, Ready(T, l, C),
         Runs(Outset, T, l).mode = "plain", NEW v \in Seq(Legible(C, l))
  PROVE  Grown(T, escape_sql_string(v), Value(v), l, C)
<1>1. Alphabet(C) /\ "'" \in C /\ T \in Seq(C)
  BY SpecialIs DEF Ready
<1>2. PICK D \in SUBSET C : D = Legible(C, l) /\ v \in Seq(D) /\ (l # "mysql" \/ Backslash \notin D)
  BY DEF Legible
<1>3. v \in Seq(C)
  BY <1>2
<1>4. PICK o \in States(C) : o = Outset
  BY OutsetIs
<1>5. PICK s \in States(C) : s = Runs(Outset, T, l)
  BY <1>1, <1>4, RunsType
<1>6. PICK r \in Seq(Lexemes(C)) : r = Settled(s)
  BY <1>1, SettledIs
<1>7. PICK S \in Seq(C) : S = Append(T, "'")
  BY <1>1, AppendProperties
<1>8. Runs(o, S, l) = Reading("value", r, <<>>)
  <2>1. Runs(o, S, l) = Reads(s, "'", l)
    BY <1>1, <1>4, <1>5, <1>7, RunsAppend
  <2>2. s.mode \in Rest /\ s.mode # "value_end"
    BY <1>5 DEF Rest
  <2>3. Reads(s, "'", l) = Reading("value", r, <<>>)
    BY <1>1, <1>6, <2>2, ReadsOpening
  <2>4. QED BY <2>1, <2>3
<1>9. Ready(S, l, C)
  <2>1. s.mode # "two_dashes" /\ "'" # "?"
    BY <1>5
  <2>2. QED BY <1>1, <1>5, <1>7, <2>1, ReadyStep
<1>10. PICK w \in Seq(C) : w = Spelt(SqlSpelling(D), v)
  <2>1. SqlSpelling(D) \in [D -> Seq(C)]
    BY <1>1, <1>2, SqlSpells DEF Spells
  <2>2. QED BY <1>2, <2>1, SpeltType
<1>11. PICK y \in Seq(C) : y = S \o w
  BY ConcatProperties
<1>12. Ready(y, l, C) /\ Runs(o, y, l) = Reading("value", r, v)
  <2>1. Splits(y, S, Spelt(SqlSpelling(D), v))
    BY <1>10, <1>11 DEF Splits
  <2>2. Runs(Outset, S, l) = Reading("value", r, <<>>)
    BY <1>4, <1>8
  <2>4. Opened(S, r, v, D, l, C)
    BY <1>2, <1>9, <2>2 DEF Opened
  <2>3. Ready(y, l, C) /\ Runs(Outset, y, l) = Reading("value", r, v)
    BY <2>1, <2>4, InsideReads
  <2>5. QED BY <1>4, <2>3
<1>13. PICK z \in Seq(C) : z = Append(y, "'")
  BY <1>1, AppendProperties
<1>14. Runs(o, z, l) = Reading("value_end", r, v)
  <2>1. Runs(o, z, l) = Reads(Reading("value", r, v), "'", l)
    BY <1>1, <1>12, <1>13, RunsAppend
  <2>2. QED BY <2>1, ReadsInValue
<1>15. Ready(z, l, C)
  <2>1. Runs(Outset, y, l).mode = "value"
    BY <1>4, <1>12, ReadingIs
  <2>2. "value" # "two_dashes" /\ "'" # "?"
    OBVIOUS
  <2>3. QED BY <1>1, <1>12, <1>13, <2>1, <2>2, ReadyStep
<1>16. T \o escape_sql_string(v) = z
  <2>1. escape_sql_string(v) = Enclosed(SqlSpelling(D), v)
    BY <1>2, SqlEncloses
  <2>2. PICK q \in Seq(C) : q = <<"'">>
    BY <1>1, OneIsSeq
  <2>3. escape_sql_string(v) = (q \o w) \o q
    BY <1>10, <2>1, <2>2, Zenon DEF Enclosed
  <2>4. Wraps(T, q, w, S, y, z)
    <3>1. S = T \o q
      BY <1>1, <1>7, <2>2, AppendIsConcat
    <3>2. z = y \o q
      BY <1>1, <1>13, <2>2, AppendIsConcat
    <3>3. QED BY <1>1, <1>11, <3>1, <3>2, WrapsIs
  <2>5. QED BY <2>3, <2>4, Zenon DEF Wraps
<1>17. Runs(Outset, z, l).mode = "value_end" /\ Settled(Runs(Outset, z, l)) = Append(r, Value(v))
  BY <1>3, <1>4, <1>14, ReadingIs, SettledValue
<1>18. Value(v).kind = "value"
  BY <1>3, LexemeIs DEF Value
<1>19. QED BY <1>5, <1>6, <1>15, <1>16, <1>17, <1>18 DEF Grown

LEMMA MarkPiece ==
  ASSUME NEW C, NEW l
  PROVE  Mark \in Tokens(C, l) /\ Pieces(C, l)[Mark] = MarkText /\ Mark.kind = "mark"
<1>1. Mark \in Tokens(C, l)
  BY DEF Tokens
<1>2. Mark.kind = "mark"
  BY MarkIs
<1>3. OperandText(Mark, build_where) = MarkText
  BY <1>2 DEF OperandText
<1>4. QED BY <1>1, <1>2, <1>3 DEF Pieces

LEMMA WordPiece ==
  ASSUME NEW C, NEW l, NEW c \in C \ Special
  PROVE  Word(c) \in Tokens(C, l) /\ Pieces(C, l)[Word(c)] = <<c>> /\ Word(c).kind = "word"
<1>1. Word(c) \in Tokens(C, l)
  BY DEF Tokens
<1>2. Word(c).kind = "word" /\ Word(c).text = <<c>>
  BY WordIs
<1>3. OperandText(Word(c), build_where) = <<c>>
  BY <1>2 DEF OperandText
<1>4. QED BY <1>1, <1>2, <1>3 DEF Pieces

LEMMA ValuePiece ==
  ASSUME NEW C, NEW l, NEW v \in Seq(Legible(C, l)), v # MarkText
  PROVE  /\ Value(v) \in Tokens(C, l) /\ Pieces(C, l)[Value(v)] = escape_sql_string(v)
         /\ Value(v).kind = "value"
<1>1. Value(v) \in Tokens(C, l)
  BY DEF Tokens
<1>2. Value(v).kind = "value" /\ Value(v).text = v
  BY DEF Value, Lexeme
<1>3. OperandText(Value(v), build_where) = build_where(v)
  BY <1>2 DEF OperandText
<1>4. build_where(v) = escape_sql_string(v)
  BY DEF build_where
<1>5. QED BY <1>1, <1>2, <1>3, <1>4 DEF Pieces

LEMMA TokenKinds ==
  ASSUME NEW C, NEW l, NEW k \in Tokens(C, l)
  PROVE  \/ k = Mark
         \/ \E c \in C \ Special : k = Word(c)
         \/ \E v \in Seq(Legible(C, l)) : v # MarkText /\ k = Value(v)
  BY DEF Tokens

LEMMA TokenIsLexeme ==
  ASSUME NEW C, NEW l
  PROVE  Tokens(C, l) \subseteq Lexemes(C)
<1>1. SUFFICES ASSUME NEW k \in Tokens(C, l) PROVE k \in Lexemes(C)
  OBVIOUS
<1>2. CASE k = Mark
  BY <1>2, MarkIs
<1>3. ASSUME NEW c \in C \ Special, k = Word(c) PROVE k \in Lexemes(C)
  BY <1>3, WordIs
<1>4. ASSUME NEW v \in Seq(Legible(C, l)), k = Value(v) PROVE k \in Lexemes(C)
  <2>1. v \in Seq(C)
    BY DEF Legible
  <2>2. QED BY <1>4, <2>1, LexemeIs DEF Value
<1>5. QED BY <1>2, <1>3, <1>4, TokenKinds

LEMMA ThreeOfThem ==
  ASSUME NEW X, NEW x \in X, NEW y \in X, NEW z \in X
  PROVE  <<x, y, z>> \in Seq(X)
  OBVIOUS

LEMMA PiecesType ==
  ASSUME NEW C, Special \subseteq C, NEW l
  PROVE  Pieces(C, l) \in [Tokens(C, l) -> Seq(C)]
<1>1. ASSUME NEW k \in Tokens(C, l) PROVE Pieces(C, l)[k] \in Seq(C)
  <2>1. CASE k = Mark
    <3>1. MarkText \in Seq(C)
      <4>1. "?" \in C /\ " " \in C
        BY SpecialIs
      <4>2. <<"?", " ", " ">> \in Seq(C)
        BY <4>1, ThreeOfThem
      <4>3. QED BY <4>2 DEF MarkText
    <3>2. QED BY <2>1, <3>1, MarkPiece
  <2>2. ASSUME NEW c \in C \ Special, k = Word(c) PROVE Pieces(C, l)[k] \in Seq(C)
    <3>1. Pieces(C, l)[k] = <<c>>
      BY <2>2, WordPiece
    <3>2. <<c>> \in Seq(C)
      OBVIOUS
    <3>3. QED BY <3>1, <3>2
  <2>3. ASSUME NEW v \in Seq(Legible(C, l)), v # MarkText, k = Value(v)
        PROVE  Pieces(C, l)[k] \in Seq(C)
    <3>1. PICK D \in SUBSET C : D = Legible(C, l) /\ v \in Seq(D)
      BY DEF Legible
    <3>2. l # "mysql" \/ Backslash \notin D
      BY <3>1 DEF Legible
    <3>3. escape_sql_string(v) = Enclosed(SqlSpelling(D), v)
      BY <3>1, SqlEncloses
    <3>4. Alphabet(C)
      BY SpecialIs
    <3>5. Spells(SqlSpelling(D), D, C, l)
      BY <3>1, <3>2, <3>4, SqlSpells
    <3>6. Outset \in States(C) /\ Outset.mode = "plain"
      BY OutsetIs
    <3>7. "plain" \in Rest
      BY DEF Rest
    <3>8. Enclosed(SqlSpelling(D), v) \in Seq(C)
      BY <3>1, <3>4, <3>5, <3>6, <3>7, EnclosedReads
    <3>9. QED BY <2>3, <3>3, <3>8, ValuePiece
  <2>4. QED BY <2>1, <2>2, <2>3, TokenKinds
<1>2. QED BY <1>1 DEF Pieces

LEMMA EmptyIs ==
  ASSUME NEW X
  PROVE  <<>> \in Seq(X)
  OBVIOUS

LEMMA ToldEmpty ==
  ASSUME NEW C, Special \subseteq C, NEW l
  PROVE  SaysTokens(<<>>, C, l)
<1>1. Spelt(Pieces(C, l), <<>>) = <<>>
  BY SpeltEmpty
<1>2. Runs(Outset, <<>>, l) = Outset
  BY RunsEmpty, OutsetIs, SpecialIs
<1>3. Outset.mode = "plain" /\ Settled(Outset) = <<>>
  <2>1. Settled(Reading("plain", <<>>, <<>>)) = <<>>
    <3>1. PICK r \in Seq(Lexemes(C)) : r = <<>>
      BY EmptyIs
    <3>2. Settled(Reading("plain", r, <<>>)) = r
      BY SettledPlain
    <3>3. QED BY <3>1, <3>2
  <2>2. Outset.mode = "plain"
    BY OutsetIs
  <2>3. QED BY <2>1, <2>2 DEF Outset
<1>4. Ready(<<>>, l, C)
  BY ReadyEmpty
<1>5. QED BY <1>1, <1>2, <1>3, <1>4 DEF SaysTokens

LEMMA SteadyAppend ==
  ASSUME NEW X, NEW K \in Seq(X), NEW k \in X, Steady(Append(K, k))
  PROVE  Steady(K) /\ (k.kind # "word" => K # <<>> /\ K[Len(K)].kind = "word")
<1>1. PICK L \in Seq(X) : L = Append(K, k)
  BY AppendProperties
<1>2. Len(L) = Len(K) + 1 /\ L[Len(K) + 1] = k /\ \A i \in 1..Len(K) : L[i] = K[i]
  BY <1>1, AppendProperties
<1>3. Steady(L)
  BY <1>1
<1>4. Len(K) \in Nat /\ DOMAIN K = 1..Len(K) /\ DOMAIN L = 1..Len(K) + 1
  BY <1>2, LenProperties
<1>5. ASSUME NEW i \in 1..Len(K), K[i].kind # "word" PROVE i > 1 /\ K[i - 1].kind = "word"
  <2>1. i \in DOMAIN L /\ L[i].kind # "word"
    BY <1>2, <1>4, <1>5
  <2>2. i > 1 /\ L[i - 1].kind = "word"
    BY <1>3, <2>1 DEF Steady
  <2>3. i - 1 \in 1..Len(K)
    BY <1>4, <2>2
  <2>4. QED BY <1>2, <2>2, <2>3
<1>6. ASSUME k.kind # "word" PROVE K # <<>> /\ K[Len(K)].kind = "word"
  <2>1. PICK n \in Nat : n = Len(K) + 1 /\ n \in DOMAIN L /\ n - 1 = Len(K)
    BY <1>4
  <2>2. n > 1 /\ L[n - 1].kind = "word"
    BY <1>2, <1>3, <1>6, <2>1 DEF Steady
  <2>3. Len(K) \in 1..Len(K)
    BY <1>4, <2>1, <2>2
  <2>4. QED BY <1>2, <2>1, <2>2, <2>3
<1>7. QED BY <1>4, <1>5, <1>6 DEF Steady

\* One token more is written, and read.
LEMMA ToldStep ==
  ASSUME NEW C, Special \subseteq C, NEW l, NEW K \in Seq(Tokens(C, l)), SaysTokens(K, C, l),
         NEW k \in Tokens(C, l), Steady(Append(K, k))
  PROVE  SaysTokens(Append(K, k), C, l)
<1>1. PICK T : T = Spelt(Pieces(C, l), K)
  OBVIOUS
<1>2. PICK s : s = Runs(Outset, T, l)
  OBVIOUS
<1>3. /\ Ready(T, l, C) /\ s.mode \in {"plain", "value_end"} /\ Settled(s) = K
      /\ s.mode = "value_end" => K # <<>> /\ K[Len(K)].kind = "value"
  BY <1>1, <1>2 DEF SaysTokens
<1>4. k.kind # "word" => s.mode = "plain"
  <2>1. k.kind # "word" => K # <<>> /\ K[Len(K)].kind = "word"
    BY SteadyAppend
  <2>2. QED BY <1>3, <2>1
<1>5. PICK p : p = Pieces(C, l)[k]
  OBVIOUS
<1>6. Grown(T, p, k, l, C)
  <2>1. CASE k = Mark
    BY <1>2, <1>3, <1>4, <1>5, <2>1, MarkPiece, JoinsMark
  <2>2. ASSUME NEW c \in C \ Special, k = Word(c) PROVE Grown(T, p, k, l, C)
    BY <1>2, <1>3, <1>5, <2>2, WordPiece, JoinsWord
  <2>3. ASSUME NEW v \in Seq(Legible(C, l)), v # MarkText, k = Value(v)
        PROVE  Grown(T, p, k, l, C)
    <3>1. k.kind = "value" /\ p = escape_sql_string(v)
      BY <1>5, <2>3, ValuePiece
    <3>2. s.mode = "plain"
      BY <1>4, <3>1
    <3>3. QED BY <1>2, <1>3, <2>3, <3>1, <3>2, JoinsValue
  <2>4. QED BY <2>1, <2>2, <2>3, TokenKinds
<1>7. PICK U : U = T \o p
  OBVIOUS
<1>8. Spelt(Pieces(C, l), Append(K, k)) = U
  <2>1. Pieces(C, l) \in [Tokens(C, l) -> Seq(C)]
    BY PiecesType
  <2>2. Spelt(Pieces(C, l), Append(K, k)) = Spelt(Pieces(C, l), K) \o Pieces(C, l)[k]
    BY <2>1, SpeltAppend
  <2>3. QED BY <1>1, <1>5, <1>7, <2>2
<1>9. /\ Ready(U, l, C) /\ Settled(Runs(Outset, U, l)) = Append(K, k)
      /\ Runs(Outset, U, l).mode = IF k.kind = "value" THEN "value_end" ELSE "plain"
  BY <1>2, <1>3, <1>6, <1>7 DEF Grown
<1>10. Append(K, k) # <<>> /\ Append(K, k)[Len(Append(K, k))] = k
  BY AppendProperties
<1>11. QED BY <1>8, <1>9, <1>10 DEF SaysTokens

\* The text of a steady sequence of tokens is good, and read as the sequence.
LEMMA TokensTold ==
  ASSUME NEW C, Special \subseteq C, NEW l
  PROVE  \A K \in Seq(Tokens(C, l)) : Steady(K) => SaysTokens(K, C, l)
<1> DEFINE A == {K \in Seq(Tokens(C, l)) : Steady(K) => SaysTokens(K, C, l)}
<1>1. <<>> \in A
  BY ToldEmpty
<1>2. ASSUME NEW K \in A \cap Seq(Tokens(C, l)), NEW k \in Tokens(C, l)
      PROVE  Append(K, k) \in A
  <2>1. Append(K, k) \in Seq(Tokens(C, l))
    BY AppendProperties
  <2>2. ASSUME Steady(Append(K, k)) PROVE SaysTokens(Append(K, k), C, l)
    <3>1. Steady(K)
      BY <2>2, SteadyAppend
    <3>2. SaysTokens(K, C, l)
      BY <3>1
    <3>3. QED BY <2>2, <3>2, ToldStep
  <2>3. QED BY <2>1, <2>2
<1>3. Seq(Tokens(C, l)) \subseteq A
  <2> HIDE DEF A
  <2>1. QED BY <1>1, <1>2, AppendInduction
<1>4. QED BY <1>3

-----------------------------------------------------------------------------
(* What is put together                                                    *)

\* A part stands in the whole.
LEMMA JoinedHas ==
  ASSUME NEW X, NEW parts \in Seq(Seq(X)), NEW k \in 1..Len(parts)
  PROVE  \E a \in Seq(X), b \in Seq(X) : Holds(Joined(parts), a, parts[k], b)
<1>1. PICK f \in [0..Len(parts) -> Seq(X)] : Joins(f, parts) /\ Joined(parts) = f[Len(parts)]
  BY JoinedSteps
<1>2. Len(parts) \in Nat /\ k \in Nat /\ k \in 0..Len(parts) /\ k - 1 \in 0..Len(parts)
  BY LenProperties
<1>3. PICK p \in Seq(X) : p = parts[k]
  BY ElementOfSeq
<1>4. PICK a \in Seq(X) : a = f[k - 1]
  BY <1>2
<1>5. PICK q \in Seq(X) : q = a \o p
  BY ConcatProperties
<1>6. f[k] = q
  BY <1>1, <1>3, <1>4, <1>5 DEF Joins
<1> DEFINE A == {i \in 0..Len(parts) : \E b \in Seq(X) : Splits(f[i], q, b)}
<1>7. k \in A
  <2>1. q \o <<>> = q /\ <<>> \in Seq(X)
    BY ConcatEmptySeq
  <2>2. Splits(f[k], q, <<>>)
    BY <1>6, <2>1 DEF Splits
  <2>3. QED BY <1>2, <2>1, <2>2
<1>8. ASSUME NEW i \in k + 1..Len(parts), i - 1 \in A PROVE i \in A
  <2>1. PICK b \in Seq(X) : Splits(f[i - 1], q, b)
    BY <1>8
  <2>2. i \in 1..Len(parts) /\ i \in 0..Len(parts)
    BY <1>2
  <2>3. PICK r \in Seq(X) : r = parts[i]
    BY <2>2, ElementOfSeq
  <2>4. f[i] = f[i - 1] \o r
    BY <1>1, <2>2, <2>3 DEF Joins
  <2>5. Associates(q, b, r)
    BY AssociatesIs
  <2>6. PICK d \in Seq(X) : d = b \o r
    BY ConcatProperties
  <2>7. Splits(f[i], q, d)
    BY <2>1, <2>4, <2>5, <2>6, Zenon DEF Splits, Associates
  <2>8. QED BY <2>2, <2>7
<1>9. \A i \in k..Len(parts) : i \in A
  <2> HIDE DEF A
  <2>1. QED BY <1>2, <1>7, <1>8, UpInduction
<1>10. Len(parts) \in A
  <2>1. Len(parts) \in k..Len(parts)
    BY <1>2
  <2> HIDE DEF A
  <2>2. QED BY <1>9, <2>1
<1>11. PICK b \in Seq(X) : Splits(f[Len(parts)], q, b)
  BY <1>10
<1>12. Holds(Joined(parts), a, p, b)
  BY <1>1, <1>5, <1>11, Zenon DEF Holds, Splits
<1>13. QED BY <1>3, <1>12

LEMMA JoinedNothing ==
  ASSUME NEW X, NEW parts \in Seq(Seq(X)), \A i \in 1..Len(parts) : parts[i] = <<>>
  PROVE  Joined(parts) = <<>>
<1>1. PICK f \in [0..Len(parts) -> Seq(X)] : Joins(f, parts) /\ Joined(parts) = f[Len(parts)]
  BY JoinedSteps
<1>2. Len(parts) \in Nat
  BY LenProperties
<1> DEFINE A == {i \in 0..Len(parts) : f[i] = <<>>}
<1>3. 0 \in A
  BY <1>1, <1>2 DEF Joins
<1>4. ASSUME NEW i \in 0 + 1..Len(parts), i - 1 \in A PROVE i \in A
  <2>1. i \in 1..Len(parts) /\ i \in 0..Len(parts)
    BY <1>2
  <2>2. f[i] = f[i - 1] \o parts[i] /\ f[i - 1] = <<>> /\ parts[i] = <<>>
    BY <1>1, <1>4, <2>1 DEF Joins
  <2>3. <<>> \o <<>> = <<>>
    BY EmptyIs, ConcatEmptySeq
  <2>4. QED BY <2>1, <2>2, <2>3
<1>5. \A i \in 0..Len(parts) : i \in A
  <2> HIDE DEF A
  <2>1. QED BY <1>2, <1>3, <1>4, UpInduction
<1>6. QED BY <1>1, <1>2, <1>5

\* What is added to the last part that is not empty is added to the whole.
LEMMA JoinedGrows ==
  ASSUME NEW X, NEW parts \in Seq(Seq(X)), NEW more \in Seq(Seq(X)), NEW k \in 1..Len(parts),
         NEW t \in Seq(X), Lengthened(more, parts, k, t)
  PROVE  Splits(Joined(more), Joined(parts), t)
<1>1. PICK f \in [0..Len(parts) -> Seq(X)] : Joins(f, parts) /\ Joined(parts) = f[Len(parts)]
  BY JoinedSteps
<1>2. PICK g \in [0..Len(more) -> Seq(X)] : Joins(g, more) /\ Joined(more) = g[Len(more)]
  BY JoinedSteps
<1>3. Len(parts) \in Nat /\ Len(more) = Len(parts) /\ k \in Nat /\ k \in 0..Len(parts)
      /\ k - 1 \in 0..Len(parts) /\ k - 1 \in Nat
  BY LenProperties DEF Lengthened
<1>4. Agree(f, g, k - 1)
  <2>1. f[0] = g[0]
    BY <1>1, <1>2 DEF Joins
  <2>2. ASSUME NEW i \in 1..k - 1, f[i - 1] = g[i - 1] PROVE f[i] = g[i]
    <3>1. i \in 1..Len(parts) /\ i \in 1..Len(more) /\ i # k
      BY <1>3
    <3>2. more[i] = parts[i]
      BY <3>1 DEF Lengthened
    <3>3. f[i] = f[i - 1] \o parts[i] /\ g[i] = g[i - 1] \o more[i]
      BY <1>1, <1>2, <3>1 DEF Joins
    <3>4. QED BY <2>2, <3>2, <3>3
  <2>3. QED BY <2>1, <2>2 DEF Agree
<1>5. f[k - 1] = g[k - 1]
  <2>1. \A i \in 0..k - 1 : f[i] = g[i]
    <3>1. k - 1 \in Nat
      BY <1>3
    <3>2. QED BY <1>4, <3>1, RunnersAgree
  <2>2. QED BY <1>3, <2>1
<1>6. PICK p \in Seq(X) : p = parts[k]
  BY ElementOfSeq
<1>7. PICK a \in Seq(X) : a = f[k - 1]
  BY <1>3
<1>8. f[k] = a \o p /\ g[k] = a \o (p \o t)
  <2>1. more[k] = p \o t
    BY <1>6 DEF Lengthened
  <2>2. k \in 1..Len(more)
    BY <1>3
  <2>3. f[k] = f[k - 1] \o parts[k] /\ g[k] = g[k - 1] \o more[k]
    BY <1>1, <1>2, <2>2 DEF Joins
  <2>4. QED BY <1>5, <1>6, <1>7, <2>1, <2>3
<1>9. PICK q \in Seq(X) : q = f[k]
  BY <1>3
<1>10. PICK r \in Seq(X) : r = g[k]
  BY <1>3
<1>11. Splits(r, q, t)
  <2>1. Associates(a, p, t)
    BY AssociatesIs
  <2>2. QED BY <1>8, <1>9, <1>10, <2>1, Zenon DEF Splits, Associates
<1> DEFINE A == {i \in 0..Len(parts) : f[i] = q /\ g[i] = r}
<1>12. k \in A
  BY <1>3, <1>9, <1>10
<1>13. ASSUME NEW i \in k + 1..Len(parts), i - 1 \in A PROVE i \in A
  <2>1. i \in 1..Len(parts) /\ i \in 1..Len(more) /\ i \in 0..Len(parts) /\ i > k /\ i # k
    BY <1>3
  <2>2. parts[i] = <<>> /\ more[i] = <<>>
    BY <2>1 DEF Lengthened
  <2>3. f[i] = f[i - 1] \o parts[i] /\ g[i] = g[i - 1] \o more[i]
    BY <1>1, <1>2, <2>1 DEF Joins
  <2>4. q \o <<>> = q /\ r \o <<>> = r
    BY ConcatEmptySeq
  <2>5. QED BY <1>13, <2>1, <2>2, <2>3, <2>4
<1>14. \A i \in k..Len(parts) : i \in A
  <2> HIDE DEF A
  <2>1. QED BY <1>3, <1>12, <1>13, UpInduction
<1>15. f[Len(parts)] = q /\ g[Len(parts)] = r
  BY <1>3, <1>14
<1>16. QED BY <1>1, <1>2, <1>3, <1>11, <1>15

LEMMA SpeltConcat ==
  ASSUME NEW X, NEW Y, NEW f \in [X -> Seq(Y)], NEW v \in Seq(X)
  PROVE  \A w \in Seq(X) : Splits(Spelt(f, v \o w), Spelt(f, v), Spelt(f, w))
<1> DEFINE A == {w \in Seq(X) : Splits(Spelt(f, v \o w), Spelt(f, v), Spelt(f, w))}
<1>1. PICK p \in Seq(Y) : p = Spelt(f, v)
  BY SpeltType
<1>2. <<>> \in A
  <2>1. v \o <<>> = v /\ p \o <<>> = p
    BY ConcatEmptySeq
  <2>2. Spelt(f, <<>>) = <<>>
    BY SpeltEmpty
  <2>3. Splits(Spelt(f, v \o <<>>), Spelt(f, v), Spelt(f, <<>>))
    BY <1>1, <2>1, <2>2 DEF Splits
  <2>4. <<>> \in Seq(X)
    BY EmptyIs
  <2>5. QED BY <2>3, <2>4
<1>3. ASSUME NEW w \in A \cap Seq(X), NEW x \in X PROVE Append(w, x) \in A
  <2>1. PICK q \in Seq(Y) : q = Spelt(f, w)
    BY SpeltType
  <2>2. PICK r \in Seq(Y) : r = f[x]
    OBVIOUS
  <2>3. PICK u \in Seq(X) : u = v \o w
    BY ConcatProperties
  <2>4. Spelt(f, u) = p \o q
    BY <1>1, <1>3, <2>1, <2>3 DEF Splits
  <2>5. Extends(v \o Append(w, x), v \o w, x)
    BY OneAppended
  <2>6. Spelt(f, Append(u, x)) = Spelt(f, u) \o r
    BY <2>2, SpeltAppend
  <2>7. Spelt(f, Append(w, x)) = q \o r
    BY <2>1, <2>2, SpeltAppend
  <2>8. Associates(p, q, r)
    BY AssociatesIs
  <2>9. Splits(Spelt(f, v \o Append(w, x)), Spelt(f, v), Spelt(f, Append(w, x)))
    BY <1>1, <2>3, <2>4, <2>5, <2>6, <2>7, <2>8, Zenon DEF Splits, Extends, Associates
  <2>10. Append(w, x) \in Seq(X)
    BY AppendProperties
  <2>11. QED BY <2>9, <2>10
<1>4. Seq(X) \subseteq A
  <2> HIDE DEF A
  <2>1. QED BY <1>2, <1>3, AppendInduction
<1>5. QED BY <1>4

\* The text of what is put together is put together from the texts of the parts.
LEMMA SpeltJoined ==
  ASSUME NEW X, NEW Y, NEW f \in [X -> Seq(Y)], NEW parts \in Seq(Seq(X)),
         NEW texts \in Seq(Seq(Y)), Len(texts) = Len(parts),
         \A i \in 1..Len(parts) : texts[i] = Spelt(f, parts[i])
  PROVE  Joined(texts) = Spelt(f, Joined(parts))
<1>1. PICK h \in [0..Len(parts) -> Seq(X)] : Joins(h, parts) /\ Joined(parts) = h[Len(parts)]
  BY JoinedSteps
<1>2. PICK g \in [0..Len(texts) -> Seq(Y)] : Joins(g, texts) /\ Joined(texts) = g[Len(texts)]
  BY JoinedSteps
<1>3. Len(parts) \in Nat
  BY LenProperties
<1> DEFINE A == {i \in 0..Len(parts) : g[i] = Spelt(f, h[i])}
<1>4. 0 \in A
  <2>1. h[0] = <<>> /\ g[0] = <<>>
    BY <1>1, <1>2 DEF Joins
  <2>2. Spelt(f, <<>>) = <<>>
    BY SpeltEmpty
  <2>3. QED BY <1>3, <2>1, <2>2
<1>5. ASSUME NEW i \in 0 + 1..Len(parts), i - 1 \in A PROVE i \in A
  <2>1. i \in 1..Len(parts) /\ i \in 1..Len(texts) /\ i \in 0..Len(parts) /\ i - 1 \in 0..Len(parts)
    BY <1>3
  <2>2. PICK v \in Seq(X) : v = h[i - 1]
    BY <2>1
  <2>3. PICK w \in Seq(X) : w = parts[i]
    BY <2>1, ElementOfSeq
  <2>4. h[i] = v \o w
    BY <1>1, <2>1, <2>2, <2>3 DEF Joins
  <2>5. g[i] = g[i - 1] \o texts[i] /\ texts[i] = Spelt(f, w)
    BY <1>2, <2>1, <2>3 DEF Joins
  <2>6. g[i - 1] = Spelt(f, v)
    BY <1>5, <2>2
  <2>7. Splits(Spelt(f, v \o w), Spelt(f, v), Spelt(f, w))
    BY SpeltConcat
  <2>8. g[i] = Spelt(f, h[i])
    BY <2>4, <2>5, <2>6, <2>7, Zenon DEF Splits
  <2>9. QED BY <2>1, <2>8
<1>6. \A i \in 0..Len(parts) : i \in A
  <2> HIDE DEF A
  <2>1. QED BY <1>3, <1>4, <1>5, UpInduction
<1>7. QED BY <1>1, <1>2, <1>3, <1>6

LEMMA SeqOfSubset ==
  ASSUME NEW X, NEW Y, X \subseteq Y, NEW s \in Seq(X)
  PROVE  s \in Seq(Y)
  OBVIOUS

LEMMA SteadyConcat ==
  ASSUME NEW X, NEW v \in Seq(X), NEW w \in Seq(X), Steady(v), Steady(w),
         NEW u, u = v \o w
  PROVE  Steady(u)
<1>1. /\ u \in Seq(X) /\ Len(u) = Len(v) + Len(w)
      /\ \A i \in 1..Len(v) + Len(w) : u[i] = IF i <= Len(v) THEN v[i] ELSE w[i - Len(v)]
  BY ConcatProperties
<1>2. /\ Len(v) \in Nat /\ Len(w) \in Nat /\ DOMAIN v = 1..Len(v) /\ DOMAIN w = 1..Len(w)
      /\ DOMAIN u = 1..Len(v) + Len(w)
  BY <1>1, LenProperties
<1>3. ASSUME NEW i \in DOMAIN u, u[i].kind # "word" PROVE i > 1 /\ u[i - 1].kind = "word"
  <2>1. CASE i <= Len(v)
    <3>1. i \in DOMAIN v /\ v[i] = u[i]
      BY <1>1, <1>2, <2>1
    <3>2. i > 1 /\ v[i - 1].kind = "word"
      BY <1>3, <3>1 DEF Steady
    <3>3. i - 1 \in 1..Len(v) + Len(w) /\ i - 1 <= Len(v)
      BY <1>2, <2>1, <3>2
    <3>4. u[i - 1] = v[i - 1]
      BY <1>1, <3>3
    <3>5. QED BY <3>2, <3>4
  <2>2. CASE i > Len(v)
    <3>1. PICK j \in DOMAIN w : j = i - Len(v)
      BY <1>2, <2>2
    <3>2. u[i] = w[j]
      BY <1>1, <1>2, <2>2, <3>1
    <3>3. j > 1 /\ w[j - 1].kind = "word"
      BY <1>3, <3>2 DEF Steady
    <3>4. i > 1 /\ i - 1 \in 1..Len(v) + Len(w) /\ ~(i - 1 <= Len(v)) /\ (i - 1) - Len(v) = j - 1
      BY <1>2, <2>2, <3>1, <3>3
    <3>5. u[i - 1] = w[j - 1]
      BY <1>1, <3>4
    <3>6. QED BY <3>3, <3>4, <3>5
  <2>3. QED BY <1>2, <2>1, <2>2
<1>4. QED BY <1>3 DEF Steady

\* The parts of a statement can be put together if each begins with a word.
LEMMA SteadyJoined ==
  ASSUME NEW X, NEW parts \in Seq(Seq(X)), \A i \in 1..Len(parts) : Steady(parts[i])
  PROVE  Steady(Joined(parts))
<1>1. PICK f \in [0..Len(parts) -> Seq(X)] : Joins(f, parts) /\ Joined(parts) = f[Len(parts)]
  BY JoinedSteps
<1>2. Len(parts) \in Nat
  BY LenProperties
<1> DEFINE A == {i \in 0..Len(parts) : Steady(f[i])}
<1>3. 0 \in A
  <2>1. f[0] = <<>>
    BY <1>1 DEF Joins
  <2>2. Steady(<<>>)
    BY DEF Steady
  <2>3. QED BY <1>2, <2>1, <2>2
<1>4. ASSUME NEW i \in 0 + 1..Len(parts), i - 1 \in A PROVE i \in A
  <2>1. i \in 1..Len(parts) /\ i \in 0..Len(parts) /\ i - 1 \in 0..Len(parts)
    BY <1>2
  <2>2. PICK v \in Seq(X) : v = f[i - 1]
    BY <2>1
  <2>3. PICK w \in Seq(X) : w = parts[i]
    BY <2>1, ElementOfSeq
  <2>4. PICK u : u = f[i]
    OBVIOUS
  <2>5. u = v \o w
    BY <1>1, <2>1, <2>2, <2>3, <2>4 DEF Joins
  <2>6. Steady(v) /\ Steady(w)
    BY <1>4, <2>1, <2>2, <2>3
  <2>7. Steady(u)
    BY <2>5, <2>6, SteadyConcat
  <2>8. QED BY <2>1, <2>4, <2>7
<1>5. \A i \in 0..Len(parts) : i \in A
  <2> HIDE DEF A
  <2>1. QED BY <1>2, <1>3, <1>4, UpInduction
<1>6. QED BY <1>1, <1>2, <1>5

\* A text that is put together from the words, marks and values of clauses, as
\* build_sql() does, says what was put together, if each mark and each value comes
\* after a word.
THEOREM TokensSaid ==
  ASSUME NEW C, Special \subseteq C, NEW l, NEW K \in Seq(Tokens(C, l)), Steady(K)
  PROVE  LET T == Spelt(Pieces(C, l), K)
         IN  T \in Seq(C) /\ Good(T, l, C) /\ Says(T, l) = K /\ K \in Seq(Lexemes(C))
<1>1. PICK T : T = Spelt(Pieces(C, l), K)
  OBVIOUS
<1>2. SaysTokens(K, C, l)
  BY TokensTold
<1>3. Ready(T, l, C) /\ Runs(Outset, T, l).mode \in {"plain", "value_end"}
      /\ Settled(Runs(Outset, T, l)) = K
  BY <1>1, <1>2 DEF SaysTokens
<1>4. Alphabet(C) /\ T \in Seq(C) /\ Good(T, l, C)
  BY <1>3, SpecialIs DEF Ready
<1>5. Says(T, l) = K
  <2>1. PICK o \in States(C) : o = Outset
    BY OutsetIs
  <2>2. PICK s \in States(C) : s = Runs(o, T, l)
    BY <1>4, RunsType
  <2>3. Newline \in C /\ Newline \in Blank
    BY <1>4 DEF Alphabet, Blank
  <2>4. Runs(o, Append(T, Newline), l) = Reads(s, Newline, l)
    BY <1>4, <2>2, <2>3, RunsAppend
  <2>5. s.mode \in Rest
    BY <1>3, <2>1, <2>2 DEF Rest, QuoteEnds
  <2>6. Reads(s, Newline, l) = Reading("plain", Settled(s), <<>>)
    BY <1>4, <2>3, <2>5, ReadsBlank
  <2>7. Says(T, l) = Runs(o, Append(T, Newline), l).read
    BY <2>1, SaysIs
  <2>8. Settled(s) = K
    BY <1>3, <2>1, <2>2
  <2>9. QED BY <2>4, <2>6, <2>7, <2>8, ReadingIs
<1>6. K \in Seq(Lexemes(C))
  BY TokenIsLexeme, SeqOfSubset
<1>7. QED BY <1>1, <1>4, <1>5, <1>6

-----------------------------------------------------------------------------
(* The stages and the clauses of a builder                                 *)

LEMMA WordsIs ==
  /\ Special \subseteq Characters
  /\ \A c \in Words : c \in Characters \ Special
  /\ Clauses \subseteq Words /\ {"select", "update", "delete"} \subseteq Words
<1>1. Words \cup Special \subseteq Characters
  BY TextAssumption
<1>2. ASSUME NEW c \in Words PROVE c \notin Special
  BY DEF Words, Special, DoubleQuote, Backquote, Backslash, Newline
<1>3. Clauses \subseteq Words /\ {"select", "update", "delete"} \subseteq Words
  BY DEF Clauses, Words
<1>4. QED BY <1>1, <1>2, <1>3

LEMMA StagesTable ==
  /\ Stages["select"] = {"select", "join", "where", "groupby", "having", "orderby", "limit",
                         "offset"}
  /\ Stages["update"] = {"update", "set", "update_where"}
  /\ Stages["delete"] = {"delete", "delete_where"}
  /\ Stages["none"] = {}
  /\ DOMAIN Roots = {"select", "update", "delete", "none"}
  BY DEF Stages, Roots

LEMMA OffersTable ==
  /\ Offers["select"] = {"group by", "order by", "limit", "join", "where"}
  /\ Offers["join"] = {"group by", "order by", "limit", "join", "where"}
  /\ Offers["where"] = {"group by", "order by", "limit"}
  /\ Offers["groupby"] = {"having", "order by"}
  /\ Offers["having"] = {"order by"}
  /\ Offers["orderby"] = {"limit"}
  /\ Offers["limit"] = {"offset"}
  /\ Offers["offset"] = {}
  /\ Offers["update"] = {"set"}
  /\ Offers["set"] = {"set", "where"}
  /\ Offers["update_where"] = {}
  /\ Offers["delete"] = {"where"}
  /\ Offers["delete_where"] = {}
  BY DEF Offers

LEMMA OrderTable ==
  /\ Order["select"] = <<"select", "join", "where", "group by", "having", "order by", "limit",
                         "offset">>
  /\ Order["update"] = <<"update", "set", "where">>
  /\ Order["delete"] = <<"delete", "where">>
  BY DEF Order

LEMMA PlaceTable ==
  ASSUME NEW b
  PROVE  /\ Place(b, "where") = IF b = "delete" THEN 2 ELSE 3
         /\ Place(b, "join") = 2 /\ Place(b, "set") = 2 /\ Place(b, "group by") = 4
         /\ Place(b, "having") = 5 /\ Place(b, "order by") = 6 /\ Place(b, "limit") = 7
         /\ Place(b, "offset") = 8
  BY DEF Place

LEMMA EightIs ==
  ASSUME NEW a, NEW b, NEW c, NEW d, NEW e, NEW f, NEW g, NEW h
  PROVE  LET t == <<a, b, c, d, e, f, g, h>>
         IN  /\ Len(t) = 8 /\ t[1] = a /\ t[2] = b /\ t[3] = c /\ t[4] = d /\ t[5] = e
             /\ t[6] = f /\ t[7] = g /\ t[8] = h
  OBVIOUS

LEMMA SomeAre ==
  ASSUME NEW a, NEW b, NEW c
  PROVE  /\ Len(<<a, b>>) = 2 /\ <<a, b>>[1] = a /\ <<a, b>>[2] = b
         /\ Len(<<a, b, c>>) = 3 /\ <<a, b, c>>[1] = a /\ <<a, b, c>>[2] = b
         /\ <<a, b, c>>[3] = c
  OBVIOUS

LEMMA SelectOrder ==
  /\ Len(Order["select"]) = 8
  /\ Order["select"][1] = "select" /\ Order["select"][2] = "join" /\ Order["select"][3] = "where"
  /\ Order["select"][4] = "group by" /\ Order["select"][5] = "having"
  /\ Order["select"][6] = "order by" /\ Order["select"][7] = "limit"
  /\ Order["select"][8] = "offset"
<1>1. PICK t : t = <<"select", "join", "where", "group by", "having", "order by", "limit",
                     "offset">>
  OBVIOUS
<1>2. /\ Len(t) = 8 /\ t[1] = "select" /\ t[2] = "join" /\ t[3] = "where" /\ t[4] = "group by"
      /\ t[5] = "having" /\ t[6] = "order by" /\ t[7] = "limit" /\ t[8] = "offset"
  BY <1>1, EightIs, Zenon
<1>3. Order["select"] = t
  BY <1>1, OrderTable
<1>4. QED BY <1>2, <1>3

LEMMA ChangeOrder ==
  /\ Len(Order["update"]) = 3
  /\ Order["update"][1] = "update" /\ Order["update"][2] = "set" /\ Order["update"][3] = "where"
  /\ Len(Order["delete"]) = 2
  /\ Order["delete"][1] = "delete" /\ Order["delete"][2] = "where"
<1>1. PICK t : t = <<"update", "set", "where">>
  OBVIOUS
<1>2. Len(t) = 3 /\ t[1] = "update" /\ t[2] = "set" /\ t[3] = "where"
  BY <1>1, SomeAre, Zenon
<1>3. PICK u : u = <<"delete", "where">>
  OBVIOUS
<1>4. Len(u) = 2 /\ u[1] = "delete" /\ u[2] = "where"
  BY <1>3, SomeAre, Zenon
<1>5. Order["update"] = t /\ Order["delete"] = u
  BY <1>1, <1>3, OrderTable
<1>6. QED BY <1>2, <1>4, <1>5

LEMMA OrderIs ==
  ASSUME NEW b \in {"select", "update", "delete"}
  PROVE  /\ Len(Order[b]) \in 2..8 /\ Order[b][1] = b
         /\ \A j \in 2..Len(Order[b]) : Order[b][j] \in Clauses
<1>1. CASE b = "select"
  <2>1. ASSUME NEW j \in 2..8 PROVE Order["select"][j] \in Clauses
    <3>1. j = 2 \/ j = 3 \/ j = 4 \/ j = 5 \/ j = 6 \/ j = 7 \/ j = 8
      OBVIOUS
    <3>2. QED BY <3>1, SelectOrder DEF Clauses
  <2>2. Len(Order["select"]) = 8 /\ Order["select"][1] = "select"
    BY SelectOrder
  <2>3. QED BY <1>1, <2>1, <2>2
<1>2. CASE b = "update"
  <2>1. ASSUME NEW j \in 2..3 PROVE Order["update"][j] \in Clauses
    <3>1. j = 2 \/ j = 3
      OBVIOUS
    <3>2. QED BY <3>1, ChangeOrder DEF Clauses
  <2>2. Len(Order["update"]) = 3 /\ Order["update"][1] = "update"
    BY ChangeOrder
  <2>3. QED BY <1>2, <2>1, <2>2
<1>3. CASE b = "delete"
  <2>1. ASSUME NEW j \in 2..2 PROVE Order["delete"][j] \in Clauses
    <3>1. j = 2
      OBVIOUS
    <3>2. QED BY <3>1, ChangeOrder DEF Clauses
  <2>2. Len(Order["delete"]) = 2 /\ Order["delete"][1] = "delete"
    BY ChangeOrder
  <2>3. QED BY <1>3, <2>1, <2>2
<1>4. QED BY <1>1, <1>2, <1>3

LEMMA PlaceIs ==
  ASSUME NEW b, NEW c, NEW n \in 2..8, Place(b, c) = n, Order[b][n] = c
  PROVE  Place(b, c) \in 2..8 /\ Order[b][Place(b, c)] = c
  OBVIOUS

LEMMA NearNumbers == \A n \in {2, 3, 4, 5, 6, 7, 8} : n \in 2..8
  OBVIOUS

LEMMA SelectPlaced ==
  ASSUME NEW c \in {"group by", "order by", "limit", "join", "where", "having", "offset"}
  PROVE  Place("select", c) \in 2..8 /\ Order["select"][Place("select", c)] = c
<1>0. \A n \in {2, 3, 4, 5, 6, 7, 8} : n \in 2..8
  BY NearNumbers
<1>1. CASE c = "join"
  <2>1. Place("select", "join") = 2 /\ Order["select"][2] = "join"
    BY PlaceTable, SelectOrder, Zenon
  <2>2. QED BY <1>1, <2>1, <1>0, PlaceIs, Zenon
<1>2. CASE c = "where"
  <2>1. Place("select", "where") = 3 /\ Order["select"][3] = "where"
    BY PlaceTable, SelectOrder, Zenon
  <2>2. QED BY <1>2, <2>1, <1>0, PlaceIs, Zenon
<1>3. CASE c = "group by"
  <2>1. Place("select", "group by") = 4 /\ Order["select"][4] = "group by"
    BY PlaceTable, SelectOrder, Zenon
  <2>2. QED BY <1>3, <2>1, <1>0, PlaceIs, Zenon
<1>4. CASE c = "having"
  <2>1. Place("select", "having") = 5 /\ Order["select"][5] = "having"
    BY PlaceTable, SelectOrder, Zenon
  <2>2. QED BY <1>4, <2>1, <1>0, PlaceIs, Zenon
<1>5. CASE c = "order by"
  <2>1. Place("select", "order by") = 6 /\ Order["select"][6] = "order by"
    BY PlaceTable, SelectOrder, Zenon
  <2>2. QED BY <1>5, <2>1, <1>0, PlaceIs, Zenon
<1>6. CASE c = "limit"
  <2>1. Place("select", "limit") = 7 /\ Order["select"][7] = "limit"
    BY PlaceTable, SelectOrder, Zenon
  <2>2. QED BY <1>6, <2>1, <1>0, PlaceIs, Zenon
<1>7. CASE c = "offset"
  <2>1. Place("select", "offset") = 8 /\ Order["select"][8] = "offset"
    BY PlaceTable, SelectOrder, Zenon
  <2>2. QED BY <1>7, <2>1, <1>0, PlaceIs, Zenon
<1>8. QED BY <1>1, <1>2, <1>3, <1>4, <1>5, <1>6, <1>7

LEMMA OnlyAt ==
  ASSUME NEW b, NEW c, NEW d, Len(Order[b]) = 3, Place(b, c) = 2, Order[b][2] = c,
         Place(b, d) = 3, Order[b][3] = d, c # d
  PROVE  Placed(b, c) /\ Placed(b, d)
  BY DEF Placed

LEMMA ChangePlaced ==
  Placed("update", "set") /\ Placed("update", "where") /\ Placed("delete", "where")
<1>1. /\ Place("update", "set") = 2 /\ Place("update", "where") = 3
      /\ Place("delete", "where") = 2
  BY PlaceTable
<1>2. /\ Len(Order["update"]) = 3 /\ Order["update"][2] = "set"
      /\ Order["update"][3] = "where" /\ Len(Order["delete"]) = 2
      /\ Order["delete"][2] = "where"
  BY ChangeOrder
<1>3. Placed("update", "set") /\ Placed("update", "where")
  BY <1>1, <1>2, OnlyAt
<1>4. Placed("delete", "where")
  BY <1>1, <1>2 DEF Placed
<1>5. QED BY <1>3, <1>4

\* Each clause a stage offers has its place in the statement.
LEMMA PlacedIs ==
  ASSUME NEW b \in {"select", "update", "delete"}, NEW stage \in Stages[b],
         NEW c \in Offers[stage]
  PROVE  Placed(b, c)
<1>1. CASE b = "select"
  <2>1. c \in {"group by", "order by", "limit", "join", "where", "having", "offset"}
    BY <1>1, StagesTable, OffersTable
  <2>2. Place("select", c) \in 2..8 /\ Order["select"][Place("select", c)] = c
    BY <2>1, SelectPlaced
  <2>3. ASSUME NEW j \in 2..8, j # Place("select", c) PROVE Order["select"][j] # c
    <3>1. j = 2 \/ j = 3 \/ j = 4 \/ j = 5 \/ j = 6 \/ j = 7 \/ j = 8
      OBVIOUS
    <3>2. Place("select", Order["select"][j]) = j
      BY <3>1, PlaceTable, SelectOrder
    <3>3. QED BY <2>3, <3>2
  <2>4. QED BY <1>1, <2>2, <2>3, SelectOrder DEF Placed
<1>2. CASE b = "update"
  <2>1. c \in {"set", "where"}
    BY <1>2, StagesTable, OffersTable
  <2>2. QED BY <1>2, <2>1, ChangePlaced
<1>3. CASE b = "delete"
  <2>1. c = "where"
    BY <1>3, StagesTable, OffersTable
  <2>2. QED BY <1>3, <2>1, ChangePlaced
<1>4. QED BY <1>1, <1>2, <1>3

\* What a stage returns belongs to the same builder.
LEMMA StagesClosed ==
  ASSUME NEW b \in DOMAIN Roots, NEW stage \in Stages[b], NEW c \in Offers[stage]
  PROVE  Returned(stage, c) \in Stages[b] /\ stage \in DOMAIN Offers /\ b # "none" /\ c \in Clauses
<1>1. b \in {"select", "update", "delete", "none"}
  BY StagesTable
<1>2. CASE b = "select"
  <2>1. /\ stage \in {"select", "join", "where", "groupby", "having", "orderby", "limit", "offset"}
        /\ c \in {"group by", "order by", "limit", "join", "where", "having", "offset"}
    BY <1>2, StagesTable, OffersTable
  <2>2. Returned(stage, c) \in {"groupby", "orderby", "limit", "join", "where", "having", "offset"}
    BY <2>1 DEF Returned
  <2>3. stage \in DOMAIN Offers /\ c \in Clauses
    BY <2>1 DEF Offers, Clauses
  <2>4. QED BY <1>2, <2>2, <2>3, StagesTable
<1>3. CASE b = "update"
  <2>1. stage \in {"update", "set"} /\ c \in {"set", "where"} /\ (stage = "update" => c = "set")
    BY <1>3, StagesTable, OffersTable
  <2>2. Returned(stage, c) \in {"set", "update_where"}
    BY <2>1 DEF Returned
  <2>3. stage \in DOMAIN Offers /\ c \in Clauses
    BY <2>1 DEF Offers, Clauses
  <2>4. QED BY <1>3, <2>2, <2>3, StagesTable
<1>4. CASE b = "delete"
  <2>1. stage = "delete" /\ c = "where"
    BY <1>4, StagesTable, OffersTable
  <2>2. Returned(stage, c) = "delete_where"
    BY <2>1 DEF Returned
  <2>3. stage \in DOMAIN Offers /\ c \in Clauses
    BY <2>1 DEF Offers, Clauses
  <2>4. QED BY <1>4, <2>2, <2>3, StagesTable
<1>5. CASE b = "none"
  BY <1>5, StagesTable
<1>6. QED BY <1>1, <1>2, <1>3, <1>4, <1>5

LEMMA IsBehind ==
  ASSUME NEW b, NEW c, NEW d, NEW stage, NEW m \in Nat, NEW n \in Nat, Place(b, c) = m,
         Place(b, d) = n, n > m
  PROVE  Behind(b, c, d, stage)
  BY DEF Behind

LEMMA BehindIs ==
  /\ \A d \in {"group by", "order by", "limit", "where"} : Behind("select", "join", d, "join")
  /\ Behind("select", "join", "join", "join")
  /\ \A d \in {"group by", "order by", "limit"} : Behind("select", "where", d, "where")
  /\ \A d \in {"having", "order by"} : Behind("select", "group by", d, "groupby")
  /\ Behind("select", "having", "order by", "having")
  /\ Behind("select", "order by", "limit", "orderby")
  /\ Behind("select", "limit", "offset", "limit")
  /\ Behind("update", "set", "set", "set") /\ Behind("update", "set", "where", "set")
<1>1. /\ Place("select", "join") = 2 /\ Place("select", "where") = 3
      /\ Place("select", "group by") = 4 /\ Place("select", "having") = 5
      /\ Place("select", "order by") = 6 /\ Place("select", "limit") = 7
      /\ Place("select", "offset") = 8 /\ Place("update", "set") = 2
      /\ Place("update", "where") = 3
  BY PlaceTable, Zenon
<1>9. /\ 2 \in Nat /\ 3 \in Nat /\ 4 \in Nat /\ 5 \in Nat /\ 6 \in Nat /\ 7 \in Nat /\ 8 \in Nat
      /\ 3 > 2 /\ 4 > 2 /\ 6 > 2 /\ 7 > 2 /\ 4 > 3 /\ 6 > 3 /\ 7 > 3 /\ 5 > 4 /\ 6 > 4
      /\ 6 > 5 /\ 7 > 6 /\ 8 > 7
  OBVIOUS
<1>2. Appends("join", "join") /\ Appends("set", "set")
  BY DEF Appends
<1>3. ASSUME NEW d \in {"group by", "order by", "limit", "where"}
      PROVE  Behind("select", "join", d, "join")
  BY <1>1, <1>9, IsBehind, Zenon
<1>4. ASSUME NEW d \in {"group by", "order by", "limit"}
      PROVE  Behind("select", "where", d, "where")
  BY <1>1, <1>9, IsBehind, Zenon
<1>5. ASSUME NEW d \in {"having", "order by"} PROVE Behind("select", "group by", d, "groupby")
  BY <1>1, <1>9, IsBehind, Zenon
<1>6. /\ Behind("select", "having", "order by", "having")
      /\ Behind("select", "order by", "limit", "orderby")
      /\ Behind("select", "limit", "offset", "limit")
      /\ Behind("update", "set", "where", "set")
  BY <1>1, <1>9, IsBehind, Zenon
<1>7. Behind("select", "join", "join", "join") /\ Behind("update", "set", "set", "set")
  BY <1>2 DEF Behind
<1>8. QED BY <1>3, <1>4, <1>5, <1>6, <1>7

\* A stage offers only clauses that come behind the one that returned it, or add to it.
LEMMA PlacesGrow ==
  ASSUME NEW b \in {"select", "update", "delete"}, NEW s \in Stages[b], NEW c \in Offers[s],
         NEW d \in Offers[Returned(s, c)]
  PROVE  Behind(b, c, d, Returned(s, c))
<1>1. CASE b = "select"
  <2>1. s \in {"select", "join", "where", "groupby", "having", "orderby", "limit", "offset"}
    BY <1>1, StagesTable
  <2>2. c \in {"group by", "order by", "limit", "join", "where", "having", "offset"}
    BY <2>1, OffersTable
  <2>3. CASE c = "join"
    <3>1. Returned(s, c) = "join"
      BY <2>1, <2>3 DEF Returned
    <3>2. d \in {"group by", "order by", "limit", "join", "where"}
      BY <3>1, OffersTable
    <3>3. QED BY <1>1, <2>3, <3>1, <3>2, BehindIs
  <2>4. CASE c = "where"
    <3>1. Returned(s, c) = "where"
      BY <2>1, <2>4 DEF Returned
    <3>2. d \in {"group by", "order by", "limit"}
      BY <3>1, OffersTable
    <3>3. QED BY <1>1, <2>4, <3>1, <3>2, BehindIs
  <2>5. CASE c = "group by"
    <3>1. Returned(s, c) = "groupby"
      BY <2>1, <2>5 DEF Returned
    <3>2. d \in {"having", "order by"}
      BY <3>1, OffersTable
    <3>3. QED BY <1>1, <2>5, <3>1, <3>2, BehindIs
  <2>6. CASE c = "having"
    <3>1. Returned(s, c) = "having"
      BY <2>1, <2>6 DEF Returned
    <3>2. d \in {"order by"}
      BY <3>1, OffersTable
    <3>3. QED BY <1>1, <2>6, <3>1, <3>2, BehindIs
  <2>7. CASE c = "order by"
    <3>1. Returned(s, c) = "orderby"
      BY <2>1, <2>7 DEF Returned
    <3>2. d \in {"limit"}
      BY <3>1, OffersTable
    <3>3. QED BY <1>1, <2>7, <3>1, <3>2, BehindIs
  <2>8. CASE c = "limit"
    <3>1. Returned(s, c) = "limit"
      BY <2>1, <2>8 DEF Returned
    <3>2. d \in {"offset"}
      BY <3>1, OffersTable
    <3>3. QED BY <1>1, <2>8, <3>1, <3>2, BehindIs
  <2>9. CASE c = "offset"
    <3>1. Returned(s, c) = "offset"
      BY <2>1, <2>9 DEF Returned
    <3>2. d \in {}
      BY <3>1, OffersTable
    <3>3. QED BY <1>1, <2>9, <3>1, <3>2, BehindIs
  <2>10. QED BY <2>2, <2>3, <2>4, <2>5, <2>6, <2>7, <2>8, <2>9
<1>2. CASE b = "update"
  <2>1. s \in {"update", "set"} /\ c \in {"set", "where"} /\ (s = "update" => c = "set")
    BY <1>2, StagesTable, OffersTable
  <2>2. CASE c = "set"
    <3>1. Returned(s, c) = "set"
      BY <2>1, <2>2 DEF Returned
    <3>2. d \in {"set", "where"}
      BY <3>1, OffersTable
    <3>3. QED BY <1>2, <2>2, <3>1, <3>2, BehindIs
  <2>3. CASE c = "where"
    <3>1. Returned(s, c) = "update_where"
      BY <2>1, <2>3 DEF Returned
    <3>2. QED BY <3>1, OffersTable
  <2>4. QED BY <2>1, <2>2, <2>3
<1>3. CASE b = "delete"
  <2>1. s = "delete" /\ c = "where"
    BY <1>3, StagesTable, OffersTable
  <2>2. Returned(s, c) = "delete_where"
    BY <2>1 DEF Returned
  <2>3. QED BY <2>2, OffersTable
<1>4. QED BY <1>1, <1>2, <1>3

-----------------------------------------------------------------------------
(* What the calls of a builder write                                       *)

LEMMA SteadyIsLoose ==
  ASSUME NEW K, Steady(K)
  PROVE  Loose(K)
  BY DEF Steady, Loose

LEMMA OneLoose ==
  ASSUME NEW x
  PROVE  Loose(<<x>>) /\ <<x>> # <<>> /\ (x.kind = "word" => Steady(<<x>>))
<1>1. PICK K : K = <<x>>
  OBVIOUS
<1>2. DOMAIN K = {1} /\ K[1] = x /\ K # <<>>
  BY <1>1
<1>3. QED BY <1>1, <1>2 DEF Loose, Steady

LEMMA TwoSteady ==
  ASSUME NEW x, NEW y, x.kind = "word"
  PROVE  Steady(<<x, y>>) /\ <<x, y>> # <<>>
<1>1. PICK K : K = <<x, y>>
  OBVIOUS
<1>2. DOMAIN K = {1, 2} /\ K[1] = x /\ K[2] = y /\ K # <<>>
  BY <1>1
<1>3. QED BY <1>1, <1>2 DEF Steady

LEMMA FiveSteady ==
  ASSUME NEW x, NEW y, NEW z, NEW u, NEW w,
         x.kind = "word", z.kind = "word", u.kind = "word"
  PROVE  Steady(<<x, y, z, u, w>>) /\ <<x, y, z, u, w>> # <<>>
<1>1. PICK K : K = <<x, y, z, u, w>>
  OBVIOUS
<1>2. /\ DOMAIN K = {1, 2, 3, 4, 5} /\ K # <<>>
      /\ K[1] = x /\ K[2] = y /\ K[3] = z /\ K[4] = u /\ K[5] = w
  BY <1>1
<1>3. QED BY <1>1, <1>2 DEF Steady

\* Operands come after words; a condition begins with one.
LEMMA OperandsAre ==
  ASSUME NEW clause, NEW operands \in Operands(clause)
  PROVE  /\ Loose(operands) /\ operands # <<>>
         /\ clause = "where" => Steady(operands)
<1>1. \A c : Plain(c).kind = "word"
  BY DEF Plain, Word, Lexeme
<1>2. ASSUME operands \in Conditions PROVE Steady(operands) /\ operands # <<>>
  <2>1. CASE \E operand \in {Mark} \cup {Value(v) : v \in Values} :
               operands = <<Plain("a"), operand>>
    BY <1>1, <2>1, TwoSteady
  <2>2. CASE \E v \in Values :
               operands = <<Plain("a"), Value(v), Plain("and"), Plain("b"), Mark>>
    BY <1>1, <2>2, FiveSteady
  <2>3. QED BY <1>2, <2>1, <2>2 DEF Conditions
<1>3. CASE clause \in {"where", "having"}
  BY <1>2, <1>3, SteadyIsLoose DEF Operands
<1>4. CASE clause \in {"limit", "offset"}
  <2>1. operands = <<Plain("1")>> \/ operands = <<Mark>>
    BY <1>4 DEF Operands
  <2>2. QED BY <1>4, <2>1, OneLoose
<1>5. CASE clause = "set"
  <2>1. operands = <<Plain("a"), Plain("NULL")>>
          \/ \E v \in Values : operands = <<Plain("a"), Value(v)>>
    BY <1>5 DEF Operands
  <2>2. QED BY <1>1, <1>5, <2>1, TwoSteady, SteadyIsLoose
<1>6. CASE clause \notin {"where", "having", "limit", "offset", "set"}
  <2>1. operands = <<Plain("a")>>
    BY <1>6 DEF Operands
  <2>2. QED BY <1>6, <2>1, OneLoose
<1>7. QED BY <1>3, <1>4, <1>5, <1>6

LEMMA LooseHeaded ==
  ASSUME NEW X, NEW w \in X, w.kind = "word", NEW K \in Seq(X), Loose(K)
  PROVE  Steady(<<w>> \o K)
<1>1. PICK L : L = <<w>> \o K
  OBVIOUS
<1>2. L \in Seq(X) /\ Heads(L, w, K)
  BY <1>1, HeadIs
<1>3. /\ Len(K) \in Nat /\ DOMAIN K = 1..Len(K) /\ DOMAIN L = 1..Len(K) + 1
      /\ L[1] = w /\ \A i \in 1..Len(K) : L[i + 1] = K[i]
  BY <1>2, LenProperties DEF Heads
<1>4. ASSUME NEW i \in DOMAIN L, L[i].kind # "word" PROVE i > 1 /\ L[i - 1].kind = "word"
  <2>1. i # 1
    BY <1>3, <1>4
  <2>2. PICK j \in 1..Len(K) : i = j + 1 /\ i - 1 = j
    BY <1>3, <2>1
  <2>3. K[j].kind # "word"
    BY <1>3, <1>4, <2>2
  <2>4. j = 1 \/ K[j - 1].kind = "word"
    BY <1>3, <2>3 DEF Loose
  <2>5. CASE j = 1
    BY <1>3, <2>2, <2>5
  <2>6. CASE j # 1
    <3>1. PICK k \in 1..Len(K) : k = j - 1 /\ k + 1 = j
      BY <1>3, <2>2, <2>6
    <3>2. L[j].kind = "word"
      BY <1>3, <2>4, <2>6, <3>1
    <3>3. QED BY <2>2, <3>2, <2>6
  <2>7. QED BY <2>5, <2>6
<1>5. QED BY <1>1, <1>4 DEF Steady

LEMMA KeywordIs ==
  ASSUME NEW stage, NEW clause \in Clauses
  PROVE  Keyword(stage, clause) \in Words
<1>1. "," \in Words
  BY DEF Words
<1>2. QED BY <1>1, WordsIs DEF Keyword

LEMMA WordToken ==
  ASSUME NEW c \in Words, NEW l
  PROVE  Word(c) \in Toks(l) /\ Spelling(l)[Word(c)] = <<c>> /\ Word(c).kind = "word"
  BY WordsIs, WordPiece DEF Toks, Spelling

LEMMA SpellingIs ==
  ASSUME NEW l
  PROVE  Spelling(l) \in [Toks(l) -> Seq(Characters)]
  BY WordsIs, PiecesType DEF Toks, Spelling

LEMMA SegmentIs ==
  ASSUME NEW l, NEW call \in CleanCalls(l), Loose(call.operands)
  PROVE  Segment(call) \in Seq(Toks(l)) /\ Steady(Segment(call))
<1>1. PICK K \in Seq(Toks(l)) : K = call.operands
  BY DEF CleanCalls
<1>2. call.clause \in Clauses
  BY DEF CleanCalls, Call
<1>3. PICK w \in Toks(l) : w = Word(Keyword(call.stage, call.clause)) /\ w.kind = "word"
  BY <1>2, KeywordIs, WordToken
<1>4. <<w>> \o K \in Seq(Toks(l)) /\ Steady(<<w>> \o K)
  BY <1>1, <1>3, HeadIs, LooseHeaded
<1>5. QED BY <1>1, <1>3, <1>4 DEF Segment

LEMMA SpeltOne ==
  ASSUME NEW X, NEW Y, NEW f \in [X -> Seq(Y)], NEW x \in X
  PROVE  Spelt(f, <<x>>) = f[x]
<1>1. PICK e \in Seq(X) : e = <<>>
  BY EmptyIs
<1>2. Spelt(f, Append(e, x)) = Spelt(f, e) \o f[x]
  BY SpeltAppend
<1>3. Append(e, x) = <<x>>
  BY <1>1, OneIsSeq
<1>4. PICK y \in Seq(Y) : y = f[x]
  OBVIOUS
<1>5. <<>> \o y = y
  OBVIOUS
<1>6. Spelt(f, e) = <<>>
  BY <1>1, SpeltEmpty
<1>7. QED BY <1>2, <1>3, <1>4, <1>5, <1>6

LEMMA SegmentTextIs ==
  ASSUME NEW l, NEW call \in CleanCalls(l)
  PROVE  SegmentText(l, call)
<1>1. PICK K \in Seq(Toks(l)) : K = call.operands
  BY DEF CleanCalls
<1>2. call.clause \in Clauses
  BY DEF CleanCalls, Call
<1>3. PICK c \in Words : c = Keyword(call.stage, call.clause)
  BY <1>2, KeywordIs
<1>4. PICK w \in Toks(l) : w = Word(c) /\ Spelling(l)[w] = <<c>>
  BY WordToken
<1>5. PICK h \in Seq(Toks(l)) : h = <<w>>
  BY OneIsSeq
<1>6. PICK f \in [Toks(l) -> Seq(Characters)] : f = Spelling(l)
  BY SpellingIs
<1>7. Splits(Spelt(f, h \o K), Spelt(f, h), Spelt(f, K))
  BY SpeltConcat
<1>8. Spelt(f, h) = <<c>>
  BY <1>4, <1>5, <1>6, SpeltOne
<1>9. QED BY <1>1, <1>3, <1>4, <1>5, <1>6, <1>7, <1>8 DEF SegmentText, Segment, Splits

\* What is written of the operands.
LEMMA OperandsTextIs ==
  ASSUME NEW l, NEW K \in Seq(Toks(l))
  PROVE  /\ OperandsText(K, build_where) = Spelt(Spelling(l), K)
         /\ OperandsText(K, append_set) = Spelt(Spelling(l), K)
<1>1. \A k \in Toks(l) : Spelling(l)[k] = OperandText(k, build_where)
  BY DEF Spelling, Toks, Pieces
<1>2. \A k \in Toks(l) : OperandText(k, append_set) = OperandText(k, build_where)
  <2>1. SUFFICES ASSUME NEW k \in Toks(l)
                 PROVE  OperandText(k, append_set) = OperandText(k, build_where)
    OBVIOUS
  <2>2. \/ k = Mark
        \/ \E c \in Characters \ Special : k = Word(c)
        \/ \E v \in Seq(Legible(Characters, l)) : v # MarkText /\ k = Value(v)
    BY <2>1, TokenKinds DEF Toks
  <2>3. CASE k = Mark
    BY <2>3 DEF OperandText, Mark, Lexeme
  <2>4. CASE \E c \in Characters \ Special : k = Word(c)
    BY <2>4 DEF OperandText, Word, Lexeme
  <2>5. CASE \E v \in Seq(Legible(Characters, l)) : v # MarkText /\ k = Value(v)
    BY <2>5 DEF OperandText, Value, Lexeme, build_where, append_set
  <2>6. QED BY <2>2, <2>3, <2>4, <2>5
<1>3. \A i \in DOMAIN K : K[i] \in Toks(l)
  OBVIOUS
<1>4. [i \in DOMAIN K |-> OperandText(K[i], build_where)] = [i \in DOMAIN K |-> Spelling(l)[K[i]]]
  BY <1>1, <1>3
<1>5. [i \in DOMAIN K |-> OperandText(K[i], append_set)] = [i \in DOMAIN K |-> Spelling(l)[K[i]]]
  BY <1>1, <1>2, <1>3
<1>6. QED BY <1>4, <1>5 DEF OperandsText, Spelt

\* What a call writes into the context.
LEMMA ClauseTextIs ==
  ASSUME NEW l, NEW call \in CleanCalls(l)
  PROVE  ClauseText(call.stage, call.clause, call.operands) =
           IF call.clause = "where" THEN Spelt(Spelling(l), call.operands)
           ELSE Spelt(Spelling(l), Segment(call))
<1>1. PICK K \in Seq(Toks(l)) : K = call.operands
  BY DEF CleanCalls
<1>2. /\ OperandsText(call.operands, build_where) = Spelt(Spelling(l), call.operands)
      /\ OperandsText(call.operands, append_set) = Spelt(Spelling(l), call.operands)
  BY <1>1, OperandsTextIs
<1>3. SegmentText(l, call)
  BY SegmentTextIs
<1>4. CASE call.clause = "where"
  BY <1>2, <1>4 DEF ClauseText
<1>5. CASE call.clause = "set"
  BY <1>2, <1>3, <1>5 DEF ClauseText, SegmentText
<1>6. CASE call.clause \notin {"where", "set"}
  BY <1>2, <1>3, <1>6 DEF ClauseText, SegmentText
<1>7. QED BY <1>4, <1>5, <1>6

LEMMA SpeltSomething ==
  ASSUME NEW l, NEW K \in Seq(Toks(l)), Steady(K), K # <<>>
  PROVE  Spelt(Spelling(l), K) # <<>>
<1>1. Says(Spelt(Spelling(l), K), l) = K
  BY WordsIs, TokensSaid DEF Toks, Spelling
<1>2. PICK e \in Seq(Toks(l)) : e = <<>>
  BY EmptyIs
<1>3. Steady(e)
  BY <1>2 DEF Steady
<1>4. Says(Spelt(Spelling(l), e), l) = e
  BY <1>3, WordsIs, TokensSaid DEF Toks, Spelling
<1>5. Spelt(Spelling(l), e) = <<>>
  BY <1>2, SpeltEmpty
<1>6. QED BY <1>1, <1>2, <1>4, <1>5

LEMMA ChangedIs ==
  ASSUME NEW c, DOMAIN c = Clauses, NEW call, call.clause \in Clauses,
         NEW t, t = ClauseText(call.stage, call.clause, call.operands)
  PROVE  /\ DOMAIN Changed(c, call) = Clauses
         /\ Appends(call.stage, call.clause) =>
              Splits(Changed(c, call)[call.clause], c[call.clause], t)
         /\ ~Appends(call.stage, call.clause) => Changed(c, call)[call.clause] = t
         /\ \A w \in Clauses : w # call.clause => Changed(c, call)[w] = c[w]
  BY DEF Changed, Splits

LEMMA RetoldIs ==
  ASSUME NEW l, NEW tok \in [Clauses -> Seq(Toks(l))], NEW call, call.clause \in Clauses,
         NEW S \in Seq(Toks(l)), S = Segment(call)
  PROVE  /\ Retold(tok, call) \in [Clauses -> Seq(Toks(l))]
         /\ Appends(call.stage, call.clause) =>
              Splits(Retold(tok, call)[call.clause], tok[call.clause], S)
         /\ ~Appends(call.stage, call.clause) => Retold(tok, call)[call.clause] = S
         /\ \A w \in Clauses : w # call.clause => Retold(tok, call)[w] = tok[w]
<1>1. PICK r : r = IF Appends(call.stage, call.clause) THEN tok[call.clause] \o S ELSE S
  OBVIOUS
<1>2. r \in Seq(Toks(l))
  BY <1>1
<1>3. Retold(tok, call) = [tok EXCEPT ![call.clause] = r]
  BY <1>1 DEF Retold
<1>4. Retold(tok, call)[call.clause] = r
  BY <1>3
<1>5. Retold(tok, call) \in [Clauses -> Seq(Toks(l))]
  BY <1>2, <1>3
<1>6. \A w \in Clauses : w # call.clause => Retold(tok, call)[w] = tok[w]
  BY <1>3
<1>7. QED BY <1>1, <1>4, <1>5, <1>6 DEF Splits

\* The text of a clause goes on with a segment.
LEMMA TextGrows ==
  ASSUME NEW l, NEW c, NEW w \in Clauses, w # "where", NEW K \in Seq(Toks(l)), TextOf(c, w, K, l),
         NEW S \in Seq(Toks(l)), Steady(S), NEW L, Splits(L, K, S),
         NEW d, d[w] = c[w] \o Spelt(Spelling(l), S)
  PROVE  TextOf(d, w, L, l)
<1>1. PICK f \in [Toks(l) -> Seq(Characters)] : f = Spelling(l)
  BY SpellingIs
<1>2. Splits(Spelt(f, K \o S), Spelt(f, K), Spelt(f, S))
  BY SpeltConcat
<1>3. Spelt(f, L) = Spelt(f, K) \o Spelt(f, S)
  BY <1>2 DEF Splits
<1>4. c[w] = Spelt(f, K) /\ Steady(K)
  BY <1>1 DEF TextOf, FullText
<1>5. Steady(L)
  BY <1>4, SteadyConcat DEF Splits
<1>6. d[w] = Spelt(f, L)
  BY <1>1, <1>3, <1>4
<1>7. QED BY <1>1, <1>5, <1>6 DEF TextOf, FullText

\* The text of a condition.
LEMMA WhereGrows ==
  ASSUME NEW l, NEW call \in CleanCalls(l), Shaped(call), call.clause = "where",
         NEW d, d["where"] = Spelt(Spelling(l), call.operands)
  PROVE  TextOf(d, "where", Segment(call), l)
<1>1. PICK K \in Seq(Toks(l)) : K = call.operands
  BY DEF CleanCalls
<1>2. d["where"] # <<>>
  BY <1>1, SpeltSomething DEF Shaped
<1>3. WhereText(d) = <<"where">> \o Spelt(Spelling(l), call.operands)
  BY <1>2 DEF WhereText
<1>4. Keyword(call.stage, call.clause) = "where"
  BY DEF Keyword
<1>5. Spelt(Spelling(l), Segment(call)) = <<"where">> \o Spelt(Spelling(l), call.operands)
  BY <1>4, SegmentTextIs DEF SegmentText
<1>6. Steady(Segment(call))
  BY SegmentIs DEF Shaped
<1>7. QED BY <1>3, <1>5, <1>6 DEF TextOf, FullText

\* A call changes the text of its clause and what the clause says alike.
LEMMA WrittenGrows ==
  ASSUME NEW l, NEW c, DOMAIN c = Clauses, NEW made \in Seq(CleanCalls(l)), NEW tok,
         Written(c, made, tok, l), NEW call \in CleanCalls(l), Shaped(call)
  PROVE  Written(Changed(c, call), Append(made, call), Retold(tok, call), l)
<1>1. tok \in [Clauses -> Seq(Toks(l))] /\ \A w \in Clauses : TextOf(c, w, tok[w], l)
  BY DEF Written
<1>2. call.clause \in Clauses
  BY DEF CleanCalls, Call
<1>3. PICK S \in Seq(Toks(l)) : S = Segment(call) /\ Steady(S)
  BY SegmentIs DEF Shaped
<1>4. PICK t : t = ClauseText(call.stage, call.clause, call.operands)
  OBVIOUS
<1>5. t = IF call.clause = "where" THEN Spelt(Spelling(l), call.operands)
          ELSE Spelt(Spelling(l), S)
  BY <1>3, <1>4, ClauseTextIs
<1>6. PICK d : d = Changed(c, call)
  OBVIOUS
<1>7. /\ Appends(call.stage, call.clause) => Splits(d[call.clause], c[call.clause], t)
      /\ ~Appends(call.stage, call.clause) => d[call.clause] = t
      /\ \A w \in Clauses : w # call.clause => d[w] = c[w]
  BY <1>2, <1>4, <1>6, ChangedIs
<1>8. PICK u : u = Retold(tok, call)
  OBVIOUS
<1>9. /\ u \in [Clauses -> Seq(Toks(l))]
      /\ Appends(call.stage, call.clause) => Splits(u[call.clause], tok[call.clause], S)
      /\ ~Appends(call.stage, call.clause) => u[call.clause] = S
      /\ \A w \in Clauses : w # call.clause => u[w] = tok[w]
  BY <1>1, <1>2, <1>3, <1>8, RetoldIs
<1>10. "where" \in Clauses /\ ~Appends(call.stage, "where")
  BY DEF Clauses, Appends
<1>11. ASSUME NEW w \in Clauses PROVE TextOf(d, w, u[w], l)
  <2>1. CASE w # call.clause
    <3>1. d[w] = c[w] /\ u[w] = tok[w] /\ TextOf(c, w, tok[w], l)
      BY <1>1, <1>7, <1>9, <2>1
    <3>2. QED BY <3>1 DEF TextOf, FullText, WhereText
  <2>2. CASE w = call.clause /\ w = "where"
    BY <1>3, <1>5, <1>7, <1>9, <1>10, <2>2, WhereGrows
  <2>3. CASE w = call.clause /\ w # "where" /\ Appends(call.stage, w)
    <3>1. d[w] = c[w] \o Spelt(Spelling(l), S) /\ Splits(u[w], tok[w], S)
      BY <1>5, <1>7, <1>9, <2>3 DEF Splits
    <3>2. TextOf(c, w, tok[w], l) /\ tok[w] \in Seq(Toks(l))
      BY <1>1
    <3>3. QED BY <1>3, <2>3, <3>1, <3>2, TextGrows
  <2>4. CASE w = call.clause /\ w # "where" /\ ~Appends(call.stage, w)
    <3>1. d[w] = Spelt(Spelling(l), S) /\ u[w] = S
      BY <1>5, <1>7, <1>9, <2>4
    <3>2. QED BY <1>3, <2>4, <3>1 DEF TextOf, FullText
  <2>5. QED BY <2>1, <2>2, <2>3, <2>4
<1>12. PICK more : more = Append(made, call)
  OBVIOUS
<1>13. /\ Len(made) \in Nat /\ DOMAIN made = 1..Len(made) /\ DOMAIN more = 1..Len(made) + 1
       /\ more[Len(made) + 1] = call /\ \A i \in 1..Len(made) : more[i] = made[i]
  BY <1>12
<1>14. ASSUME NEW i, LastWhere(more, i) PROVE u["where"] = <<Word("where")>> \o more[i].operands
  <2>1. CASE call.clause = "where"
    <3>1. i = Len(made) + 1
      BY <1>13, <1>14, <2>1 DEF LastWhere
    <3>2. u["where"] = S
      BY <1>9, <1>10, <2>1
    <3>3. Keyword(call.stage, "where") = "where"
      BY DEF Keyword
    <3>4. QED BY <1>3, <1>13, <2>1, <3>1, <3>2, <3>3 DEF Segment
  <2>2. CASE call.clause # "where"
    <3>1. i \in 1..Len(made)
      BY <1>13, <1>14, <2>2 DEF LastWhere
    <3>2. LastWhere(made, i)
      BY <1>13, <1>14, <3>1 DEF LastWhere
    <3>3. u["where"] = tok["where"]
      BY <1>9, <1>10, <2>2
    <3>4. QED BY <1>13, <3>1, <3>2, <3>3 DEF Written
  <2>3. QED BY <2>1, <2>2
<1>15. QED BY <1>6, <1>8, <1>9, <1>11, <1>12, <1>14 DEF Written

-----------------------------------------------------------------------------
(* Chains that are written in one go                                       *)

LEMMA SegmentType ==
  ASSUME NEW l, NEW call \in CleanCalls(l)
  PROVE  Segment(call) \in Seq(Toks(l))
<1>1. PICK K \in Seq(Toks(l)) : K = call.operands
  BY DEF CleanCalls
<1>2. call.clause \in Clauses
  BY DEF CleanCalls, Call
<1>3. PICK w \in Toks(l) : w = Word(Keyword(call.stage, call.clause))
  BY <1>2, KeywordIs, WordToken
<1>4. <<w>> \o K \in Seq(Toks(l))
  BY HeadIs
<1>5. QED BY <1>1, <1>3, <1>4 DEF Segment

LEMMA SegmentsIs ==
  ASSUME NEW l
  PROVE  /\ Segments(l) \in [CleanCalls(l) -> Seq(Toks(l))]
         /\ \A call \in CleanCalls(l) : Segments(l)[call] = Segment(call)
  BY SegmentType DEF Segments

LEMMA BuilderToken ==
  ASSUME NEW b \in Builders, NEW l
  PROVE  /\ Word(b) \in Toks(l) /\ Word(b).kind = "word" /\ <<Word(b)>> \in Seq(Toks(l))
         /\ Spelling(l)[Word(b)] = <<b>>
<1>1. b \in Words
  BY WordsIs DEF Builders
<1>2. QED BY <1>1, WordToken, OneIsSeq

\* What the program wrote.
LEMMA MeantIs ==
  ASSUME NEW l, NEW made \in Seq(CleanCalls(l))
  PROVE  Meant(made) = MeantBy(made, builder, l)
<1>1. \A i \in DOMAIN made : made[i] \in CleanCalls(l)
  OBVIOUS
<1>2. \A i \in DOMAIN made :
        Segments(l)[made[i]] =
          <<Plain(Keyword(made[i].stage, made[i].clause))>> \o made[i].operands
  BY <1>1, SegmentsIs DEF Segment, Plain
<1>3. [i \in DOMAIN made |-> <<Plain(Keyword(made[i].stage, made[i].clause))>> \o made[i].operands]
        = [i \in DOMAIN made |-> Segments(l)[made[i]]]
  BY <1>2
<1>4. QED BY <1>3 DEF Meant, MeantBy, Spelt, Plain

LEMMA MeantNothing ==
  ASSUME NEW b \in Builders, NEW l
  PROVE  MeantBy(<<>>, b, l) = <<Word(b)>>
<1>1. Spelt(Segments(l), <<>>) = <<>>
  BY SpeltEmpty
<1>2. PICK h \in Seq(Toks(l)) : h = <<Word(b)>>
  BY BuilderToken
<1>3. h \o <<>> = h
  OBVIOUS
<1>4. QED BY <1>1, <1>2, <1>3 DEF MeantBy

LEMMA MeantType ==
  ASSUME NEW b \in Builders, NEW l, NEW made \in Seq(CleanCalls(l))
  PROVE  MeantBy(made, b, l) \in Seq(Toks(l))
<1>1. PICK T \in Seq(Toks(l)) : T = Spelt(Segments(l), made)
  BY SegmentsIs, SpeltType
<1>2. PICK h \in Seq(Toks(l)) : h = <<Word(b)>>
  BY BuilderToken
<1>3. h \o T \in Seq(Toks(l))
  OBVIOUS
<1>4. QED BY <1>1, <1>2, <1>3 DEF MeantBy

\* A call adds its segment to what the calls mean.
LEMMA MeantGrows ==
  ASSUME NEW b \in Builders, NEW l, NEW made \in Seq(CleanCalls(l)), NEW call \in CleanCalls(l)
  PROVE  Splits(MeantBy(Append(made, call), b, l), MeantBy(made, b, l), Segment(call))
<1>1. PICK f \in [CleanCalls(l) -> Seq(Toks(l))] : f = Segments(l)
  BY SegmentsIs
<1>2. f[call] = Segment(call)
  BY <1>1, SegmentsIs
<1>3. PICK T \in Seq(Toks(l)) : T = Spelt(f, made)
  BY SpeltType
<1>4. PICK S \in Seq(Toks(l)) : S = Segment(call)
  BY SegmentType
<1>5. PICK h \in Seq(Toks(l)) : h = <<Word(b)>>
  BY BuilderToken
<1>6. Spelt(f, Append(made, call)) = Spelt(f, made) \o f[call]
  BY SpeltAppend
<1>7. Associates(h, T, S)
  BY AssociatesIs
<1>8. QED BY <1>1, <1>2, <1>3, <1>4, <1>5, <1>6, <1>7 DEF Splits, MeantBy, Associates

LEMMA PartsType ==
  ASSUME NEW b \in Builders, NEW l, NEW tok \in [Clauses -> Seq(Toks(l))]
  PROVE  /\ PartsOf(tok, b) \in Seq(Seq(Toks(l))) /\ Len(PartsOf(tok, b)) = Len(Order[b])
         /\ Len(Order[b]) \in 2..8
         /\ PartsOf(tok, b)[1] = <<Word(b)>>
         /\ \A i \in 2..Len(Order[b]) : PartsOf(tok, b)[i] = tok[Order[b][i]]
<1>1. PICK N \in 2..8 : N = Len(Order[b]) /\ \A j \in 2..N : Order[b][j] \in Clauses
  BY OrderIs DEF Builders
<1>2. PICK h \in Seq(Toks(l)) : h = <<Word(b)>>
  BY BuilderToken
<1>3. PICK P : P = PartsOf(tok, b)
  OBVIOUS
<1>4. P = [i \in 1..N |-> IF i = 1 THEN h ELSE tok[Order[b][i]]]
  BY <1>1, <1>2, <1>3 DEF PartsOf
<1>5. \A i \in 1..N : i = 1 \/ i \in 2..N
  OBVIOUS
<1>6. \A i \in 1..N : P[i] \in Seq(Toks(l))
  BY <1>1, <1>4, <1>5
<1>7. P \in Seq(Seq(Toks(l))) /\ Len(P) = N
  BY <1>4, <1>6
<1>8. 1 \in 1..N /\ \A i \in 2..N : i \in 1..N /\ i # 1
  OBVIOUS
<1>9. P[1] = h /\ \A i \in 2..N : P[i] = tok[Order[b][i]]
  BY <1>4, <1>8
<1>10. QED BY <1>1, <1>2, <1>3, <1>7, <1>9

\* Behind the place of the clause that is called nothing is written, and at its
\* place only if it adds to it.
LEMMA NothingBehind ==
  ASSUME NEW b \in Builders, NEW l, NEW made \in Seq(CleanCalls(l)), NEW tok,
         Ordered(made, tok, b, l), NEW call, Legal(call, b), GoesOn(made, call, b)
  PROVE  \A i \in 2..Len(Order[b]) :
           i > Place(b, call.clause) \/ (i = Place(b, call.clause)
                                          /\ ~Appends(call.stage, call.clause))
             => tok[Order[b][i]] = <<>>
<1>1. PICK N \in 2..8 : N = Len(Order[b]) /\ \A j \in 2..N : Order[b][j] \in Clauses
  BY OrderIs DEF Builders
<1>2. PICK k \in 2..N : k = Place(b, call.clause)
  BY <1>1, PlacedIs DEF Legal, Placed, Builders
<1>3. CASE made = <<>>
  BY <1>1, <1>3 DEF Ordered
<1>4. CASE made # <<>>
  <2>1. PICK last : last = made[Len(made)]
    OBVIOUS
  <2>2. Legal(last, b) /\ call.stage = Returned(last.stage, last.clause)
    BY <1>4, <2>1 DEF GoesOn
  <2>3. PICK m \in 2..N : m = Place(b, last.clause)
    BY <1>1, <2>2, PlacedIs DEF Legal, Placed, Builders
  <2>4. Behind(b, last.clause, call.clause, call.stage)
    BY <2>2, PlacesGrow DEF Legal, Builders
  <2>5. k > m \/ (k = m /\ Appends(call.stage, call.clause))
    BY <1>2, <2>3, <2>4 DEF Behind
  <2>6. \A i \in 2..N : i > m => tok[Order[b][i]] = <<>>
    BY <1>1, <1>4, <2>1, <2>3 DEF Ordered
  <2>7. ASSUME NEW i \in 2..N, i > k \/ (i = k /\ ~Appends(call.stage, call.clause))
        PROVE  i > m
    BY <2>5, <2>7
  <2>8. QED BY <1>1, <1>2, <2>6, <2>7
<1>5. QED BY <1>3, <1>4

\* In a chain that is written in one go, the clauses stand in the order of the calls.
LEMMA OrderedGrows ==
  ASSUME NEW b \in Builders, NEW l, NEW made \in Seq(CleanCalls(l)),
         NEW tok \in [Clauses -> Seq(Toks(l))], Ordered(made, tok, b, l),
         NEW call \in CleanCalls(l), Legal(call, b), GoesOn(made, call, b)
  PROVE  Ordered(Append(made, call), Retold(tok, call), b, l)
<1>1. PICK N \in 2..8 : N = Len(Order[b]) /\ \A j \in 2..N : Order[b][j] \in Clauses
  BY OrderIs DEF Builders
<1>2. PICK k \in 2..N : /\ k = Place(b, call.clause) /\ Order[b][k] = call.clause
                        /\ \A j \in 2..N : j # k => Order[b][j] # call.clause
  BY <1>1, PlacedIs DEF Legal, Placed, Builders
<1>3. call.clause \in Clauses
  BY DEF CleanCalls, Call
<1>4. PICK S \in Seq(Toks(l)) : S = Segment(call)
  BY SegmentType
<1>5. PICK u : u = Retold(tok, call)
  OBVIOUS
<1>6. /\ u \in [Clauses -> Seq(Toks(l))]
      /\ Appends(call.stage, call.clause) => Splits(u[call.clause], tok[call.clause], S)
      /\ ~Appends(call.stage, call.clause) => u[call.clause] = S
      /\ \A w \in Clauses : w # call.clause => u[w] = tok[w]
  BY <1>3, <1>4, <1>5, RetoldIs
<1>7. \A i \in 2..N : i > k \/ (i = k /\ ~Appends(call.stage, call.clause))
        => tok[Order[b][i]] = <<>>
  BY <1>1, <1>2, NothingBehind
<1>8. PICK parts \in Seq(Seq(Toks(l))) :
        /\ parts = PartsOf(tok, b) /\ Len(parts) = N
        /\ parts[1] = <<Word(b)>> /\ \A i \in 2..N : parts[i] = tok[Order[b][i]]
  BY <1>1, PartsType
<1>9. PICK more \in Seq(Seq(Toks(l))) :
        /\ more = PartsOf(u, b) /\ Len(more) = N
        /\ more[1] = <<Word(b)>> /\ \A i \in 2..N : more[i] = u[Order[b][i]]
  BY <1>1, <1>6, PartsType
<1>10. more[k] = parts[k] \o S
  <2>1. parts[k] = tok[call.clause] /\ more[k] = u[call.clause]
    BY <1>2, <1>8, <1>9
  <2>2. CASE Appends(call.stage, call.clause)
    BY <1>6, <2>1, <2>2 DEF Splits
  <2>3. CASE ~Appends(call.stage, call.clause)
    <3>1. parts[k] = <<>>
      BY <1>2, <1>7, <2>1, <2>3
    <3>2. <<>> \o S = S
      OBVIOUS
    <3>3. QED BY <1>6, <2>1, <2>3, <3>1, <3>2
  <2>4. QED BY <2>2, <2>3
<1>11. ASSUME NEW i \in 1..N, i # k PROVE more[i] = parts[i]
  <2>1. i = 1 \/ i \in 2..N
    OBVIOUS
  <2>2. QED BY <1>1, <1>2, <1>6, <1>8, <1>9, <1>11, <2>1
<1>12. ASSUME NEW i \in 1..N, i > k PROVE parts[i] = <<>>
  <2>1. i \in 2..N
    BY <1>12
  <2>2. QED BY <1>7, <1>8, <1>12, <2>1
<1>13. Lengthened(more, parts, k, S)
  BY <1>8, <1>9, <1>10, <1>11, <1>12 DEF Lengthened
<1>14. k \in 1..Len(parts)
  BY <1>8
<1>15. Splits(Joined(more), Joined(parts), S)
  BY <1>13, <1>14, JoinedGrows
<1>16. Joined(parts) = MeantBy(made, b, l)
  BY <1>8 DEF Ordered
<1>17. Splits(MeantBy(Append(made, call), b, l), MeantBy(made, b, l), S)
  BY <1>4, MeantGrows
<1>18. Joined(more) = MeantBy(Append(made, call), b, l)
  BY <1>15, <1>16, <1>17 DEF Splits
<1>19. PICK all : Extends(all, made, call)
  BY DEF Extends
<1>20. all # <<>> /\ all[Len(all)] = call
  <2>1. Len(all) = Len(made) + 1 /\ all[Len(made) + 1] = call /\ Len(made) \in Nat
    BY <1>19, ExtendsIs, LenProperties
  <2>2. Len(all) # 0
    BY <2>1
  <2>3. QED BY <2>1, <2>2
<1>21. ASSUME NEW i \in 2..N, i > k PROVE u[Order[b][i]] = <<>>
  <2>1. Order[b][i] \in Clauses /\ Order[b][i] # call.clause /\ tok[Order[b][i]] = <<>>
    BY <1>1, <1>2, <1>7, <1>21
  <2>2. QED BY <1>6, <2>1
<1>22. all = Append(made, call)
  BY <1>19 DEF Extends
<1>23. QED BY <1>1, <1>2, <1>5, <1>6, <1>9, <1>18, <1>20, <1>21, <1>22 DEF Ordered

-----------------------------------------------------------------------------
(* The invariant of the builders                                           *)

LEMMA UntoldWritten ==
  ASSUME NEW l
  PROVE  Written(Emptied, <<>>, Untold, l)
<1>1. PICK e \in Seq(Toks(l)) : e = <<>>
  BY EmptyIs
<1>2. Untold \in [Clauses -> Seq(Toks(l))] /\ \A w \in Clauses : Untold[w] = e
  BY <1>1 DEF Untold
<1>3. Spelt(Spelling(l), e) = <<>> /\ Steady(e)
  BY <1>1, SpeltEmpty DEF Steady
<1>4. \A w \in Clauses : FullText(Emptied, w) = <<>>
  <2>1. "where" \in Clauses
    BY DEF Clauses
  <2>2. \A w \in Clauses : Emptied[w] = <<>>
    BY DEF Emptied
  <2>3. QED BY <2>1, <2>2 DEF FullText, WhereText
<1>5. \A i : ~LastWhere(<<>>, i)
  BY DEF LastWhere
<1>6. QED BY <1>2, <1>3, <1>4, <1>5 DEF Written, TextOf

LEMMA UntoldOrdered ==
  ASSUME NEW b \in Builders, NEW l
  PROVE  Ordered(<<>>, Untold, b, l)
<1>1. PICK e \in Seq(Toks(l)) : e = <<>>
  BY EmptyIs
<1>2. Untold \in [Clauses -> Seq(Toks(l))] /\ \A w \in Clauses : Untold[w] = e
  BY <1>1 DEF Untold
<1>3. PICK N \in 2..8 : N = Len(Order[b]) /\ \A j \in 2..N : Order[b][j] \in Clauses
  BY OrderIs DEF Builders
<1>4. PICK more \in Seq(Seq(Toks(l))) :
        /\ more = PartsOf(Untold, b) /\ Len(more) = N
        /\ more[1] = <<Word(b)>> /\ \A i \in 2..N : more[i] = Untold[Order[b][i]]
  BY <1>2, <1>3, PartsType
<1>5. PICK parts : parts = [i \in 1..N |-> e]
  OBVIOUS
<1>6. parts \in Seq(Seq(Toks(l))) /\ Len(parts) = N /\ \A i \in 1..N : parts[i] = e
  BY <1>5
<1>7. Joined(parts) = <<>>
  BY <1>1, <1>6, JoinedNothing
<1>8. PICK h \in Seq(Toks(l)) : h = <<Word(b)>>
  BY BuilderToken
<1>9. e \o h = h
  BY <1>1
<1>10. 1 \in 1..N /\ \A i \in 1..N : i = 1 \/ i \in 2..N
  OBVIOUS
<1>11. more[1] = parts[1] \o h
  BY <1>4, <1>6, <1>8, <1>9, <1>10
<1>12. \A i \in 1..N : i # 1 => more[i] = parts[i]
  BY <1>2, <1>3, <1>4, <1>6, <1>10
<1>13. Lengthened(more, parts, 1, h)
  BY <1>1, <1>4, <1>6, <1>11, <1>12 DEF Lengthened
<1>14. Splits(Joined(more), Joined(parts), h)
  BY <1>4, <1>6, <1>10, <1>13, JoinedGrows
<1>15. Joined(more) = h
  BY <1>1, <1>7, <1>9, <1>14 DEF Splits
<1>16. QED BY <1>1, <1>2, <1>4, <1>8, <1>15, MeantNothing DEF Ordered

LEMMA TextInvEmpty ==
  ASSUME NEW b \in Builders, NEW l, NEW lin
  PROVE  TextInv(Emptied, <<>>, lin, b, l)
  BY UntoldWritten, UntoldOrdered DEF TextInv

LEMMA AppendedIn ==
  ASSUME NEW X, NEW Y, NEW s \in Seq(X), NEW x \in X, Append(s, x) \in Seq(Y)
  PROVE  s \in Seq(Y) /\ x \in Y
<1>1. PICK p \in Seq(Y) : Extends(p, s, x)
  BY DEF Extends
<1>2. Len(p) = Len(s) + 1 /\ (\A i \in 1..Len(s) : p[i] = s[i]) /\ p[Len(s) + 1] = x
  BY <1>1, ExtendsIs
<1>3. Len(s) \in Nat /\ Len(p) \in Nat /\ DOMAIN p = 1..Len(p) /\ \A i \in DOMAIN p : p[i] \in Y
  BY LenProperties
<1>4. Len(s) + 1 \in DOMAIN p /\ \A i \in 1..Len(s) : i \in DOMAIN p
  BY <1>2, <1>3
<1>5. x \in Y /\ \A i \in 1..Len(s) : s[i] \in Y
  BY <1>2, <1>3, <1>4
<1>6. s = [i \in 1..Len(s) |-> s[i]]
  OBVIOUS
<1>7. s \in [1..Len(s) -> Y]
  BY <1>5, <1>6
<1>8. QED BY <1>3, <1>5, <1>7

LEMMA TextInvStep ==
  ASSUME NEW b \in Builders, NEW l, NEW c, DOMAIN c = Clauses, NEW made \in Seq(Call), NEW lin,
         TextInv(c, made, lin, b, l), NEW call \in Call, Shaped(call), Legal(call, b),
         NEW go, go => GoesOn(made, call, b) /\ (lin \/ made = <<>>),
         made = <<>> => c = Emptied
  PROVE  TextInv(Changed(c, call), Append(made, call), go, b, l)
<1>1. SUFFICES ASSUME Append(made, call) \in Seq(CleanCalls(l))
               PROVE  \E tok : /\ Written(Changed(c, call), Append(made, call), tok, l)
                               /\ go => Ordered(Append(made, call), tok, b, l)
  BY DEF TextInv
<1>2. made \in Seq(CleanCalls(l)) /\ call \in CleanCalls(l)
  BY <1>1, AppendedIn
<1>3. PICK tok : Written(c, made, tok, l) /\ (lin \/ made = <<>> => Ordered(made, tok, b, l))
  <2>1. CASE made = <<>>
    BY <2>1, UntoldWritten, UntoldOrdered
  <2>2. CASE made # <<>>
    BY <1>2, <2>2 DEF TextInv
  <2>3. QED BY <2>1, <2>2
<1>4. tok \in [Clauses -> Seq(Toks(l))]
  BY <1>3 DEF Written
<1>5. Written(Changed(c, call), Append(made, call), Retold(tok, call), l)
  BY <1>2, <1>3, WrittenGrows
<1>6. go => Ordered(Append(made, call), Retold(tok, call), b, l)
  BY <1>2, <1>3, <1>4, OrderedGrows
<1>7. QED BY <1>5, <1>6

LEMMA RootsIn == \A b \in DOMAIN Roots : Roots[b] \subseteq Stages[b]
<1>1. /\ Roots["select"] = {"select"} /\ Roots["update"] = {"update"}
      /\ Roots["delete"] = {"delete"} /\ Roots["none"] = {}
  BY DEF Roots
<1>2. QED BY <1>1, StagesTable

LEMMA CallsInit == Init => CallsInv
<1>1. SUFFICES ASSUME Init PROVE CallsInv
  OBVIOUS
<1>2. builder \in DOMAIN Roots /\ held = Roots[builder] /\ ctx = Emptied /\ calls = <<>>
  BY <1>1 DEF Init
<1>3. held \subseteq Stages[builder]
  BY <1>2, RootsIn
<1>4. builder \in Builders => TextInv(ctx, calls, linear, builder, lang)
  BY <1>2, TextInvEmpty
<1>5. \A i \in DOMAIN calls : FALSE
  BY <1>2
<1>6. QED BY <1>2, <1>3, <1>4, <1>5 DEF CallsInv

\* A call on any stage that is kept, in whatever order.
LEMMA CallsCallStage ==
  ASSUME TypeInv, CallsInv, NEW stage \in held, NEW clause \in Clauses,
         NEW operands \in Operands(clause), CallStage(stage, clause, operands)
  PROVE  CallsInv'
<1>1. PICK made : made = IF Fresh(stage) THEN <<>> ELSE calls
  OBVIOUS
<1>2. PICK call : call = [stage |-> stage, clause |-> clause, operands |-> operands]
  OBVIOUS
<1>3. call.stage = stage /\ call.clause = clause /\ call.operands = operands
  BY <1>2
<1>4. PICK old : old = ContextFor(stage)
  OBVIOUS
<1>5. stage \in Stages[builder] /\ clause \in Offers[stage] /\ builder \in DOMAIN Roots
  BY DEF CallStage, CallsInv, TypeInv
<1>6. /\ Returned(stage, clause) \in Stages[builder] /\ stage \in DOMAIN Offers
      /\ builder # "none"
  BY <1>5, StagesClosed
<1>7. builder \in Builders
  BY <1>5, <1>6, StagesTable DEF Builders
<1>8. call \in Call
  BY <1>2, <1>6, OperandsIs DEF Call
<1>9. Legal(call, builder)
  BY <1>3, <1>5 DEF Legal
<1>10. Shaped(call)
  BY <1>3, OperandsAre DEF Shaped
<1>11. /\ made \in Seq(Call) /\ DOMAIN old = Clauses
       /\ made = <<>> => old = Emptied
       /\ made # <<>> => made = calls
  <2>1. CASE Fresh(stage)
    BY <1>1, <1>4, <2>1, EmptyIs DEF ContextFor, Emptied
  <2>2. CASE ~Fresh(stage)
    BY <1>1, <1>4, <2>2 DEF ContextFor, TypeInv, CallsInv
  <2>3. QED BY <2>1, <2>2
<1>12. /\ calls' = Append(made, call) /\ ctx' = Changed(old, call)
       /\ held' = (IF Fresh(stage) THEN {stage} ELSE held) \cup {Returned(stage, clause)}
       /\ linear' => (made = <<>> \/ (linear /\ stage = Returned(made[Len(made)].stage,
                                                                made[Len(made)].clause)))
       /\ UNCHANGED <<builder, lang>>
  BY <1>1, <1>2, <1>4 DEF CallStage, server, Changed
<1>13. \A i \in DOMAIN made : Legal(made[i], builder) /\ Shaped(made[i])
  BY <1>11 DEF CallsInv
<1>14. made # <<>> => Legal(made[Len(made)], builder)
  <2>1. ASSUME made # <<>> PROVE Len(made) \in DOMAIN made
    BY <1>11, <2>1
  <2>2. QED BY <1>13, <2>1
<1>15. linear' => GoesOn(made, call, builder) /\ (linear \/ made = <<>>)
  BY <1>3, <1>12, <1>14 DEF GoesOn
<1>16. TextInv(old, made, linear, builder, lang)
  <2>1. CASE made = <<>>
    BY <1>7, <1>11, <2>1, TextInvEmpty
  <2>2. CASE made # <<>>
    <3>1. made = calls /\ old = ctx
      BY <1>1, <1>4, <1>11, <2>2 DEF ContextFor
    <3>2. QED BY <1>7, <3>1 DEF CallsInv
  <2>3. QED BY <2>1, <2>2
<1>17. TextInv(Changed(old, call), Append(made, call), linear', builder, lang)
  BY <1>7, <1>8, <1>9, <1>10, <1>11, <1>15, <1>16, TextInvStep
<1>18. held' \subseteq Stages[builder]
  BY <1>5, <1>6, <1>12 DEF CallsInv
<1>19. PICK all : Extends(all, made, call) /\ all = calls'
  BY <1>12 DEF Extends
<1>20. /\ Len(all) = Len(made) + 1 /\ Len(made) \in Nat /\ all[Len(made) + 1] = call
       /\ DOMAIN made = 1..Len(made) /\ DOMAIN all = 1..Len(made) + 1
       /\ \A i \in 1..Len(made) : all[i] = made[i]
  <2>1. all \in Seq(Call)
    BY <1>8, <1>11, <1>12, <1>19
  <2>2. QED BY <1>8, <1>11, <1>19, <2>1, ExtendsIs, LenProperties
<1>21. ASSUME NEW i \in DOMAIN all PROVE Legal(all[i], builder) /\ Shaped(all[i])
  <2>1. CASE i = Len(made) + 1
    BY <1>9, <1>10, <1>20, <2>1
  <2>2. CASE i # Len(made) + 1
    <3>1. i \in DOMAIN made
      BY <1>20, <2>2
    <3>2. QED BY <1>13, <1>20, <3>1
  <2>3. QED BY <2>1, <2>2
<1>22. calls' # <<>>
  BY <1>19, <1>20
<1>23. QED BY <1>12, <1>17, <1>18, <1>19, <1>21, <1>22 DEF CallsInv

\* The other actions do not touch the context.
LEMMA CallsSame ==
  ASSUME CallsInv, UNCHANGED <<lang, builder, ctx, calls, linear>>, held' = held \/ held' = {}
  PROVE  CallsInv'
  BY DEF CallsInv

LEMMA CallsNext == TypeInv /\ CallsInv /\ [Next]_vars => CallsInv'
<1>1. SUFFICES ASSUME TypeInv, CallsInv, [Next]_vars PROVE CallsInv'
  OBVIOUS
<1>2. ASSUME NEW stage \in held, NEW clause \in Clauses, NEW operands \in Operands(clause),
             CallStage(stage, clause, operands)
      PROVE  CallsInv'
  BY <1>1, <1>2, CallsCallStage
<1>3. ASSUME NEW stage \in held, NEW args \in Arguments, Collect(stage, args) PROVE CallsInv'
  BY <1>1, <1>3, CallsSame DEF Collect, server
<1>4. ASSUME LetGo PROVE CallsInv'
  BY <1>1, <1>4, CallsSame DEF LetGo, server
<1>5. ASSUME Start PROVE CallsInv'
  BY <1>1, <1>5, CallsSame DEF Start, server
<1>6. ASSUME WriteText PROVE CallsInv'
  BY <1>1, <1>6, CallsSame DEF WriteText, server
<1>7. ASSUME Done PROVE CallsInv'
  BY <1>1, <1>7, CallsSame DEF Done, server
<1>8. ASSUME UNCHANGED vars PROVE CallsInv'
  BY <1>1, <1>8, CallsSame DEF vars
<1>9. QED BY <1>1, <1>2, <1>3, <1>4, <1>5, <1>6, <1>7, <1>8 DEF Next

LEMMA SendInit == Init => SendInv
  BY DEF Init, SendInv, PendingInv, SentInv

LEMMA MeantSame ==
  ASSUME builder' = builder, NEW made
  PROVE  Meant(made)' = Meant(made)
  BY DEF Meant

LEMMA BuildSame ==
  ASSUME builder' = builder, driver' = driver, NEW c
  PROVE  build_sql(c)' = build_sql(c)
  BY DEF build_sql, select_sql, update_sql, delete_sql

LEMMA QuerySame ==
  ASSUME lang' = lang, driver' = driver, NEW sql, NEW meant, NEW args, NEW via, NEW plain
  PROVE  query_s(sql, meant, args, via, plain)' = query_s(sql, meant, args, via, plain)
  BY DEF query_s

LEMMA ExecutedSame ==
  ASSUME UNCHANGED <<server, ctx, calls>>, NEW stage, NEW args, NEW plain
  PROVE  Executed(stage, args, plain)' = Executed(stage, args, plain)
<1>1. builder' = builder /\ driver' = driver /\ lang' = lang
  BY DEF server
<1>2. PICK sql : sql = build_sql(ctx)
  OBVIOUS
<1>3. build_sql(ctx)' = sql
  BY <1>1, <1>2 DEF build_sql, select_sql, update_sql, delete_sql
<1>4. PICK meant : meant = Meant(calls)
  OBVIOUS
<1>5. Meant(calls)' = meant
  BY <1>1, <1>4 DEF Meant
<1>6. build_sql(ContextOf(stage))' = build_sql(ContextOf(stage))
  BY <1>1 DEF build_sql, select_sql, update_sql, delete_sql, ContextOf
<1>7. Meant(CallsOf(stage))' = Meant(CallsOf(stage))
  BY <1>1 DEF Meant, CallsOf
<1>8. query_s(sql, meant, args, stage, plain)' = query_s(sql, meant, args, stage, plain)
  BY <1>1, QuerySame
<1>9. QED BY <1>1, <1>2, <1>3, <1>4, <1>5, <1>6, <1>7, <1>8 DEF Executed

LEMMA SentSame ==
  ASSUME SentInv, UNCHANGED <<server, ctx, calls, linear, sent>>
  PROVE  SentInv'
<1>1. builder' = builder /\ driver' = driver /\ lang' = lang /\ sent' = sent
  BY DEF server
<1>2. CASE sent = Nothing
  <2>1. sent' = Nothing
    BY <1>1, <1>2
  <2>2. QED BY <2>1 DEF SentInv
<1>3. CASE sent.kind = "undefined" /\ builder \in {"update", "delete"}
  BY <1>1, <1>3 DEF SentInv
<1>4. CASE builder \in Builders /\ \E stage, args, plain : SentBy(stage, args, plain)
  <2>1. PICK stage, args, plain : SentBy(stage, args, plain)
    BY <1>4
  <2>2. Executed(stage, args, plain)' = Executed(stage, args, plain)
    BY ExecutedSame
  <2>3. InOneGo(stage) => InOneGo(stage)'
    BY DEF InOneGo, CallsOf
  <2>4. SentBy(stage, args, plain)'
    BY <1>1, <2>1, <2>2, <2>3 DEF SentBy
  <2>5. QED BY <1>1, <1>4, <2>4 DEF SentInv
<1>5. CASE builder = "none" /\ \E text \in Texts, args \in Arguments : SentText(text, args)
  <2>1. PICK text \in Texts, args \in Arguments : SentText(text, args)
    BY <1>5
  <2>2. SentText(text, args)'
    <3>1. PICK sql : sql = select_sql(OwnCondition(text))
      OBVIOUS
    <3>2. select_sql(OwnCondition(text))' = sql
      BY <1>1, <3>1 DEF select_sql
    <3>3. Says(text, lang)' = Says(text, lang) /\ Sound(text)' = Sound(text)
      BY <1>1 DEF Sound
    <3>4. query_tuple(text, args)' = query_tuple(text, args)
      BY <1>1, <3>3 DEF query_tuple
    <3>5. QED BY <1>1, <2>1, <3>1, <3>2, <3>3, <3>4 DEF SentText, query_s
  <2>3. QED BY <1>1, <1>5, <2>2 DEF SentInv
<1>6. QED BY <1>2, <1>3, <1>4, <1>5 DEF SentInv

LEMMA PendingSame ==
  ASSUME PendingInv, UNCHANGED <<server, calls, linear, pending>>
  PROVE  PendingInv'
<1>1. builder' = builder
  BY DEF server
<1>2. \A stage : InOneGo(stage) => InOneGo(stage)'
  BY DEF InOneGo, CallsOf
<1>3. QED BY <1>1, <1>2 DEF PendingInv

\* A call after an awaitable was made does not change what is said of it.
LEMMA SendCallStage ==
  ASSUME TypeInv, SendInv, NEW stage \in held, NEW clause \in Clauses,
         NEW operands \in Operands(clause), CallStage(stage, clause, operands)
  PROVE  SendInv'
<1>1. sent' = Nothing /\ builder' = builder /\ pending' = pending
  BY DEF CallStage, server
<1>2. SentInv'
  BY <1>1 DEF SentInv
<1>3. ASSUME pending # <<>> PROVE Len(calls') = Len(calls) + 1
  <2>1. calls' = Append(calls, [stage |-> stage, clause |-> clause, operands |-> operands])
    BY <1>3 DEF CallStage
  <2>2. calls \in Seq(Call)
    BY DEF TypeInv
  <2>3. QED BY <2>1, <2>2
<1>4. Len(calls) \in Nat
  BY DEF TypeInv
<1>5. PendingInv'
  <2>1. CASE pending = <<>>
    BY <1>1, <2>1 DEF PendingInv
  <2>2. CASE pending # <<>>
    <3>1. pending[1].calls \in Seq(Call)
      <4>1. pending \in Seq(Awaitable) /\ Len(pending) = 1
        BY <2>2 DEF TypeInv
      <4>2. pending[1] \in Awaitable
        BY <4>1
      <4>3. QED BY <4>2 DEF Awaitable
    <3>2. PICK n \in Nat : n = Len(pending[1].calls)
      BY <3>1
    <3>3. n <= Len(calls) /\ n # Len(calls') /\ n <= Len(calls')
      BY <1>3, <1>4, <2>2, <3>2 DEF SendInv, PendingInv
    <3>4. pending[1].calls # calls'
      BY <3>2, <3>3
    <3>5. QED BY <1>1, <2>2, <3>2, <3>3, <3>4 DEF SendInv, PendingInv
  <2>3. QED BY <2>1, <2>2
<1>6. QED BY <1>2, <1>5 DEF SendInv

\* collect() and execute() send the context as it is, or keep it in an awaitable.
LEMMA SendCollect ==
  ASSUME TypeInv, CallsInv, SendInv, NEW stage \in held, NEW args \in Arguments,
         Collect(stage, args)
  PROVE  SendInv'
<1>1. /\ UNCHANGED <<server, ctx, calls, linear>> /\ builder' = builder
      /\ pending = <<>> /\ sent = Nothing /\ (builder = "select" \/ args = <<>>)
  BY DEF Collect, server
<1>2. stage \in Stages[builder]
  BY DEF CallsInv
<1>3. InOneGo(stage) => InOneGo(stage)'
  BY <1>1 DEF InOneGo, CallsOf
<1>4. CASE driver = "mysql_async"
  <2>1. PICK p : p = [stage |-> stage, args |-> args, calls |-> calls, plain |-> InOneGo(stage)]
    OBVIOUS
  <2>2. pending' = <<p>> /\ sent' = sent
    BY <1>4, <2>1 DEF Collect
  <2>3. p.stage = stage /\ p.args = args /\ p.calls = calls /\ p.plain = InOneGo(stage)
    BY <2>1
  <2>4. Len(calls) \in Nat
    BY DEF TypeInv
  <2>5. pending'[1] = p
    BY <2>2
  <2>6. Len(p.calls) <= Len(calls)
    BY <2>3, <2>4
  <2>7. PendingInv'
    BY <1>1, <1>2, <1>3, <2>3, <2>5, <2>6 DEF PendingInv
  <2>8. SentInv'
    BY <1>1, <2>2 DEF SentInv
  <2>9. QED BY <2>7, <2>8 DEF SendInv
<1>5. CASE driver # "mysql_async"
  <2>1. Execute(stage, args, InOneGo(stage)) /\ pending' = <<>>
    BY <1>1, <1>5 DEF Collect
  <2>2. PICK plain : plain = InOneGo(stage)
    OBVIOUS
  <2>3. sent' = Executed(stage, args, plain)
    BY <2>1, <2>2 DEF Execute, Executed
  <2>4. sent' = Executed(stage, args, plain)'
    BY <1>1, <2>3, ExecutedSame
  <2>5. SentBy(stage, args, plain)'
    BY <1>1, <1>2, <1>3, <2>2, <2>4 DEF SentBy
  <2>6. builder \in Builders
    <3>1. builder \in DOMAIN Roots /\ builder # "none"
      BY <1>2, StagesTable DEF TypeInv
    <3>2. QED BY <3>1, StagesTable DEF Builders
  <2>7. SentInv'
    BY <1>1, <2>5, <2>6 DEF SentInv
  <2>8. PendingInv'
    BY <2>1 DEF PendingInv
  <2>9. QED BY <2>7, <2>8 DEF SendInv
<1>6. QED BY <1>4, <1>5

\* An awaitable that is started sends the context as it is then.
LEMMA SendStart ==
  ASSUME TypeInv, SendInv, Start
  PROVE  SendInv'
<1>1. PICK p : p = pending[1]
  OBVIOUS
<1>2. /\ UNCHANGED <<server, ctx, calls, linear>> /\ builder' = builder
      /\ pending # <<>> /\ pending' = <<>>
  BY DEF Start, server
<1>3. /\ p.stage \in Stages[builder] /\ p.args \in Arguments
      /\ builder = "select" \/ p.args = <<>>
      /\ p.plain /\ p.calls = calls => InOneGo(p.stage)
  BY <1>1, <1>2 DEF SendInv, PendingInv
<1>4. PendingInv'
  BY <1>2 DEF PendingInv
<1>5. builder \in Builders
  <2>1. builder \in DOMAIN Roots /\ builder # "none"
    BY <1>3, StagesTable DEF TypeInv
  <2>2. QED BY <2>1, StagesTable DEF Builders
<1>6. CASE ContextThere(p.stage)
  <2>1. PICK plain : plain = (p.plain /\ p.calls = calls)
    OBVIOUS
  <2>2. Execute(p.stage, p.args, plain)
    BY <1>1, <1>6, <2>1 DEF Start
  <2>3. sent' = Executed(p.stage, p.args, plain)
    BY <2>2 DEF Execute, Executed
  <2>4. sent' = Executed(p.stage, p.args, plain)'
    BY <1>2, <2>3, ExecutedSame
  <2>5. InOneGo(p.stage) => InOneGo(p.stage)'
    BY <1>2 DEF InOneGo, CallsOf
  <2>6. SentBy(p.stage, p.args, plain)'
    BY <1>2, <1>3, <2>1, <2>4, <2>5 DEF SentBy
  <2>7. SentInv'
    BY <1>2, <1>5, <2>6 DEF SentInv
  <2>8. QED BY <1>4, <2>7 DEF SendInv
<1>7. CASE ~ContextThere(p.stage)
  <2>1. sent' = Statement("undefined", <<>>, <<>>, <<>>, p.args, p.stage, FALSE)
    BY <1>1, <1>7 DEF Start
  <2>2. sent'.kind = "undefined"
    BY <2>1 DEF Statement
  <2>3. builder \in {"update", "delete"}
    BY <1>5, <1>7 DEF ContextThere, Builders
  <2>4. SentInv'
    BY <1>2, <2>2, <2>3 DEF SentInv
  <2>5. QED BY <1>4, <2>4 DEF SendInv
<1>8. QED BY <1>6, <1>7

\* query_s() and query() with a text of the program.
LEMMA SendWriteText ==
  ASSUME SendInv, WriteText
  PROVE  SendInv'
<1>1. UNCHANGED <<server, ctx, calls, linear, pending>> /\ builder = "none"
  BY DEF WriteText
<1>2. driver' = driver /\ lang' = lang /\ builder' = builder
  BY <1>1 DEF server
<1>3. PICK text \in Texts, args \in Arguments :
        \/ sent' = query_s(select_sql(OwnCondition(text)),
                           <<Plain("select"), Plain("where")>> \o Says(text, lang),
                           args, "text", Sound(text))
        \/ sent' = query_tuple(text, args)
  BY DEF WriteText
<1>4. SentText(text, args)'
  <2>1. PICK sql : sql = select_sql(OwnCondition(text))
    OBVIOUS
  <2>2. select_sql(OwnCondition(text))' = sql
    BY <1>2, <2>1 DEF select_sql
  <2>3. Says(text, lang)' = Says(text, lang) /\ Sound(text)' = Sound(text)
    BY <1>2 DEF Sound
  <2>4. query_tuple(text, args)' = query_tuple(text, args)
    BY <1>2, <2>3 DEF query_tuple
  <2>5. QED BY <1>2, <1>3, <2>1, <2>2, <2>3, <2>4 DEF SentText, query_s
<1>5. (text \in Texts /\ args \in Arguments)'
  BY <1>3 DEF Texts, Arguments
<1>6. SentInv'
  BY <1>1, <1>2, <1>4, <1>5 DEF SentInv
<1>7. QED BY <1>1, <1>6, PendingSame DEF SendInv

LEMMA SendNext == TypeInv /\ CallsInv /\ SendInv /\ [Next]_vars => SendInv'
<1>1. SUFFICES ASSUME TypeInv, CallsInv, SendInv, [Next]_vars PROVE SendInv'
  OBVIOUS
<1>2. ASSUME NEW stage \in held, NEW clause \in Clauses, NEW operands \in Operands(clause),
             CallStage(stage, clause, operands)
      PROVE  SendInv'
  BY <1>1, <1>2, SendCallStage
<1>3. ASSUME NEW stage \in held, NEW args \in Arguments, Collect(stage, args) PROVE SendInv'
  BY <1>1, <1>3, SendCollect
<1>4. ASSUME LetGo PROVE SendInv'
  BY <1>1, <1>4, SentSame, PendingSame DEF LetGo, SendInv
<1>5. ASSUME Start PROVE SendInv'
  BY <1>1, <1>5, SendStart
<1>6. ASSUME WriteText PROVE SendInv'
  BY <1>1, <1>6, SendWriteText
<1>7. ASSUME Done PROVE SendInv'
  <2>1. SentInv'
    BY <1>7 DEF Done, SentInv
  <2>2. QED BY <1>1, <1>7, <2>1, PendingSame DEF Done, SendInv
<1>8. ASSUME UNCHANGED vars PROVE SendInv'
  BY <1>1, <1>8, SentSame, PendingSame DEF vars, server, SendInv
<1>9. QED BY <1>1, <1>2, <1>3, <1>4, <1>5, <1>6, <1>7, <1>8 DEF Next

LEMMA InvInit == Init => IInv
  BY TypeInit, CallsInit, SendInit DEF IInv

LEMMA InvNext == IInv /\ [Next]_vars => IInv'
  BY TypeNext, CallsNext, SendNext DEF IInv

-----------------------------------------------------------------------------
(* The calls that a server reads as they are written                       *)

LEMMA WithinConcat ==
  ASSUME NEW X, NEW s \in Seq(X), NEW t \in Seq(X), NEW x, Stands(x, s) \/ Stands(x, t),
         NEW u, u = s \o t
  PROVE  Stands(x, u)
<1>1. /\ u \in Seq(X) /\ Len(u) = Len(s) + Len(t)
      /\ \A i \in 1..Len(s) + Len(t) : u[i] = IF i <= Len(s) THEN s[i] ELSE t[i - Len(s)]
  BY ConcatProperties
<1>2. /\ Len(s) \in Nat /\ Len(t) \in Nat /\ DOMAIN s = 1..Len(s) /\ DOMAIN t = 1..Len(t)
      /\ DOMAIN u = 1..Len(s) + Len(t)
  BY <1>1, LenProperties
<1>3. CASE Stands(x, s)
  <2>1. PICK i \in 1..Len(s) : s[i] = x
    BY <1>2, <1>3 DEF Stands
  <2>2. i \in DOMAIN u /\ u[i] = x
    BY <1>1, <1>2, <2>1
  <2>3. QED BY <2>2 DEF Stands
<1>4. CASE Stands(x, t)
  <2>1. PICK i \in 1..Len(t) : t[i] = x
    BY <1>2, <1>4 DEF Stands
  <2>2. PICK j \in 1..Len(s) + Len(t) : j = Len(s) + i /\ ~(j <= Len(s)) /\ j - Len(s) = i
    BY <1>2
  <2>3. j \in DOMAIN u /\ u[j] = x
    BY <1>1, <1>2, <2>1, <2>2
  <2>4. QED BY <2>3 DEF Stands
<1>5. QED BY <1>3, <1>4

LEMMA WithinHeld ==
  ASSUME NEW X, NEW s, NEW a \in Seq(X), NEW m \in Seq(X), NEW b \in Seq(X), Holds(s, a, m, b),
         NEW x, Stands(x, m)
  PROVE  Stands(x, s)
<1>0. PICK u : u = a \o m
  OBVIOUS
<1>1. u \in Seq(X)
  BY <1>0, ConcatProperties
<1>2. Stands(x, u)
  BY <1>0, WithinConcat
<1>3. s = u \o b
  BY <1>0 DEF Holds
<1>4. QED BY <1>1, <1>2, <1>3, WithinConcat

LEMMA OperandWithin ==
  ASSUME NEW made \in Seq(Call), builder \in Builders, NEW j \in DOMAIN made,
         NEW x, Stands(x, made[j].operands)
  PROVE  Stands(x, Meant(made))
<1>1. PICK segs : segs = [i \in DOMAIN made |->
                           <<Plain(Keyword(made[i].stage, made[i].clause))>> \o made[i].operands]
  OBVIOUS
<1>2. \A w \in Words : Plain(w) \in Meanings
  BY DEF Meanings, Plain
<1>3. ASSUME NEW i \in DOMAIN made
      PROVE  segs[i] \in Seq(Meanings) /\ (i = j => Stands(x, segs[i]))
  <2>1. made[i] \in Call
    OBVIOUS
  <2>2. PICK K \in Seq(Meanings) : K = made[i].operands
    <3>1. made[i].operands \in Seq(Operand)
      BY <2>1 DEF Call
    <3>2. Operand \subseteq Meanings
      BY DEF Meanings
    <3>3. QED BY <3>1, <3>2, SeqOfSubset
  <2>3. PICK h \in Seq(Meanings) : h = <<Plain(Keyword(made[i].stage, made[i].clause))>>
    <3>1. made[i].clause \in Clauses
      BY <2>1 DEF Call
    <3>2. QED BY <1>2, <3>1, KeywordIs, OneIsSeq
  <2>4. segs[i] = h \o K
    BY <1>1, <2>2, <2>3
  <2>5. i = j => Stands(x, K)
    BY <2>2
  <2>6. h \o K \in Seq(Meanings)
    OBVIOUS
  <2>7. QED BY <2>4, <2>5, <2>6, WithinConcat
<1>4. /\ Len(made) \in Nat /\ DOMAIN made = 1..Len(made)
      /\ segs \in [1..Len(made) -> Seq(Meanings)]
  BY <1>1, <1>3, LenProperties
<1>5. segs \in Seq(Seq(Meanings)) /\ Len(segs) = Len(made)
  BY <1>4
<1>6. j \in 1..Len(segs)
  BY <1>4, <1>5
<1>7. PICK a \in Seq(Meanings), b \in Seq(Meanings) : Holds(Joined(segs), a, segs[j], b)
  BY <1>5, <1>6, JoinedHas
<1>8. Stands(x, Joined(segs))
  BY <1>3, <1>7, WithinHeld
<1>9. Joined(segs) \in Seq(Meanings)
  BY <1>5, JoinedType
<1>10. PICK h \in Seq(Meanings) : h = <<Plain(builder)>>
  <2>1. builder \in Words
    BY WordsIs DEF Builders
  <2>2. QED BY <1>2, <2>1, OneIsSeq
<1>11. Meant(made) = h \o Joined(segs)
  BY <1>1, <1>10 DEF Meant
<1>12. QED BY <1>8, <1>9, <1>10, <1>11, WithinConcat

LEMMA CleanOperand ==
  ASSUME NEW x \in Operand, x.kind = "value" => ~Misread(x.text)
  PROVE  x \in Toks(lang)
<1>1. CASE x = Mark
  BY <1>1, MarkPiece DEF Toks
<1>2. CASE \E c \in {"a", "b", "and", "1", "NULL"} : x = Word(c)
  <2>1. PICK c \in {"a", "b", "and", "1", "NULL"} : x = Word(c)
    BY <1>2
  <2>2. c \in Words
    BY DEF Words
  <2>3. QED BY <2>1, <2>2, WordToken
<1>3. CASE \E v \in Values : x = Value(v)
  <2>1. PICK v \in Values : x = Value(v)
    BY <1>3
  <2>2. x.kind = "value" /\ x.text = v
    BY <2>1 DEF Value, Lexeme
  <2>3. v # MarkText /\ (lang = "mysql" => \A i \in DOMAIN v : v[i] # Backslash)
    BY <2>2 DEF Misread, Occurs
  <2>4. v \in Seq(Characters)
    BY TextAssumption
  <2>5. v \in Seq(Legible(Characters, lang))
    <3>1. CASE lang = "mysql"
      <4>1. \A i \in DOMAIN v : v[i] \in Characters \ {Backslash}
        BY <2>3, <2>4, <3>1
      <4>2. Len(v) \in Nat /\ v \in [1..Len(v) -> Characters \ {Backslash}]
        BY <2>4, <4>1
      <4>3. v \in Seq(Characters \ {Backslash})
        BY <4>2
      <4>4. QED BY <3>1, <4>3 DEF Legible
    <3>2. CASE lang # "mysql"
      BY <2>4, <3>2 DEF Legible
    <3>3. QED BY <3>1, <3>2
  <2>6. QED BY <2>1, <2>3, <2>5, ValuePiece DEF Toks
<1>4. QED BY <1>1, <1>2, <1>3 DEF Operand

\* If no value is misread, the calls have only values that are read as they are.
LEMMA CleanCallsAre ==
  ASSUME NEW made \in Seq(Call), builder \in Builders,
         \A i \in DOMAIN Meant(made) : Meant(made)[i].kind = "value" => ~Misread(Meant(made)[i].text)
  PROVE  made \in Seq(CleanCalls(lang))
<1>1. ASSUME NEW j \in DOMAIN made PROVE made[j] \in CleanCalls(lang)
  <2>1. made[j] \in Call
    OBVIOUS
  <2>2. PICK K \in Seq(Operand) : K = made[j].operands
    BY <2>1 DEF Call
  <2>3. ASSUME NEW i \in DOMAIN K PROVE K[i] \in Toks(lang)
    <3>1. PICK x \in Operand : x = K[i]
      BY <2>2
    <3>2. Stands(x, made[j].operands)
      BY <2>2, <3>1 DEF Stands
    <3>3. Stands(x, Meant(made))
      BY <3>2, OperandWithin
    <3>4. x.kind = "value" => ~Misread(x.text)
      BY <3>3 DEF Stands
    <3>5. QED BY <3>1, <3>4, CleanOperand
  <2>4. Len(K) \in Nat /\ K \in [1..Len(K) -> Toks(lang)]
    BY <2>2, <2>3
  <2>5. K \in Seq(Toks(lang))
    BY <2>4
  <2>6. QED BY <2>1, <2>2, <2>5 DEF CleanCalls
<1>2. Len(made) \in Nat /\ made \in [1..Len(made) -> CleanCalls(lang)]
  BY <1>1
<1>3. QED BY <1>2

-----------------------------------------------------------------------------
(* The texts that are built                                                *)

\* Spelling the parts and putting them together, or the other way round.
LEMMA TextsSpelt ==
  ASSUME NEW X, NEW Y, NEW f \in [X -> Seq(Y)], NEW parts \in Seq(Seq(X)), NEW N \in Nat,
         Len(parts) = N
  PROVE  Joined([i \in 1..N |-> Spelt(f, parts[i])]) = Spelt(f, Joined(parts))
<1>1. PICK texts : texts = [i \in 1..N |-> Spelt(f, parts[i])]
  OBVIOUS
<1>2. \A i \in 1..N : parts[i] \in Seq(X)
  BY ElementOfSeq
<1>3. \A i \in 1..N : Spelt(f, parts[i]) \in Seq(Y)
  BY <1>2, SpeltType
<1>4. texts \in Seq(Seq(Y)) /\ Len(texts) = N /\ \A i \in 1..N : texts[i] = Spelt(f, parts[i])
  <2> DEFINE S == Seq(Y)
  <2>1. \A i \in 1..N : Spelt(f, parts[i]) \in S
    BY <1>3
  <2> HIDE DEF S
  <2>2. texts \in Seq(S) /\ Len(texts) = N /\ \A i \in 1..N : texts[i] = Spelt(f, parts[i])
    BY <1>1, <2>1
  <2>3. QED BY <2>2 DEF S
<1>5. Len(texts) = Len(parts) /\ \A i \in 1..Len(parts) : texts[i] = Spelt(f, parts[i])
  BY <1>4
<1>6. Joined(texts) = Spelt(f, Joined(parts))
  BY <1>4, <1>5, SpeltJoined
<1>7. QED BY <1>1, <1>6

LEMMA EightTexts ==
  ASSUME NEW X, NEW Y, NEW f, NEW parts, SpeltBy(X, Y, f, parts, 8),
         NEW a, NEW b, NEW c, NEW d, NEW e, NEW g, NEW h, NEW k,
         EightSpelt(f, parts, a, b, c, d, e, g, h, k)
  PROVE  Joined(<<a, b, c, d, e, g, h, k>>) = Spelt(f, Joined(parts))
<1>1. Joined([i \in 1..8 |-> Spelt(f, parts[i])]) = Spelt(f, Joined(parts))
  BY TextsSpelt DEF SpeltBy
<1>2. [i \in 1..8 |-> Spelt(f, parts[i])] = <<a, b, c, d, e, g, h, k>>
  BY DEF EightSpelt, SpelledBy
<1>3. QED BY <1>1, <1>2

LEMMA ThreeTexts ==
  ASSUME NEW X, NEW Y, NEW f, NEW parts, SpeltBy(X, Y, f, parts, 3),
         NEW a, NEW b, NEW c, ThreeSpelt(f, parts, a, b, c)
  PROVE  Joined(<<a, b, c>>) = Spelt(f, Joined(parts))
<1>1. Joined([i \in 1..3 |-> Spelt(f, parts[i])]) = Spelt(f, Joined(parts))
  BY TextsSpelt DEF SpeltBy
<1>2. [i \in 1..3 |-> Spelt(f, parts[i])] = <<a, b, c>>
  BY DEF ThreeSpelt, SpelledBy
<1>3. QED BY <1>1, <1>2

LEMMA TwoTexts ==
  ASSUME NEW X, NEW Y, NEW f, NEW parts, SpeltBy(X, Y, f, parts, 2),
         NEW a, NEW b, TwoSpelt(f, parts, a, b)
  PROVE  Joined(<<a, b>>) = Spelt(f, Joined(parts))
<1>1. Joined([i \in 1..2 |-> Spelt(f, parts[i])]) = Spelt(f, Joined(parts))
  BY TextsSpelt DEF SpeltBy
<1>2. [i \in 1..2 |-> Spelt(f, parts[i])] = <<a, b>>
  BY DEF TwoSpelt, SpelledBy
<1>3. QED BY <1>1, <1>2

\* The clauses of the context are the spelt parts of the statement.
LEMMA PartsSpelt ==
  ASSUME NEW b \in Builders, NEW l, NEW c, NEW made, NEW tok, Written(c, made, tok, l)
  PROVE  SpeltParts(PartsOf(tok, b), c, b, l)
<1>1. tok \in [Clauses -> Seq(Toks(l))] /\ \A w \in Clauses : TextOf(c, w, tok[w], l)
  BY DEF Written
<1>2. PICK N \in 2..8 : N = Len(Order[b]) /\ \A j \in 2..N : Order[b][j] \in Clauses
  BY OrderIs DEF Builders
<1>3. PICK parts \in Seq(Seq(Toks(l))) :
        /\ parts = PartsOf(tok, b) /\ Len(parts) = N
        /\ parts[1] = <<Word(b)>> /\ \A i \in 2..N : parts[i] = tok[Order[b][i]]
  BY <1>1, <1>2, PartsType
<1>4. Spelt(Spelling(l), parts[1]) = <<b>>
  BY <1>3, BuilderToken, SpellingIs, SpeltOne
<1>5. ASSUME NEW i \in 2..N
      PROVE  Spelt(Spelling(l), parts[i]) = FullText(c, Order[b][i]) /\ Steady(parts[i])
  BY <1>1, <1>2, <1>3 DEF TextOf
<1>6. Steady(parts[1])
  BY <1>3, BuilderToken, OneLoose
<1>7. \A i \in 1..N : i = 1 \/ i \in 2..N
  OBVIOUS
<1>8. \A i \in 1..Len(parts) : Steady(parts[i])
  BY <1>3, <1>5, <1>6, <1>7
<1>9. Steady(Joined(parts))
  BY <1>8, SteadyJoined
<1>10. QED BY <1>2, <1>3, <1>4, <1>5, <1>9 DEF SpeltParts

\* build_sql() makes the raw text, and numbers its marks for postgresql.
LEMMA BuildIs ==
  ASSUME builder \in Builders, NEW c
  PROVE  build_sql(c) = IF driver = "postgresql" /\ builder = "select"
                        THEN replace_postgresql_placeholders(RawText(c, builder))
                        ELSE RawText(c, builder)
  BY DEF Builders, build_sql, select_sql, update_sql, delete_sql, RawText

LEMMA RawUpdate ==
  ASSUME NEW c
  PROVE  RawText(c, "update") = Joined(<< <<"update">>, c["set"], WhereText(c) >>)
  BY DEF RawText

\* The raw text is the spelling of the parts put together.
LEMMA RawIs ==
  ASSUME NEW b \in Builders, NEW l, NEW c, NEW parts, SpeltParts(parts, c, b, l)
  PROVE  RawText(c, b) = Spelt(Spelling(l), Joined(parts))
<1>1. PICK f \in [Toks(l) -> Seq(Characters)] : f = Spelling(l)
  BY SpellingIs
<1>2. \A w : FullText(c, w) = IF w = "where" THEN WhereText(c) ELSE c[w]
  BY DEF FullText
<1>3. /\ parts \in Seq(Seq(Toks(l))) /\ Len(parts) = Len(Order[b])
      /\ <<b>> = Spelt(f, parts[1])
      /\ \A i \in 2..Len(Order[b]) : Spelt(f, parts[i]) = FullText(c, Order[b][i])
  BY <1>1 DEF SpeltParts
<1>4. CASE b = "select"
  <2>1. Len(parts) = 8 /\ \A i \in 2..8 : Spelt(f, parts[i]) = FullText(c, Order[b][i])
    BY <1>3, <1>4, SelectOrder
  <2>2. 2 \in 2..8 /\ 3 \in 2..8 /\ 4 \in 2..8 /\ 5 \in 2..8 /\ 6 \in 2..8 /\ 7 \in 2..8 /\ 8 \in 2..8
    BY NearNumbers
  <2>3. /\ c["join"] = Spelt(f, parts[2]) /\ WhereText(c) = Spelt(f, parts[3])
        /\ c["group by"] = Spelt(f, parts[4]) /\ c["having"] = Spelt(f, parts[5])
        /\ c["order by"] = Spelt(f, parts[6]) /\ c["limit"] = Spelt(f, parts[7])
        /\ c["offset"] = Spelt(f, parts[8])
    BY <1>2, <1>4, <2>1, <2>2, SelectOrder
  <2>4. <<"select">> = Spelt(f, parts[1])
    BY <1>3, <1>4, Zenon
  <2>5. Joined(<< <<"select">>, c["join"], WhereText(c), c["group by"], c["having"],
                  c["order by"], c["limit"], c["offset"] >>) = Spelt(f, Joined(parts))
    <3>1. PICK t1, t2, t3, t4, t5, t6, t7, t8 :
            /\ t1 = <<"select">> /\ t2 = c["join"] /\ t3 = WhereText(c) /\ t4 = c["group by"]
            /\ t5 = c["having"] /\ t6 = c["order by"] /\ t7 = c["limit"] /\ t8 = c["offset"]
      OBVIOUS
    <3>2. EightSpelt(f, parts, t1, t2, t3, t4, t5, t6, t7, t8)
      BY <2>3, <2>4, <3>1, Zenon DEF EightSpelt, SpelledBy
    <3>3. SpeltBy(Toks(l), Characters, f, parts, 8)
      BY <1>1, <1>3, <2>1, Zenon DEF SpeltBy
    <3>4. Joined(<<t1, t2, t3, t4, t5, t6, t7, t8>>) = Spelt(f, Joined(parts))
      BY <3>2, <3>3, EightTexts
    <3>5. QED BY <3>1, <3>4, Zenon
  <2>6. QED BY <1>1, <1>4, <2>5, Zenon DEF RawText
<1>5. CASE b = "update"
  <2>1. Len(parts) = 3 /\ \A i \in 2..3 : Spelt(f, parts[i]) = FullText(c, Order[b][i])
    BY <1>3, <1>5, ChangeOrder
  <2>2. 2 \in 2..3 /\ 3 \in 2..3
    OBVIOUS
  <2>3. c["set"] = Spelt(f, parts[2]) /\ WhereText(c) = Spelt(f, parts[3])
    BY <1>2, <1>5, <2>1, <2>2, ChangeOrder
  <2>4. <<"update">> = Spelt(f, parts[1])
    BY <1>3, <1>5, Zenon
  <2>5. Joined(<< <<"update">>, c["set"], WhereText(c) >>) = Spelt(f, Joined(parts))
    <3>1. ThreeSpelt(f, parts, <<"update">>, c["set"], WhereText(c))
      BY <2>3, <2>4, Zenon DEF ThreeSpelt, SpelledBy
    <3>2. SpeltBy(Toks(l), Characters, f, parts, 3)
      BY <1>1, <1>3, <2>1, Zenon DEF SpeltBy
    <3>3. QED BY <3>1, <3>2, ThreeTexts
  <2>6. QED BY <1>1, <1>5, <2>5, RawUpdate
<1>6. CASE b = "delete"
  <2>1. Len(parts) = 2 /\ \A i \in 2..2 : Spelt(f, parts[i]) = FullText(c, Order[b][i])
    BY <1>3, <1>6, ChangeOrder
  <2>2. 2 \in 2..2
    OBVIOUS
  <2>3. WhereText(c) = Spelt(f, parts[2])
    BY <1>2, <1>6, <2>1, <2>2, ChangeOrder
  <2>4. <<"delete">> = Spelt(f, parts[1])
    BY <1>3, <1>6, Zenon
  <2>5. TwoSpelt(f, parts, <<"delete">>, WhereText(c))
    BY <2>3, <2>4, Zenon DEF TwoSpelt, SpelledBy
  <2>6. SpeltBy(Toks(l), Characters, f, parts, 2)
    BY <1>1, <1>3, <2>1, Zenon DEF SpeltBy
  <2>7. Joined(<< <<"delete">>, WhereText(c) >>) = Spelt(f, Joined(parts))
    BY <2>5, <2>6, TwoTexts
  <2>8. QED BY <1>1, <1>6, <2>7 DEF RawText
<1>7. QED BY <1>4, <1>5, <1>6 DEF Builders

LEMMA WhereHas ==
  ASSUME NEW b \in Builders
  PROVE  \E k \in 2..Len(Order[b]) : Order[b][k] = "where"
<1>1. CASE b = "select"
  <2>1. 3 \in 2..8
    OBVIOUS
  <2>2. Len(Order["select"]) = 8 /\ Order["select"][3] = "where"
    BY SelectOrder, Zenon
  <2>3. QED BY <1>1, <2>1, <2>2, Zenon
<1>2. CASE b = "update"
  BY <1>2, ChangeOrder
<1>3. CASE b = "delete"
  BY <1>3, ChangeOrder
<1>4. QED BY <1>1, <1>2, <1>3 DEF Builders

\* What the context holds says something, and has the last condition.
LEMMA SpokenIs ==
  ASSUME builder \in Builders, NEW c, NEW made \in Seq(Call), NEW lin,
         TextInv(c, made, lin, builder, lang),
         \A i \in DOMAIN Meant(made) : Meant(made)[i].kind = "value" => ~Misread(Meant(made)[i].text)
  PROVE  \E K : Spoken(c, made, lin, K)
<1>1. made \in Seq(CleanCalls(lang))
  BY CleanCallsAre
<1>2. PICK tok : Written(c, made, tok, lang) /\ (lin => Ordered(made, tok, builder, lang))
  BY <1>1 DEF TextInv
<1>3. PICK parts : parts = PartsOf(tok, builder)
  OBVIOUS
<1>4. SpeltParts(parts, c, builder, lang)
  BY <1>2, <1>3, PartsSpelt
<1>5. RawText(c, builder) = Spelt(Spelling(lang), Joined(parts))
  BY <1>4, RawIs
<1>6. tok \in [Clauses -> Seq(Toks(lang))]
  BY <1>2 DEF Written
<1>7. /\ parts \in Seq(Seq(Toks(lang))) /\ Len(parts) = Len(Order[builder])
      /\ Len(Order[builder]) \in 2..8
      /\ \A i \in 2..Len(Order[builder]) : parts[i] = tok[Order[builder][i]]
  BY <1>3, <1>6, PartsType
<1>8. PICK K \in Seq(Toks(lang)) : K = Joined(parts)
  BY <1>7, JoinedType
<1>9. Steady(K)
  BY <1>4, <1>8 DEF SpeltParts
<1>10. ASSUME NEW i, LastWhere(made, i) PROVE HasCondition(K, made[i].operands, lang)
  <2>1. PICK w : w = <<Word("where")>> \o made[i].operands
    OBVIOUS
  <2>2. tok["where"] = w
    BY <1>2, <1>10, <2>1 DEF Written
  <2>3. PICK k \in 2..Len(Order[builder]) : Order[builder][k] = "where"
    BY WhereHas
  <2>4. k \in 1..Len(parts) /\ parts[k] = w
    BY <1>7, <2>2, <2>3
  <2>5. \E a \in Seq(Toks(lang)), b \in Seq(Toks(lang)) : Holds(K, a, w, b)
    BY <1>7, <1>8, <2>4, JoinedHas
  <2>6. QED BY <2>1, <2>5, Zenon DEF HasCondition
<1>11. ASSUME lin PROVE K = Meant(made)
  BY <1>1, <1>2, <1>3, <1>8, <1>11, MeantIs DEF Ordered
<1>12. QED BY <1>5, <1>8, <1>9, <1>10, <1>11 DEF Spoken

LEMMA ConcatIs ==
  ASSUME NEW X, NEW s, NEW m, NEW t, NEW n, NEW u,
         Sized(X, s, m), Sized(X, t, n), Concats(u, s, t)
  PROVE  Sized(X, u, m + n) /\ Comprises(u, s, t, m, n)
<1>1. /\ u \in Seq(X) /\ Len(u) = m + n
      /\ \A i \in 1..m + n : u[i] = IF i <= m THEN s[i] ELSE t[i - m]
  BY ConcatProperties DEF Sized, Concats
<1>2. m \in Nat /\ n \in Nat
  BY DEF Sized
<1>3. \A j \in 1..m : j \in 1..m + n /\ j <= m
  BY <1>2
<1>4. \A j \in 1..n : m + j \in 1..m + n /\ ~(m + j <= m) /\ (m + j) - m = j
  BY <1>2
<1>5. m + n \in Nat
  BY <1>2
<1>6. \A j \in 1..m : u[j] = s[j]
  BY <1>1, <1>3
<1>7. ASSUME NEW j \in 1..n
      PROVE  u[m + j] = t[j]
  BY <1>1, <1>4
<1>8. Comprises(u, s, t, m, n)
  BY <1>6, <1>7 DEF Comprises
<1>9. Sized(X, u, m + n)
  BY <1>1, <1>5 DEF Sized
<1>10. QED BY <1>8, <1>9

\* A condition stays a condition when its marks are filled.
LEMMA WhereFollows ==
  ASSUME NEW l, NEW K \in Seq(Toks(l)), NEW operands \in Seq(Toks(l)), HasCondition(K, operands, l),
         NEW S, Refilled(K, S)
  PROVE  SaysCondition(S, operands)
<1>1. PICK h \in Toks(l) : h = Word("where") /\ h.kind = "word"
  BY WordToken DEF Words
<1>2. PICK w : w = <<h>> \o operands
  OBVIOUS
<1>3. PICK one \in Seq(Toks(l)) : one = <<h>>
  BY OneIsSeq
<1>4. Len(one) = 1 /\ one[1] = h
  BY <1>3
<1>5. w = one \o operands
  BY <1>2, <1>3
<1>6. PICK n \in Nat : n = Len(operands)
  BY LenProperties
<1>7. /\ w \in Seq(Toks(l)) /\ Len(w) = 1 + n /\ w[1] = h
      /\ \A j \in 1..n : w[1 + j] = operands[j]
  <2>1. Sized(Toks(l), one, 1) /\ Sized(Toks(l), operands, n) /\ Concats(w, one, operands)
    BY <1>4, <1>5, <1>6 DEF Sized, Concats
  <2>2. Sized(Toks(l), w, 1 + n) /\ Comprises(w, one, operands, 1, n)
    BY <2>1, ConcatIs, Zenon
  <2>3. QED BY <1>4, <2>2 DEF Sized, Comprises
<1>8. PICK a \in Seq(Toks(l)), b \in Seq(Toks(l)) : Holds(K, a, w, b)
  BY <1>1, <1>2, Zenon DEF HasCondition
<1>9. PICK v : v = a \o w
  OBVIOUS
<1>10. PICK m \in Nat : m = Len(a)
  BY LenProperties
<1>11. /\ v \in Seq(Toks(l)) /\ Len(v) = m + (1 + n)
       /\ \A j \in 1..1 + n : v[m + j] = w[j]
  <2>1. Sized(Toks(l), a, m) /\ Sized(Toks(l), w, 1 + n) /\ Concats(v, a, w)
    BY <1>7, <1>9, <1>10 DEF Sized, Concats
  <2>2. Sized(Toks(l), v, m + (1 + n)) /\ Comprises(v, a, w, m, 1 + n)
    BY <2>1, ConcatIs, Zenon
  <2>3. QED BY <2>2 DEF Sized, Comprises
<1>12. K = v \o b
  BY <1>8, <1>9 DEF Holds
<1>13. PICK q \in Nat : q = Len(b)
  BY LenProperties
<1>14. Len(K) = m + (1 + n) + q /\ \A j \in 1..m + (1 + n) : K[j] = v[j]
  <2>1. Sized(Toks(l), v, m + (1 + n)) /\ Sized(Toks(l), b, q) /\ Concats(K, v, b)
    BY <1>11, <1>12, <1>13 DEF Sized, Concats
  <2>2. Sized(Toks(l), K, m + (1 + n) + q) /\ Comprises(K, v, b, m + (1 + n), q)
    BY <2>1, ConcatIs, Zenon
  <2>3. QED BY <2>2 DEF Sized, Comprises
<1>15. \A j \in 1..1 + n : m + j \in 1..m + (1 + n) /\ m + j \in 1..Len(K)
  BY <1>14
<1>16. \A j \in 1..1 + n : K[m + j] = w[j]
  BY <1>11, <1>14, <1>15
<1>17. 1 \in 1..1 + n /\ \A j \in 1..n : 1 + j \in 1..1 + n /\ (m + 1) + j = m + (1 + j)
  OBVIOUS
<1>18. S[m + 1] = h
  <2>1. h # Mark
    BY <1>1, MarkIs
  <2>2. K[m + 1] = h
    BY <1>7, <1>16, <1>17
  <2>3. QED BY <1>15, <1>17, <2>1, <2>2 DEF Refilled
<1>19. ASSUME NEW j \in 1..n PROVE operands[j] = Mark \/ S[(m + 1) + j] = operands[j]
  <2>1. K[(m + 1) + j] = operands[j]
    BY <1>7, <1>16, <1>17
  <2>2. (m + 1) + j \in 1..Len(K)
    BY <1>15, <1>17
  <2>3. QED BY <2>1, <2>2 DEF Refilled
<1>20. m + 1 \in DOMAIN S /\ Len(S) >= (m + 1) + n
  BY <1>13, <1>14, <1>15, <1>17 DEF Refilled
<1>21. DOMAIN operands = 1..n
  BY <1>6, LenProperties
<1>22. QED BY <1>1, <1>6, <1>18, <1>19, <1>20, <1>21 DEF SaysCondition

-----------------------------------------------------------------------------
(* What is sent of a text                                                  *)

LEMMA ArgumentsAre ==
  ASSUME NEW args \in Arguments
  PROVE  args \in Seq(Values) /\ args \in Seq(Seq(Characters)) /\ Len(args) <= MaxArgs
<1>1. MaxArgs \in Nat
  BY BuilderAssumption
<1>2. PICK m \in 0..MaxArgs : args \in [1..m -> Values]
  BY DEF Arguments, SeqUpTo
<1>3. args \in Seq(Values) /\ Len(args) = m
  BY <1>1, <1>2
<1>4. Values \subseteq Seq(Characters)
  BY TextAssumption
<1>5. args \in Seq(Seq(Characters))
  BY <1>3, <1>4, SeqOfSubset
<1>6. QED BY <1>1, <1>3, <1>5

LEMMA NumberingIs ==
  /\ Characters \subseteq Numbering /\ Numbered(Numbering) /\ Alphabet(Numbering)
  /\ Alphabet(Characters)
<1>1. Special \subseteq Characters
  BY WordsIs
<1>2. ASSUME NEW n \in Nat PROVE Parameter(n) \notin Special
  <2>1. CASE n \in DOMAIN Parameters
    <3>1. Parameters[n] \notin Characters
      BY <2>1 DEF Characters
    <3>2. QED BY <1>1, <2>1, <3>1 DEF Parameter
  <2>2. CASE n \notin DOMAIN Parameters
    <3>1. "$n" \notin Special
      BY DEF Special, DoubleQuote, Backquote, Backslash, Newline
    <3>2. Parameter(n) = "$n"
      BY <2>2, Zenon DEF Parameter
    <3>3. QED BY <3>1, <3>2, Zenon
  <2>3. QED BY <2>1, <2>2
<1>3. Alphabet(Characters)
  BY <1>1 DEF Alphabet, Special
<1>4. QED BY <1>1, <1>2, <1>3 DEF Numbered, Numbering, Alphabet, Special

\* A larger alphabet changes nothing.
LEMMA GoodWider ==
  ASSUME NEW C, NEW D, C \subseteq D, NEW u \in Seq(C), NEW l, Good(u, l, C)
  PROVE  Good(u, l, D)
<1>1. SUFFICES ASSUME NEW t \in Seq(D), NEW c \in D, NEW w \in Seq(D), u = Around(t, c, w)
               PROVE  Apart(Runs(Outset, t, l).mode, c, w, l)
  BY DEF Good
<1>2. Encloses(u, t, c, w)
  BY <1>1, AroundIs
<1>3. PICK m \in Nat : m = Len(t)
  BY LenProperties
<1>4. PICK n \in Nat : n = Len(w)
  BY LenProperties
<1>5. PICK v \in Seq(C) : v = u
  OBVIOUS
<1>6. /\ Len(v) = m + 1 + n /\ v[m + 1] = c
      /\ \A i \in 1..m : v[i] = t[i]
      /\ \A i \in 1..n : v[m + 1 + i] = w[i]
  BY <1>2, <1>3, <1>4, <1>5 DEF Encloses
<1>7. \A i \in 1..m + 1 + n : v[i] \in C
  BY <1>6, ElementOfSeq
<1>8. m + 1 \in 1..m + 1 + n /\ \A i \in 1..m : i \in 1..m + 1 + n
  OBVIOUS
<1>9. \A i \in 1..n : m + 1 + i \in 1..m + 1 + n
  OBVIOUS
<1>10. c \in C /\ (\A i \in 1..m : t[i] \in C) /\ (\A i \in 1..n : w[i] \in C)
  BY <1>6, <1>7, <1>8, <1>9
<1>11. t \in Seq(C)
  BY <1>3, <1>10
<1>12. w \in Seq(C)
  BY <1>4, <1>10
<1>13. QED BY <1>1, <1>10, <1>11, <1>12 DEF Good

\* Filling marks leaves everything else as it is.
LEMMA FilledRefills ==
  ASSUME NEW C, NEW K \in Seq(Lexemes(C))
  PROVE  /\ Refilled(K, K)
         /\ \A g : Refilled(K, FilledWith(K, g))
         /\ \A args : Refilled(K, Filled(K, args))
<1>1. PICK n \in Nat : n = Len(K) /\ DOMAIN K = 1..n
  BY LenProperties
<1>2. Refilled(K, K)
  BY <1>1 DEF Refilled
<1>3. ASSUME NEW g PROVE Refilled(K, FilledWith(K, g))
  <2>1. PICK S : S = FilledWith(K, g)
    OBVIOUS
  <2>2. S = [i \in 1..n |-> IF K[i] = Mark THEN g[Marks(SubSeq(K, 1, i))] ELSE K[i]]
    BY <1>1, <2>1 DEF FilledWith
  <2>3. DOMAIN S = 1..n /\ \A i \in 1..n : K[i] # Mark => S[i] = K[i]
    BY <2>2
  <2>4. Len(S) = n
    <3>1. PICK v : v = [i \in 1..n |-> S[i]]
      OBVIOUS
    <3>2. v \in Seq({S[i] : i \in 1..n}) /\ Len(v) = n
      BY <3>1
    <3>3. v = S
      BY <2>2, <3>1
    <3>4. QED BY <3>2, <3>3
  <2>5. QED BY <1>1, <2>1, <2>3, <2>4 DEF Refilled
<1>4. ASSUME NEW args PROVE Refilled(K, Filled(K, args))
  <2>1. PICK S : S = Filled(K, args)
    OBVIOUS
  <2>2. S = [i \in 1..n |-> IF K[i] = Mark THEN Value(args[Marks(SubSeq(K, 1, i))]) ELSE K[i]]
    BY <1>1, <2>1 DEF Filled
  <2>3. DOMAIN S = 1..n /\ \A i \in 1..n : K[i] # Mark => S[i] = K[i]
    BY <2>2
  <2>4. Len(S) = n
    <3>1. PICK v : v = [i \in 1..n |-> S[i]]
      OBVIOUS
    <3>2. v \in Seq({S[i] : i \in 1..n}) /\ Len(v) = n
      BY <3>1
    <3>3. v = S
      BY <2>2, <3>1
    <3>4. QED BY <3>2, <3>3
  <2>5. QED BY <1>1, <2>1, <2>3, <2>4 DEF Refilled
<1>5. QED BY <1>2, <1>3, <1>4

LEMMA QueriedIs ==
  ASSUME NEW T, NEW meant, NEW args, NEW via, NEW plain, Queried(T, meant, args, via, plain)
  PROVE  /\ sent.meant = meant /\ sent.args = args /\ sent.via = via /\ sent.plain = plain
         /\ sent.kind \in {"text", "refused"}
  BY DEF Queried, query_s, Statement

LEMMA QueriedApart ==
  ASSUME NEW T, NEW meant, NEW args, NEW via, NEW plain, Queried(T, meant, args, via, plain),
         driver # "mysql_async" \/ args = <<>>
  PROVE  /\ sent.kind = "text" /\ sent.bound = args
         /\ driver # "postgresql" => sent.sql = T
         /\ driver = "postgresql" => sent.sql = replace_postgresql_placeholders(T)
<1>1. PICK S : S = IF driver = "postgresql" THEN replace_postgresql_placeholders(T) ELSE T
  OBVIOUS
<1>2. sent = Statement("text", S, args, meant, args, via, plain)
  BY <1>1 DEF Queried, query_s
<1>3. QED BY <1>1, <1>2 DEF Statement

LEMMA QueriedFormats ==
  ASSUME NEW T, NEW meant, NEW args, NEW via, NEW plain, Queried(T, meant, args, via, plain),
         driver = "mysql_async", args # <<>>,
         NEW done, done = format_query_args(T, lang = "mysql_plain", args)
  PROVE  /\ sent.kind = "refused" <=> done.thrown
         /\ ~done.thrown => sent.kind = "text" /\ sent.sql = done.sql
         /\ sent.bound = <<>>
<1>1. sent = IF done.thrown THEN Statement("refused", <<>>, <<>>, meant, args, via, plain)
                            ELSE Statement("text", done.sql, <<>>, meant, args, via, plain)
  BY DEF Queried, query_s
<1>2. QED BY <1>1 DEF Statement

LEMMA DriversAre ==
  ASSUME TypeInv
  PROVE  /\ driver \in {"sqlite", "mysql", "mysql_async", "postgresql"}
         /\ driver = "mysql_async" => lang \in {"mysql", "mysql_plain"}
         /\ driver = "postgresql" <=> lang = "postgresql"
  BY BuilderAssumption DEF TypeInv, IsMysql

\* The words of the program are no parameters.
LEMMA BoundFilled ==
  ASSUME NEW K \in Seq(Lexemes(Characters)), NEW args \in Arguments, Len(args) = Marks(K)
  PROVE  Bound(FilledWith(K, Numbers), args) = Filled(K, args)
<1>1. /\ Len(args) \in Nat /\ DOMAIN args = 1..Len(args) /\ Len(args) <= MaxArgs
      /\ MaxArgs \in Nat
  BY ArgumentsAre, LenProperties, BuilderAssumption
<1>2. DOMAIN Parameters = 1..Len(Parameters) /\ Len(Parameters) \in Nat /\ MaxArgs <= Len(Parameters)
  BY TextAssumption, LenProperties
<1>3. \A n \in DOMAIN args : n \in Nat /\ n \in DOMAIN Parameters
  BY <1>1, <1>2
<1>4. \A n \in DOMAIN args : Parameter(n) = Parameters[n]
  BY <1>3 DEF Parameter
<1>5. \A n \in DOMAIN args : Parameter(n) \notin Characters
  BY <1>3, <1>4 DEF Characters
<1>6. \A m, n \in DOMAIN args : Word(Parameter(m)) = Word(Parameter(n)) => m = n
  <2>1. \A c, d : Word(c) = Word(d) => c = d
    <3>1. SUFFICES ASSUME NEW c, NEW d, Word(c) = Word(d) PROVE c = d
      OBVIOUS
    <3>2. Word(c).text = <<c>> /\ Word(d).text = <<d>>
      BY DEF Word, Lexeme
    <3>3. QED BY <3>1, <3>2
  <2>2. QED BY <1>3, <1>4, <2>1, TextAssumption
<1>7. PICK S : S = FilledWith(K, Numbers)
  OBVIOUS
<1>8. S = [i \in DOMAIN K |-> IF K[i] = Mark THEN Numbers[Marks(SubSeq(K, 1, i))] ELSE K[i]]
  BY <1>7 DEF FilledWith
<1>9. ASSUME NEW i \in DOMAIN K, K[i] = Mark
      PROVE  /\ Marks(SubSeq(K, 1, i)) \in DOMAIN args
             /\ S[i] = Word(Parameter(Marks(SubSeq(K, 1, i))))
  <2>1. PICK n \in 1..Marks(K) : n = Marks(SubSeq(K, 1, i))
    BY <1>9, MarkRank
  <2>2. n \in DOMAIN args
    BY <1>1, <2>1
  <2>3. S[i] = Numbers[n] /\ n \in Nat
    BY <1>3, <1>8, <1>9, <2>1, <2>2
  <2>4. QED BY <2>1, <2>2, <2>3 DEF Numbers
<1>10. ASSUME NEW i \in DOMAIN K, K[i] # Mark
       PROVE  S[i] = K[i] /\ \A n \in DOMAIN args : K[i] # Word(Parameter(n))
  <2>1. S[i] = K[i]
    BY <1>8, <1>10
  <2>2. K[i] \in Lexemes(Characters)
    BY LenProperties, ElementOfSeq
  <2>3. K[i].text \in Seq(Characters)
    BY <2>2 DEF Lexemes
  <2>4. ASSUME NEW n \in DOMAIN args, K[i] = Word(Parameter(n)) PROVE FALSE
    <3>1. PICK c : c = Parameter(n)
      OBVIOUS
    <3>2. K[i].text = <<c>>
      BY <2>4, <3>1 DEF Word, Lexeme
    <3>3. PICK t \in Seq(Characters) : t = <<c>>
      BY <2>3, <3>2
    <3>4. Len(t) = 1 /\ t[1] = c
      BY <3>3
    <3>5. c \in Characters
      <4>1. 1 \in 1..Len(t)
        BY <3>4
      <4>2. t[1] \in Characters
        BY <4>1, ElementOfSeq
      <4>3. QED BY <3>4, <4>2
    <3>6. QED BY <1>5, <3>1, <3>5
  <2>5. QED BY <2>1, <2>4
<1>11. DOMAIN S = DOMAIN K
  BY <1>8
<1>12. ASSUME NEW i \in DOMAIN K
       PROVE  (IF \E n \in DOMAIN args : S[i] = Word(Parameter(n))
                 THEN Value(args[CHOOSE n \in DOMAIN args : S[i] = Word(Parameter(n))])
                 ELSE S[i])
              = IF K[i] = Mark THEN Value(args[Marks(SubSeq(K, 1, i))]) ELSE K[i]
  <2>1. CASE K[i] = Mark
    <3>1. PICK m \in DOMAIN args : m = Marks(SubSeq(K, 1, i)) /\ S[i] = Word(Parameter(m))
      BY <1>9, <2>1
    <3>2. (CHOOSE n \in DOMAIN args : S[i] = Word(Parameter(n))) = m
      BY <1>6, <3>1
    <3>3. QED BY <2>1, <3>1, <3>2
  <2>2. CASE K[i] # Mark
    BY <1>10, <2>2
  <2>3. QED BY <2>1, <2>2
<1>13. QED BY <1>7, <1>11, <1>12 DEF Bound, Filled

LEMMA PostgresSays ==
  ASSUME NEW T, NEW K, Readable(T, K), lang = "postgresql"
  PROVE  Says(replace_postgresql_placeholders(T), lang) = FilledWith(K, Numbers)
<1>1. T \in Seq(Numbering)
  BY NumberingIs, SeqOfSubset DEF Readable
<1>2. Good(T, lang, Numbering)
  BY NumberingIs, GoodWider DEF Readable
<1>3. QED BY <1>1, <1>2, NumberingIs, PostgresFills DEF Readable

LEMMA FormatSays ==
  ASSUME NEW T, NEW K, Readable(T, K), lang \in {"mysql", "mysql_plain"}, NEW args \in Arguments,
         NEW done, done = format_query_args(T, lang = "mysql_plain", args)
  PROVE  /\ done.thrown <=> Len(args) # Marks(K)
         /\ ~done.thrown => Says(done.sql, lang) = Filled(K, args)
  BY NumberingIs, ArgumentsAre, FormatFills DEF Readable

LEMMA FilledNone ==
  ASSUME NEW C, NEW K \in Seq(Lexemes(C)), NEW args, Marks(K) = 0
  PROVE  Filled(K, args) = K
<1>1. NoMark(K)
  BY NoMarkTimes
<1>2. PICK n \in Nat : n = Len(K) /\ DOMAIN K = 1..n
  BY LenProperties
<1>3. \A i \in DOMAIN K : K[i] # Mark
  BY <1>1 DEF NoMark
<1>4. Filled(K, args) = [i \in DOMAIN K |-> K[i]]
  BY <1>3 DEF Filled
<1>5. QED BY <1>4

LEMMA QueriedRefills ==
  ASSUME TypeInv, NEW T, NEW K, Readable(T, K), NEW args \in Arguments, NEW meant, NEW via, NEW plain,
         Queried(T, meant, args, via, plain), sent.kind = "text"
  PROVE  Refilled(K, Says(sent.sql, lang))
<1>1. K \in Seq(Lexemes(Characters)) /\ Says(T, lang) = K
  BY DEF Readable
<1>2. CASE driver = "postgresql"
  <2>1. sent.sql = replace_postgresql_placeholders(T)
    BY <1>2, QueriedApart
  <2>2. lang = "postgresql"
    BY <1>2, DriversAre
  <2>3. Says(sent.sql, lang) = FilledWith(K, Numbers)
    BY <2>1, <2>2, PostgresSays
  <2>4. QED BY <1>1, <2>3, FilledRefills
<1>3. CASE driver = "mysql_async" /\ args # <<>>
  <2>1. PICK done : done = format_query_args(T, lang = "mysql_plain", args)
    OBVIOUS
  <2>2. ~done.thrown /\ sent.sql = done.sql
    BY <1>3, <2>1, QueriedFormats
  <2>3. lang \in {"mysql", "mysql_plain"}
    BY <1>3, DriversAre
  <2>4. Says(done.sql, lang) = Filled(K, args)
    BY <2>1, <2>2, <2>3, FormatSays
  <2>5. QED BY <1>1, <2>2, <2>4, FilledRefills
<1>4. CASE driver # "postgresql" /\ (driver # "mysql_async" \/ args = <<>>)
  <2>1. sent.sql = T
    BY <1>4, QueriedApart
  <2>2. QED BY <1>1, <2>1, FilledRefills
<1>5. QED BY <1>2, <1>3, <1>4

\* Whoever puts the arguments in their places, the server is told the text with them.
LEMMA QueriedFilled ==
  ASSUME TypeInv, NEW T, NEW K, Readable(T, K), NEW args \in Arguments, NEW meant, NEW via, NEW plain,
         Queried(T, meant, args, via, plain), sent.kind = "text", Len(args) = Marks(K)
  PROVE  Told = Filled(K, args)
<1>1. K \in Seq(Lexemes(Characters)) /\ Says(T, lang) = K
  BY DEF Readable
<1>2. CASE driver = "postgresql"
  <2>1. sent.sql = replace_postgresql_placeholders(T) /\ sent.bound = args
    BY <1>2, QueriedApart
  <2>2. lang = "postgresql"
    BY <1>2, DriversAre
  <2>3. Says(sent.sql, lang) = FilledWith(K, Numbers)
    BY <2>1, <2>2, PostgresSays
  <2>4. Told = Bound(FilledWith(K, Numbers), args)
    BY <1>2, <2>1, <2>3 DEF Told
  <2>5. QED BY <1>1, <2>4, BoundFilled
<1>3. CASE driver = "mysql_async" /\ args # <<>>
  <2>1. PICK done : done = format_query_args(T, lang = "mysql_plain", args)
    OBVIOUS
  <2>2. ~done.thrown /\ sent.sql = done.sql /\ sent.bound = <<>>
    BY <1>3, <2>1, QueriedFormats
  <2>3. lang \in {"mysql", "mysql_plain"}
    BY <1>3, DriversAre
  <2>4. Says(done.sql, lang) = Filled(K, args)
    BY <2>1, <2>2, <2>3, FormatSays
  <2>5. QED BY <1>3, <2>2, <2>4 DEF Told
<1>4. CASE driver # "postgresql" /\ (driver # "mysql_async" \/ args = <<>>)
  <2>1. sent.sql = T /\ sent.bound = args
    BY <1>4, QueriedApart
  <2>2. CASE args = <<>>
    <3>1. Told = K
      BY <1>1, <1>4, <2>1, <2>2 DEF Told
    <3>2. Len(args) = 0
      BY <2>2
    <3>3. QED BY <1>1, <3>1, <3>2, FilledNone
  <2>3. CASE args # <<>>
    BY <1>1, <1>4, <2>1, <2>3 DEF Told
  <2>4. QED BY <2>2, <2>3
<1>5. QED BY <1>2, <1>3, <1>4

\* mysql_async refuses a number of arguments that differs from that of the marks.
LEMMA QueriedRefused ==
  ASSUME TypeInv, NEW T, NEW K, Readable(T, K), NEW args \in Arguments, NEW meant, NEW via, NEW plain,
         Queried(T, meant, args, via, plain), args # <<>>, driver = "mysql_async"
  PROVE  sent.kind = "refused" <=> Len(args) # Marks(K)
<1>1. PICK done : done = format_query_args(T, lang = "mysql_plain", args)
  OBVIOUS
<1>2. lang \in {"mysql", "mysql_plain"}
  BY DriversAre
<1>3. done.thrown <=> Len(args) # Marks(K)
  BY <1>1, <1>2, FormatSays
<1>4. QED BY <1>1, <1>3, QueriedFormats

-----------------------------------------------------------------------------
(* What a stage sends                                                      *)

LEMMA SentIs ==
  ASSUME builder \in Builders, NEW stage, NEW args, NEW plain, SentBy(stage, args, plain),
         NEW T, T = RawText(ContextOf(stage), builder),
         NEW meant, meant = Meant(CallsOf(stage))
  PROVE  /\ builder = "select" => Queried(T, meant, args, stage, plain)
         /\ builder # "select" => /\ args = <<>>
                                  /\ sent = Statement("text", T, <<>>, meant, <<>>, stage, plain)
<1>1. CASE builder = "select"
  <2>1. stage # "delete"
    BY <1>1, StagesTable DEF SentBy
  <2>2. ContextOf(stage) = ctx /\ CallsOf(stage) = calls
    BY <2>1 DEF ContextOf, CallsOf
  <2>3. PICK sql : sql = build_sql(ctx)
    OBVIOUS
  <2>4. sql = IF driver = "postgresql" THEN replace_postgresql_placeholders(T) ELSE T
    BY <1>1, <2>2, <2>3, BuildIs
  <2>5. sent = query_s(sql, meant, args, stage, plain)
    BY <1>1, <2>2, <2>3 DEF SentBy, Executed
  <2>6. QED BY <1>1, <2>4, <2>5 DEF Queried
<1>2. CASE builder # "select"
  <2>1. build_sql(ContextOf(stage)) = T
    BY <1>2, BuildIs
  <2>2. QED BY <1>2, <2>1 DEF SentBy, Executed
<1>3. QED BY <1>1, <1>2

\* What a stage sends says what its calls wrote.
LEMMA StageSpoken ==
  ASSUME IInv, builder \in Builders, NEW stage, NoneMisread(Meant(CallsOf(stage))),
         NEW lin, lin => InOneGo(stage)
  PROVE  \E K : Spoken(ContextOf(stage), CallsOf(stage), lin, K)
<1>1. CallsOf(stage) \in Seq(Call)
  <2>1. <<>> \in Seq(Call)
    BY EmptyIs
  <2>2. QED BY <2>1 DEF CallsOf, IInv, TypeInv
<1>2. TextInv(ContextOf(stage), CallsOf(stage), lin, builder, lang)
  <2>1. CASE CallsOf(stage) = <<>>
    <3>1. ContextOf(stage) = Emptied
      BY <2>1 DEF ContextOf, CallsOf, IInv, CallsInv
    <3>2. QED BY <2>1, <3>1, TextInvEmpty
  <2>2. CASE CallsOf(stage) # <<>>
    <3>1. CallsOf(stage) = calls /\ ContextOf(stage) = ctx
      BY <2>2 DEF ContextOf, CallsOf
    <3>2. lin => linear
      BY <2>2 DEF InOneGo
    <3>3. TextInv(ctx, calls, linear, builder, lang)
      BY DEF IInv, CallsInv
    <3>4. QED BY <3>1, <3>2, <3>3 DEF TextInv
  <2>3. QED BY <2>1, <2>2
<1>3. QED BY <1>1, <1>2, SpokenIs DEF NoneMisread

\* Such a text can be looked through for marks.
LEMMA SpokenReadable ==
  ASSUME NEW c, NEW made, NEW lin, NEW K, Spoken(c, made, lin, K)
  PROVE  Readable(RawText(c, builder), K)
<1>1. PICK T : T = Spelt(Pieces(Characters, lang), K)
  OBVIOUS
<1>2. K \in Seq(Tokens(Characters, lang)) /\ Steady(K) /\ RawText(c, builder) = T
  BY <1>1 DEF Spoken, Toks, Spelling
<1>3. T \in Seq(Characters) /\ Good(T, lang, Characters) /\ Says(T, lang) = K
      /\ K \in Seq(Lexemes(Characters))
  <2>1. Special \subseteq Characters
    BY WordsIs
  <2>2. LET S == Spelt(Pieces(Characters, lang), K)
        IN  S \in Seq(Characters) /\ Good(S, lang, Characters) /\ Says(S, lang) = K
            /\ K \in Seq(Lexemes(Characters))
    BY <1>2, <2>1, TokensSaid, Zenon
  <2>3. QED BY <1>1, <2>2, Zenon
<1>4. QED BY <1>2, <1>3 DEF Readable

LEMMA StageNamed ==
  ASSUME NEW b \in Builders, NEW stage \in Stages[b]
  PROVE  stage \notin {"text", "tuple"}
  BY StagesTable DEF Builders

LEMMA SentClean ==
  ASSUME builder \in Builders, NEW stage \in Stages[builder], sent.via = stage, ~Misreadable
  PROVE  NoneMisread(sent.meant)
<1>1. sent.via \notin {"text", "tuple"}
  BY StageNamed
<1>2. QED BY <1>1 DEF Misreadable, NoneMisread

LEMMA LastExists ==
  ASSUME NEW n \in Nat, NEW S \in SUBSET (1..n), S # {}
  PROVE  \E i \in S : \A j \in S : j <= i
<1>1. PICK D : D = {d \in Nat : d <= n /\ n - d \in S}
  OBVIOUS
<1>2. D \in SUBSET Nat
  BY <1>1
<1>3. \A i \in S : n - i \in Nat /\ n - (n - i) = i /\ n - i <= n
  OBVIOUS
<1>4. \A i \in S : n - i \in D
  BY <1>1, <1>3
<1>5. D # {}
  BY <1>4
<1>6. PICK d \in D : \A e \in D : d <= e
  BY <1>2, <1>5, LeastNumber
<1>7. d \in Nat /\ n - d \in S
  BY <1>1, <1>6
<1>8. ASSUME NEW j \in S PROVE j <= n - d
  <2>1. d <= n - j
    BY <1>4, <1>6
  <2>2. QED BY <1>7, <2>1
<1>9. QED BY <1>7, <1>8

-----------------------------------------------------------------------------
(* The condition is sent                                                   *)

LEMMA CallClean ==
  ASSUME builder \in Builders, NEW made \in Seq(Call), NoneMisread(Meant(made)), NEW i \in DOMAIN made
  PROVE  made[i].operands \in Seq(Toks(lang))
<1>1. made \in Seq(CleanCalls(lang))
  BY CleanCallsAre DEF NoneMisread
<1>2. made[i] \in CleanCalls(lang)
  BY <1>1, LenProperties, ElementOfSeq
<1>3. QED BY <1>2 DEF CleanCalls

\* The text of an update or of a remove is sent as it is.
LEMMA StatementIs ==
  ASSUME NEW T, NEW meant, NEW stage, NEW plain,
         sent = Statement("text", T, <<>>, meant, <<>>, stage, plain)
  PROVE  /\ sent.kind = "text" /\ sent.sql = T /\ sent.bound = <<>> /\ sent.meant = meant
         /\ sent.args = <<>> /\ sent.via = stage /\ sent.plain = plain
  BY DEF Statement

LEMMA SentFields ==
  ASSUME builder \in Builders, NEW stage, NEW args, NEW plain, SentBy(stage, args, plain)
  PROVE  /\ sent.meant = Meant(CallsOf(stage)) /\ sent.args = args /\ sent.via = stage
         /\ sent.plain = plain /\ sent.kind \in {"text", "refused"}
<1>1. PICK T, meant : T = RawText(ContextOf(stage), builder) /\ meant = Meant(CallsOf(stage))
  OBVIOUS
<1>2. CASE builder = "select"
  <2>1. Queried(T, meant, args, stage, plain)
    BY <1>1, <1>2, SentIs
  <2>2. QED BY <1>1, <2>1, QueriedIs
<1>3. CASE builder # "select"
  <2>1. args = <<>> /\ sent = Statement("text", T, <<>>, meant, <<>>, stage, plain)
    BY <1>1, <1>3, SentIs
  <2>2. QED BY <1>1, <2>1, StatementIs
<1>4. QED BY <1>2, <1>3

LEMMA SentRefills ==
  ASSUME TypeInv, builder \in Builders, NEW stage, NEW args, NEW plain, SentBy(stage, args, plain),
         sent.kind = "text", NEW K, Readable(RawText(ContextOf(stage), builder), K)
  PROVE  Refilled(K, Says(sent.sql, lang))
<1>1. PICK T, meant : T = RawText(ContextOf(stage), builder) /\ meant = Meant(CallsOf(stage))
  OBVIOUS
<1>2. CASE builder = "select"
  <2>1. Queried(T, meant, args, stage, plain) /\ args \in Arguments
    BY <1>1, <1>2, SentIs DEF SentBy
  <2>2. QED BY <1>1, <2>1, QueriedRefills
<1>3. CASE builder # "select"
  <2>1. sent = Statement("text", T, <<>>, meant, <<>>, stage, plain)
    BY <1>1, <1>3, SentIs
  <2>2. sent.sql = T
    BY <2>1, StatementIs
  <2>3. Says(sent.sql, lang) = K /\ K \in Seq(Lexemes(Characters))
    BY <1>1, <2>2 DEF Readable
  <2>4. QED BY <2>3, FilledRefills
<1>4. QED BY <1>2, <1>3

LEMMA CalledByStage ==
  ASSUME IInv, sent.kind = "text", Wheres # {}
  PROVE  builder \in Builders /\ \E stage, args, plain : SentBy(stage, args, plain)
<1>1. builder # "none"
  <2>1. PICK i \in DOMAIN calls : Legal(calls[i], builder)
    BY DEF Wheres, IInv, CallsInv
  <2>2. calls[i].stage \in Stages[builder]
    BY <2>1 DEF Legal
  <2>3. QED BY <2>2, StagesTable
<1>2. sent # Nothing
  BY NothingKind
<1>3. QED BY <1>1, <1>2 DEF IInv, SendInv, SentInv

\* The condition is in what the server is told.
LEMMA ConditionSent ==
  ASSUME IInv, sent.kind = "text", Wheres # {}, sent.via # "delete", ~Misreadable,
         NEW last, last = calls[CHOOSE i \in Wheres : \A j \in Wheres : j <= i].operands,
         NEW says, says = Says(sent.sql, lang)
  PROVE  SaysCondition(says, last)
<1>1. PICK stage, args, plain : SentBy(stage, args, plain)
  BY CalledByStage
<1>2. builder \in Builders /\ TypeInv
  BY CalledByStage DEF IInv
<1>3. stage \in Stages[builder] /\ sent.via = stage /\ sent.meant = Meant(CallsOf(stage))
  BY <1>1, <1>2, SentFields DEF SentBy
<1>4. CallsOf(stage) = calls /\ NoneMisread(Meant(calls))
  BY <1>2, <1>3, SentClean DEF CallsOf
<1>5. calls \in Seq(Call)
  BY <1>2 DEF TypeInv
<1>6. PICK i : i = CHOOSE k \in Wheres : \A j \in Wheres : j <= k
  OBVIOUS
<1>7. i \in Wheres /\ \A j \in Wheres : j <= i
  <2>1. PICK n \in Nat : n = Len(calls) /\ DOMAIN calls = 1..n
    BY <1>5, LenProperties
  <2>2. Wheres \in SUBSET (1..n)
    BY <2>1 DEF Wheres
  <2>3. \E k \in Wheres : \A j \in Wheres : j <= k
    BY <2>2, LastExists
  <2>4. QED BY <1>6, <2>3
<1>8. LastWhere(calls, i)
  <2>1. DOMAIN calls \subseteq Nat
    BY <1>5, LenProperties
  <2>2. i \in DOMAIN calls /\ calls[i].clause = "where"
    BY <1>7 DEF Wheres
  <2>3. ASSUME NEW j \in DOMAIN calls, j > i PROVE calls[j].clause # "where"
    BY <1>7, <2>1, <2>2, <2>3 DEF Wheres
  <2>4. QED BY <2>2, <2>3 DEF LastWhere
<1>9. PICK K : Spoken(ContextOf(stage), calls, FALSE, K)
  BY <1>2, <1>4, StageSpoken
<1>10. K \in Seq(Toks(lang)) /\ HasCondition(K, last, lang)
  BY <1>6, <1>8, <1>9 DEF Spoken
<1>11. last \in Seq(Toks(lang))
  BY <1>2, <1>4, <1>5, <1>6, <1>8, CallClean DEF LastWhere
<1>12. Refilled(K, says)
  BY <1>1, <1>2, <1>9, SpokenReadable, SentRefills
<1>13. QED BY <1>10, <1>11, <1>12, WhereFollows

LEMMA ConditionKept == IInv => ConditionIsSent
<1> DEFINE last == calls[CHOOSE i \in Wheres : \A j \in Wheres : j <= i].operands
           says == Says(sent.sql, lang)
<1>1. PICK l : l = last
  OBVIOUS
<1>2. PICK s : s = says
  OBVIOUS
<1>3. IInv /\ sent.kind = "text" /\ Wheres # {} /\ sent.via # "delete" /\ ~Misreadable
        => SaysCondition(s, l)
  BY <1>1, <1>2, ConditionSent
<1>4. ConditionIsSent <=>
        (sent.kind = "text" /\ Wheres # {} /\ sent.via # "delete" /\ ~Misreadable
           => \E i \in DOMAIN says :
                /\ says[i] = Plain("where") /\ Len(says) >= i + Len(last)
                /\ \A j \in DOMAIN last : last[j] = Mark \/ says[i + j] = last[j])
  BY Zenon DEF ConditionIsSent, Wheres
<1>5. SaysCondition(s, l) =>
        \E i \in DOMAIN says :
          /\ says[i] = Plain("where") /\ Len(says) >= i + Len(last)
          /\ \A j \in DOMAIN last : last[j] = Mark \/ says[i + j] = last[j]
  BY <1>1, <1>2 DEF SaysCondition, Plain
<1>6. QED BY <1>3, <1>4, <1>5

-----------------------------------------------------------------------------
(* What the server is told                                                 *)

LEMMA QueriedReads ==
  ASSUME TypeInv, NEW T, NEW K, Readable(T, K), NEW args \in Arguments, NEW via, via # "tuple",
         NEW plain, Queried(T, K, args, via, plain)
  PROVE  ReadsWell
<1>1. sent.meant = K /\ sent.args = args /\ sent.via = via
  BY QueriedIs
<1>2. ASSUME sent.kind = "text", Len(args) = Marks(K) PROVE Told = Filled(K, args)
  BY <1>2, QueriedFilled
<1>3. ASSUME args # <<>>, WritesArguments PROVE sent.kind = "refused" <=> Len(args) # Marks(K)
  <2>1. driver = "mysql_async"
    BY <1>1, <1>3 DEF WritesArguments
  <2>2. QED BY <1>3, <2>1, QueriedRefused
<1>4. QED BY <1>1, <1>2, <1>3 DEF ReadsWell

LEMMA UnboundReads ==
  ASSUME NEW T, NEW K, Readable(T, K), NEW stage, NEW plain,
         sent = Statement("text", T, <<>>, K, <<>>, stage, plain)
  PROVE  ReadsWell
<1>1. /\ sent.kind = "text" /\ sent.sql = T /\ sent.bound = <<>> /\ sent.meant = K
      /\ sent.args = <<>>
  BY StatementIs
<1>2. K \in Seq(Lexemes(Characters)) /\ Says(T, lang) = K
  BY DEF Readable
<1>3. Told = K
  <2>1. CASE driver = "postgresql"
    <3>1. PICK e : e = <<>>
      OBVIOUS
    <3>2. DOMAIN e = {}
      BY <3>1
    <3>3. Bound(K, e) = [i \in DOMAIN K |-> K[i]]
      BY <3>2 DEF Bound
    <3>4. Bound(K, e) = K
      BY <1>2, <3>3
    <3>5. QED BY <1>1, <1>2, <2>1, <3>1, <3>4 DEF Told
  <2>2. CASE driver # "postgresql"
    BY <1>1, <1>2, <2>2 DEF Told
  <2>3. QED BY <2>1, <2>2
<1>4. ASSUME Len(sent.args) = Marks(K) PROVE Told = Filled(K, <<>>)
  <2>1. Marks(K) = 0
    BY <1>1, <1>4
  <2>2. Filled(K, <<>>) = K
    BY <1>2, <2>1, FilledNone
  <2>3. QED BY <1>3, <2>2
<1>5. QED BY <1>1, <1>4 DEF ReadsWell

\* A statement of a stage is read as it was meant.
LEMMA StageReads ==
  ASSUME IInv, builder \in Builders, NEW stage, NEW args, NEW plain, SentBy(stage, args, plain),
         sent.plain, ~Misreadable
  PROVE  ReadsWell
<1>1. /\ stage \in Stages[builder] /\ sent.via = stage /\ sent.meant = Meant(CallsOf(stage))
      /\ InOneGo(stage) /\ args \in Arguments
  <2>1. /\ sent.meant = Meant(CallsOf(stage)) /\ sent.args = args /\ sent.via = stage
        /\ sent.plain = plain /\ sent.kind \in {"text", "refused"}
    BY SentFields, Zenon
  <2>2. /\ stage \in Stages[builder] /\ args \in Arguments /\ (plain => InOneGo(stage))
    BY DEF SentBy
  <2>3. QED BY <2>1, <2>2, Zenon
<1>2. NoneMisread(Meant(CallsOf(stage)))
  BY <1>1, SentClean
<1>3. PICK K : Spoken(ContextOf(stage), CallsOf(stage), TRUE, K)
  BY <1>1, <1>2, StageSpoken
<1>4. PICK T : T = RawText(ContextOf(stage), builder)
  OBVIOUS
<1>5. Readable(T, K)
  BY <1>3, <1>4, SpokenReadable
<1>6. K = Meant(CallsOf(stage))
  BY <1>3 DEF Spoken
<1>7. CASE builder = "select"
  <2>1. Queried(T, K, args, stage, plain)
    BY <1>4, <1>6, <1>7, SentIs
  <2>2. stage # "tuple"
    BY <1>1, StageNamed
  <2>3. QED BY <1>1, <1>5, <2>1, <2>2, QueriedReads DEF IInv
<1>8. CASE builder # "select"
  <2>1. sent = Statement("text", T, <<>>, K, <<>>, stage, plain)
    BY <1>4, <1>6, <1>8, SentIs
  <2>2. QED BY <1>5, <2>1, UnboundReads
<1>9. QED BY <1>7, <1>8

-----------------------------------------------------------------------------
(* A text of the program as the condition of a select                      *)

LEMMA TextIs ==
  ASSUME NEW text \in Texts
  PROVE  text \in Seq(Characters) /\ text # <<>>
<1>1. PICK parts \in SeqUpTo(Fragments, MaxFragments) : text = Joined(parts) \o <<"?">>
  BY DEF Texts
<1>2. PICK m \in 0..MaxFragments : parts \in [1..m -> Fragments]
  BY DEF SeqUpTo
<1>3. parts \in Seq(Fragments)
  BY <1>2, BuilderAssumption
<1>4. Fragments \subseteq Seq(Characters) /\ "?" \in Characters
  BY TextAssumption DEF Special
<1>5. parts \in Seq(Seq(Characters))
  BY <1>3, <1>4, SeqOfSubset
<1>6. PICK j \in Seq(Characters) : j = Joined(parts)
  BY <1>5, JoinedType
<1>7. PICK q \in Seq(Characters) : q = <<"?">> /\ Len(q) = 1
  BY <1>4, OneIsSeq
<1>8. text = j \o q
  BY <1>1, <1>6, <1>7
<1>9. text \in Seq(Characters) /\ Len(text) = Len(j) + 1 /\ Len(j) \in Nat
  BY <1>7, <1>8, ConcatProperties, LenProperties
<1>10. QED BY <1>9

LEMMA NothingAdded ==
  ASSUME NEW C, NEW s \in Seq(C), NEW u, NEW e, e = <<>>, Prefixed(u, s, e)
  PROVE  u = s
  BY ConcatEmptySeq DEF Prefixed

LEMMA EightJoined ==
  ASSUME NEW C, NEW h \in Seq(C), NEW w \in Seq(C), NEW e, e = <<>>
  PROVE  Prefixed(Joined(<<h, e, w, e, e, e, e, e>>), h, w)
<1>1. PICK x \in Seq(C) : x = e
  BY EmptyIs
<1>2. PICK parts : parts = <<h, x, w, x, x, x, x, x>>
  OBVIOUS
<1>3. /\ parts \in Seq(Seq(C)) /\ Len(parts) = 8
      /\ parts[1] = h /\ parts[2] = x /\ parts[3] = w /\ parts[4] = x /\ parts[5] = x
      /\ parts[6] = x /\ parts[7] = x /\ parts[8] = x
  BY <1>2
<1>4. PICK f : f \in [0..8 -> Seq(C)] /\ Joins(f, parts) /\ Joined(parts) = f[8]
  BY <1>3, JoinedSteps
<1>5. f[0] = <<>> /\ \A n \in 1..8 : Prefixed(f[n], f[n - 1], parts[n])
  BY <1>3, <1>4 DEF Joins, Prefixed
<1>6. /\ Prefixed(f[1], f[0], h) /\ Prefixed(f[2], f[1], x) /\ Prefixed(f[3], f[2], w)
      /\ Prefixed(f[4], f[3], x) /\ Prefixed(f[5], f[4], x) /\ Prefixed(f[6], f[5], x)
      /\ Prefixed(f[7], f[6], x) /\ Prefixed(f[8], f[7], x)
  <2>1. \A n \in 1..8, m \in 0..7 : \A p : m = n - 1 /\ p = parts[n] => Prefixed(f[n], f[m], p)
    BY <1>5
  <2>2. QED BY <1>3, <2>1
<1>7. f[1] = h
  BY <1>5, <1>6, ConcatEmptySeq DEF Prefixed
<1>8. f[2] = h
  BY <1>1, <1>6, <1>7, NothingAdded
<1>9. PICK u \in Seq(C) : Prefixed(u, h, w)
  BY ConcatProperties DEF Prefixed
<1>10. f[3] = u
  BY <1>6, <1>8, <1>9 DEF Prefixed
<1>11. f[4] = u
  BY <1>1, <1>6, <1>10, NothingAdded
<1>12. f[5] = u
  BY <1>1, <1>6, <1>11, NothingAdded
<1>13. f[6] = u
  BY <1>1, <1>6, <1>12, NothingAdded
<1>14. f[7] = u
  BY <1>1, <1>6, <1>13, NothingAdded
<1>15. f[8] = u
  BY <1>1, <1>6, <1>14, NothingAdded
<1>16. parts = <<h, e, w, e, e, e, e, e>>
  BY <1>1, <1>2
<1>17. QED BY <1>4, <1>9, <1>15, <1>16

\* After a word the server is outside of everything.
LEMMA WordRead ==
  ASSUME NEW C, Alphabet(C), NEW c \in C, c \notin Special, NEW l, NEW x \in States(C),
         x.mode = "plain"
  PROVE  /\ Runs(x, <<c>>, l) \in States(C) /\ Runs(x, <<c>>, l).mode = "plain"
         /\ Settled(Runs(x, <<c>>, l)) = Append(Settled(x), Word(c))
<1>1. Runs(x, <<c>>, l) = Reads(x, c, l)
  BY RunsOne
<1>2. PICK r \in Seq(Lexemes(C)) : r = Append(Settled(x), Word(c))
  BY SettledIs, WordIs, AppendProperties
<1>3. Reads(x, c, l) = Reading("plain", r, <<>>)
  <2>1. x.mode \in Rest
    BY DEF Rest
  <2>2. QED BY <1>2, <2>1, ReadsWord
<1>4. Settled(Reading("plain", r, <<>>)) = r
  BY SettledPlain
<1>5. Reading("plain", r, <<>>) \in States(C)
  <2>1. <<>> \in Seq(C) /\ "plain" \in Modes
    BY EmptyIs DEF Modes
  <2>2. QED BY <2>1, StateIs
<1>6. QED BY <1>1, <1>2, <1>3, <1>4, <1>5, ReadingIs

\* Two words in front of a text.
LEMMA TwoIs ==
  ASSUME NEW X, NEW x \in X, NEW y \in X
  PROVE  Append(<<x>>, y) = <<x, y>>
<1>1. <<x>> \in Seq(X) /\ Len(<<x>>) = 1 /\ <<x>>[1] = x
  OBVIOUS
<1>2. PICK b \in Seq(X) : b = <<x, y>>
  BY TwoOfThem
<1>3. Len(b) = 2 /\ b[1] = x /\ b[2] = y
  BY <1>2
<1>4. PICK a \in Seq(X) : a = Append(<<x>>, y)
  BY <1>1, AppendProperties
<1>5. Len(a) = 2 /\ a[1] = x /\ a[2] = y
  BY <1>1, <1>4, AppendProperties
<1>6. a = b
  BY <1>3, <1>5, SeqEqual
<1>7. QED BY <1>2, <1>4, <1>6

\* A text of the program behind the words of the select.
LEMMA HeadedReads ==
  ASSUME NEW c \in Characters \ Special, NEW d \in Characters \ Special,
         NEW text \in Seq(Characters), Sound(text), NEW v, Prefixed(v, <<d>>, text),
         NEW u, Prefixed(u, <<c>>, v)
  PROVE  Readable(u, <<Word(c), Word(d)>> \o Says(text, lang))
<1>1. Alphabet(Characters)
  BY NumberingIs
<1>2. PICK h \in Seq(Characters) : h = <<c>>
  BY OneIsSeq
<1>3. PICK k \in Seq(Characters) : k = <<d>>
  BY OneIsSeq
<1>4. v = k \o text /\ v \in Seq(Characters)
  BY <1>3, ConcatProperties DEF Prefixed
<1>5. u = h \o v /\ u \in Seq(Characters)
  BY <1>2, <1>4, ConcatProperties DEF Prefixed
<1>6. Good(text, lang, Characters)
  BY <1>1, SoundGood
<1>7. Good(v, lang, Characters)
  <2>1. Good(<<d>> \o text, lang, Characters)
    BY <1>1, <1>6, GoodHead
  <2>2. QED BY <2>1 DEF Prefixed
<1>8. Good(u, lang, Characters)
  <2>1. Good(<<c>> \o v, lang, Characters)
    BY <1>1, <1>4, <1>7, GoodHead
  <2>2. QED BY <2>1 DEF Prefixed
<1>9. PICK D \in Seq(Characters) : D = h \o k
  BY ConcatProperties
<1>10. u = D \o text
  BY <1>4, <1>5, <1>9, ConcatAssociative
<1>11. PICK o \in States(Characters) : o = Outset
  BY OutsetIs
<1>12. PICK x \in States(Characters) : x = Runs(o, h, lang)
  BY <1>1, RunsType
<1>13. PICK y \in States(Characters) : y = Runs(x, k, lang)
  BY <1>1, RunsType
<1>14. Runs(Outset, D, lang) = y
  BY <1>1, <1>9, <1>11, <1>12, <1>13, RunsConcat
<1>15. x.mode = "plain" /\ Settled(x) = Append(Settled(o), Word(c))
  <2>1. o.mode = "plain"
    BY <1>11, OutsetIs
  <2>2. QED BY <1>1, <1>2, <1>12, <2>1, WordRead
<1>16. y.mode = "plain" /\ Settled(y) = Append(Settled(x), Word(d))
  BY <1>1, <1>3, <1>13, <1>15, WordRead
<1>17. Settled(o) = <<>>
  <2>1. PICK e \in Seq(Lexemes(Characters)) : e = <<>>
    BY EmptyIs
  <2>2. o = Reading("plain", e, <<>>)
    BY <1>11, <2>1 DEF Outset
  <2>3. QED BY <2>1, <2>2, SettledPlain
<1>18. Settled(y) = <<Word(c), Word(d)>>
  <2>1. PICK a \in Lexemes(Characters) : a = Word(c)
    BY WordIs
  <2>2. PICK b \in Lexemes(Characters) : b = Word(d)
    BY WordIs
  <2>3. Settled(x) = <<a>>
    BY <1>15, <1>17, <2>1, OneIsSeq
  <2>4. Settled(y) = Append(<<a>>, b)
    BY <1>16, <2>2, <2>3
  <2>5. Append(<<a>>, b) = <<a, b>>
    BY TwoIs
  <2>6. QED BY <2>1, <2>2, <2>4, <2>5
<1>19. SaysBoth(D, text, lang)
  BY <1>1, <1>14, <1>16, SaysAfter
<1>20. Says(u, lang) = <<Word(c), Word(d)>> \o Says(text, lang)
  BY <1>10, <1>14, <1>18, <1>19 DEF SaysBoth
<1>21. Says(u, lang) \in Seq(Lexemes(Characters))
  BY <1>1, <1>5, SaysType
<1>22. QED BY <1>5, <1>8, <1>20, <1>21 DEF Readable

\* query_s() makes the text the condition of a select.
LEMMA OwnConditionIs ==
  ASSUME NEW text \in Texts, NEW v, Prefixed(v, <<"where">>, text),
         NEW u, Prefixed(u, <<"select">>, v)
  PROVE  select_sql(OwnCondition(text)) =
           IF driver = "postgresql" THEN replace_postgresql_placeholders(u) ELSE u
<1>1. PICK c : c = OwnCondition(text)
  OBVIOUS
<1>2. PICK e : e = <<>>
  OBVIOUS
<1>3. c = [w \in Clauses |-> IF w = "where" THEN text ELSE e]
  BY <1>1, <1>2 DEF OwnCondition, Emptied
<1>4. /\ c["join"] = e /\ c["group by"] = e /\ c["having"] = e
      /\ c["order by"] = e /\ c["limit"] = e /\ c["offset"] = e /\ c["where"] = text
  BY <1>3, Zenon DEF Clauses
<1>5. text \in Seq(Characters) /\ text # <<>>
  BY TextIs
<1>6. WhereText(c) = v
  BY <1>4, <1>5, Zenon DEF WhereText, Prefixed
<1>7. PICK h \in Seq(Characters) : h = <<"select">>
  BY WordsIs, OneIsSeq
<1>8. PICK k \in Seq(Characters) : k = <<"where">>
  BY WordsIs, OneIsSeq DEF Words
<1>9. v \in Seq(Characters)
  BY <1>5, <1>8, ConcatProperties DEF Prefixed
<1>10. Prefixed(Joined(<<h, e, v, e, e, e, e, e>>), h, v)
  BY <1>2, <1>9, EightJoined
<1>11. Joined(<<h, e, v, e, e, e, e, e>>) = u
  BY <1>7, <1>10 DEF Prefixed
<1>12. PICK j, g, i, o, m, f :
         /\ j = c["join"] /\ g = c["group by"] /\ i = c["having"] /\ o = c["order by"]
         /\ m = c["limit"] /\ f = c["offset"]
  OBVIOUS
<1>13. Joined(<< <<"select">>, j, WhereText(c), g, i, o, m, f >>) = u
  <2>1. j = e /\ g = e /\ i = e /\ o = e /\ m = e /\ f = e
    BY <1>4, <1>12, Zenon
  <2>2. QED BY <1>6, <1>7, <1>11, <2>1
<1>14. QED BY <1>1, <1>12, <1>13, Zenon DEF select_sql

\* query_s() with a text of the program is read as it was written.
LEMMA TextReads ==
  ASSUME TypeInv, NEW text \in Texts, NEW args \in Arguments,
         sent = query_s(select_sql(OwnCondition(text)),
                        <<Plain("select"), Plain("where")>> \o Says(text, lang),
                        args, "text", Sound(text)),
         sent.plain
  PROVE  ReadsWell
<1>1. text \in Seq(Characters)
  BY TextIs
<1>2. "select" \in Characters \ Special /\ "where" \in Characters \ Special
  BY WordsIs DEF Words
<1>3. PICK v : Prefixed(v, <<"where">>, text)
  BY DEF Prefixed
<1>4. PICK u : Prefixed(u, <<"select">>, v)
  BY DEF Prefixed
<1>5. PICK K : K = <<Word("select"), Word("where")>> \o Says(text, lang)
  OBVIOUS
<1>6. PICK plain : plain = Sound(text)
  OBVIOUS
<1>7. Queried(u, K, args, "text", plain)
  BY <1>3, <1>4, <1>5, <1>6, OwnConditionIs DEF Queried, Plain
<1>8. Sound(text)
  BY <1>6, <1>7, QueriedIs
<1>9. Readable(u, K)
  BY <1>1, <1>2, <1>3, <1>4, <1>5, <1>8, HeadedReads
<1>10. QED BY <1>7, <1>9, QueriedReads

-----------------------------------------------------------------------------
(* The marks of a text, replaced one after the other by get_str()          *)

\* Around its first `?', of which there is one.
LEMMA FirstSplit ==
  ASSUME NEW C, NEW B \in Seq(C), Times("?", B) # 0
  PROVE  \E t \in Seq(C), w \in Seq(C) : B = Around(t, "?", w) /\ Times("?", t) = 0
<1>1. PICK S : S = {i \in DOMAIN B : B[i] = "?"}
  OBVIOUS
<1>2. DOMAIN B = 1..Len(B) /\ Len(B) \in Nat
  BY LenProperties
<1>3. S \in SUBSET Nat /\ S # {}
  <2>1. ~ \A i \in DOMAIN B : B[i] # "?"
    BY TimesNone
  <2>2. QED BY <1>1, <1>2, <2>1
<1>4. PICK k \in S : \A m \in S : k <= m
  BY <1>3, LeastNumber
<1>5. k \in 1..Len(B) /\ B[k] = "?" /\ k \in Nat
  BY <1>1, <1>2
<1>6. PICK w \in Seq(C) : /\ B = Around(SubSeq(B, 1, k - 1), B[k], w)
                          /\ SubSeq(B, 1, k - 1) \in Seq(C)
                          /\ Len(SubSeq(B, 1, k - 1)) = k - 1
  BY <1>5, SplitAt
<1>7. PICK t \in Seq(C) : t = SubSeq(B, 1, k - 1) /\ Len(t) = k - 1 /\ B = Around(t, "?", w)
  BY <1>5, <1>6
<1>8. ASSUME NEW j \in DOMAIN t PROVE t[j] # "?"
  <2>1. PICK n \in Nat : n = k - 1 /\ n \in 0..Len(B)
    BY <1>2, <1>5
  <2>2. \A i \in 1..n : t[i] = B[i]
    BY <1>7, <2>1, PrefixIs
  <2>3. DOMAIN t = 1..n
    BY <1>7, <2>1, LenProperties
  <2>4. j \in Nat /\ j < k /\ j \in DOMAIN B /\ t[j] = B[j]
    BY <1>2, <1>5, <2>1, <2>2, <2>3
  <2>5. j \notin S
    BY <1>4, <1>5, <2>4
  <2>6. QED BY <1>1, <2>4, <2>5
<1>9. Times("?", t) = 0
  BY <1>8, TimesNone
<1>10. QED BY <1>7, <1>9

\* If as many `?' as marks are in a text, the first `?' is the first mark.
LEMMA FirstIsMark ==
  ASSUME NEW C, Alphabet(C), NEW l, NEW B \in Seq(C), "?" \in C, Good(B, l, C),
         Times("?", B) = Marks(Runs(Outset, B, l).read), Times("?", B) # 0
  PROVE  \E t, w : Leads(B, t, w, l, C) /\ Times("?", B) = Times("?", w) + 1
<1>1. PICK t \in Seq(C), w \in Seq(C) : B = Around(t, "?", w) /\ Times("?", t) = 0
  BY FirstSplit
<1>2. PICK o \in States(C) : o = Outset
  BY OutsetIs
<1>3. PICK y \in States(C) : y = Runs(o, t, l)
  BY RunsType
<1>4. PICK a \in Seq(C) : a = Append(t, "?")
  BY AppendProperties
<1>5. PICK z \in States(C) : z = Reads(y, "?", l)
  BY ReadsType
<1>6. Runs(o, a, l) = z
  BY <1>3, <1>4, <1>5, RunsAppend
<1>7. Marks(o.read) = 0
  <2>1. o.read = <<>>
    BY <1>2, OutsetIs, ReadingIs DEF Outset
  <2>2. QED BY <2>1, TimesEmpty, MarksAreTimes
<1>8. Marks(y.read) = 0 /\ y.read \in Seq(Lexemes(C))
  <2>1. Marks(Runs(o, t, l).read) <= Marks(o.read) + Times("?", t)
    BY MarksInText
  <2>2. y.read \in Seq(Lexemes(C)) /\ Marks(y.read) \in Nat
    BY StateParts, MarksConcat
  <2>3. QED BY <1>1, <1>3, <1>7, <2>1, <2>2
<1>9. PICK k \in Nat : k = Times("?", w)
  BY TimesType
<1>10. Times("?", B) = k + 1
  <2>1. B = a \o w
    BY <1>1, <1>4, AroundAppend
  <2>2. Times("?", a \o w) = Times("?", a) + Times("?", w)
    BY TimesConcat
  <2>3. Times("?", a) = 1
    <3>1. Times("?", Append(t, "?")) = Times("?", t) + IF "?" = "?" THEN 1 ELSE 0
      BY TimesAppend
    <3>2. QED BY <1>1, <1>4, <3>1
  <2>4. Times("?", B) = Times("?", a) + Times("?", w)
    BY <2>1, <2>2
  <2>5. QED BY <1>9, <2>3, <2>4
<1>11. Marks(Runs(z, w, l).read) = k + 1
  <2>1. Runs(o, a \o w, l) = Runs(Runs(o, a, l), w, l)
    BY RunsConcat
  <2>2. B = a \o w
    BY <1>1, <1>4, AroundAppend
  <2>3. QED BY <1>2, <1>6, <1>10, <2>1, <2>2
<1>12. Marks(z.read) # 0
  <2>1. Marks(Runs(z, w, l).read) <= Marks(z.read) + Times("?", w)
    BY MarksInText
  <2>2. QED BY <1>9, <1>11, <2>1
<1>13. y.mode \in Rests(l)
  <2>1. Marks(z.read) = Marks(y.read) + IF "?" = "?" /\ y.mode \in Rests(l) THEN 1 ELSE 0
    BY <1>5, MarkStep
  <2>2. QED BY <1>8, <1>12, <2>1
<1>14. y.mode \in Rest
  <2>1. Apart(y.mode, "?", w, l)
    BY <1>1, <1>2, <1>3, GoodAt
  <2>2. "?" \notin Blank
    BY DEF Blank, Newline
  <2>3. QED BY <1>13, <2>1, <2>2 DEF Apart, Rest, Rests
<1>15. NoMark(y.read)
  BY <1>8, NoMarkTimes
<1>16. Leads(B, t, w, l, C)
  BY <1>1, <1>2, <1>3, <1>14, <1>15 DEF Leads
<1>17. QED BY <1>9, <1>10, <1>16

\* Before the first argument nothing is replaced.
LEMMA ReplacingStart ==
  ASSUME NEW C, Alphabet(C), NEW l, NEW u \in Seq(C), Good(u, l, C),
         NEW g \in [Nat -> Lexemes(C)], Times("?", u) = Marks(Says(u, l))
  PROVE  Replacing(u, u, 0, g, l, C)
<1>1. Halfway(u, u, 1, 0, g, l, C)
  BY HalfwayStart
<1>2. PICK O, B, D, R : /\ Along(O, B, D, R, 0, g, l, C) /\ Splits(u, O, B) /\ Splits(u, D, B)
                        /\ 1 = Len(D) + 1
  BY <1>1, Zenon DEF Halfway, Splits
<1>3. D \in Seq(C) /\ B \in Seq(C)
  BY <1>2 DEF Along
<1>4. D = <<>>
  BY <1>2, <1>3, LenProperties, EmptySeq
<1>5. B = u
  BY <1>2, <1>3, <1>4, ConcatEmptySeq DEF Splits
<1>6. Times("?", D) = 0
  BY <1>4, TimesEmpty
<1>7. Times("?", B) = Marks(Runs(Outset, B, l).read)
  BY <1>5, SaysType
<1>8. QED BY <1>2, <1>6, <1>7, Zenon DEF Replacing

\* find() gives the position of the first `?'.
LEMMA FoundAt ==
  ASSUME NEW C, NEW D \in Seq(C), NEW t \in Seq(C), NEW w \in Seq(C), "?" \in C,
         Times("?", D) = 0, Times("?", t) = 0, NEW sql, Splits(sql, D, Around(t, "?", w))
  PROVE  Found(sql, Len(D) + Len(t) + 1)
<1>1. PICK d \in Seq(C) : d = D \o t /\ Len(d) = Len(D) + Len(t)
  BY ConcatProperties
<1>2. Times("?", d) = 0
  <2>1. Times("?", D \o t) = Times("?", D) + Times("?", t)
    BY TimesConcat
  <2>2. QED BY <1>1, <2>1
<1>3. sql = Around(d, "?", w)
  <2>1. Regrouped(D, t, "?", w)
    BY AroundAfter
  <2>2. QED BY <1>1, <2>1, Zenon DEF Regrouped, Splits
<1>4. sql \in Seq(C) /\ Encloses(sql, d, "?", w)
  BY <1>3, AroundIs
<1>5. PICK n \in Nat, k \in Nat : n = Len(d) /\ k = Len(w)
  BY LenProperties
<1>6. /\ Len(sql) = n + 1 + k /\ sql[n + 1] = "?"
      /\ \A i \in 1..n : sql[i] = d[i]
  BY <1>4, <1>5 DEF Encloses
<1>7. DOMAIN sql = 1..n + 1 + k
  BY <1>4, <1>6, LenProperties
<1>8. \A i \in 1..n : d[i] # "?"
  BY <1>2, <1>5, TimesNone, LenProperties
<1>9. PICK S : S = {i \in DOMAIN sql : sql[i] = "?"}
  OBVIOUS
<1>10. S \in SUBSET Nat /\ n + 1 \in S /\ \A i \in S : n + 1 <= i
  BY <1>6, <1>7, <1>8, <1>9, SMTT(20)
<1>11. Least(S, npos) \in S /\ \A i \in S : Least(S, npos) <= i
  BY <1>10, LeastIs
<1>12. Least(S, npos) = n + 1
  <2>1. PICK m \in Nat : m = Least(S, npos) /\ m \in S
    BY <1>10, <1>11
  <2>2. m <= n + 1
    BY <1>10, <1>11, <2>1
  <2>3. n + 1 <= m
    BY <1>10, <2>1
  <2>4. QED BY <2>1, <2>2, <2>3
<1>13. Len(D) + Len(t) + 1 = n + 1
  BY <1>1, <1>5
<1>14. QED BY <1>9, <1>12, <1>13 DEF Found

\* The text v, in which there is no `?', is put in the place of the next mark.
LEMMA ReplacingStep ==
  ASSUME NEW C, Alphabet(C), NEW l, "?" \in C, NEW u, NEW sql, NEW n \in Nat,
         NEW g \in [Nat -> Lexemes(C)], Replacing(u, sql, n, g, l, C),
         n < Marks(Says(u, l)), NEW v, Puts(v, g[n + 1], l, C), Times("?", v) = 0,
         NEW p, Found(sql, p)
  PROVE  Replacing(u, Replaced(sql, p, v), n + 1, g, l, C)
<1>1. PICK O, B, D, R :
        /\ Along(O, B, D, R, n, g, l, C) /\ Splits(u, O, B) /\ Splits(sql, D, B)
        /\ Times("?", D) = 0
        /\ Times("?", B) = Marks(Runs(Outset, B, l).read)
  BY Zenon DEF Replacing
<1>2. O \in Seq(C) /\ B \in Seq(C) /\ D \in Seq(C) /\ Good(B, l, C) /\ v \in Seq(C)
  BY <1>1 DEF Along, Puts
<1>3. PICK k \in Nat : k = Times("?", B)
  BY <1>2, TimesType
<1>4. Marks(Says(O \o B, l)) = n + k
  BY <1>1, <1>3, LoopEnd
<1>5. k # 0
  BY <1>1, <1>4 DEF Splits
<1>6. PICK t, w : Leads(B, t, w, l, C) /\ k = Times("?", w) + 1
  BY <1>1, <1>2, <1>3, <1>5, FirstIsMark
<1>7. /\ t \in Seq(C) /\ w \in Seq(C) /\ B = Around(t, "?", w) /\ Times("?", t) = 0
      /\ Runs(Outset, t, l).mode \in Rest /\ NoMark(Runs(Outset, t, l).read)
  BY <1>6 DEF Leads
<1>8. Found(sql, Len(D) + Len(t) + 1)
  BY <1>1, <1>2, <1>7, FoundAt
<1>9. p = Len(D) + Len(t) + 1
  BY <1>8, Zenon DEF Found
<1>10. Onward(O, B, D, t, w, v, n, g, l, C)
  BY <1>1, <1>2, <1>7, LoopStep
<1>11. PICK P, Q : Along(P, w, (D \o t) \o v, Q, n + 1, g, l, C) /\ P \o w = O \o B
  BY <1>10, Zenon DEF Onward
<1>12. PICK E : E = (D \o t) \o v
  OBVIOUS
<1>13. Splits(Replaced(sql, p, v), E, w)
  <2>1. PutIn(D, t, "?", w, v)
    BY <1>2, <1>7, ReplacedIs
  <2>2. Replaced(D \o Around(t, "?", w), p, v) = E \o w
    BY <1>9, <1>12, <2>1, Zenon DEF PutIn
  <2>3. QED BY <1>1, <1>7, <2>2, Zenon DEF Splits
<1>14. Splits(u, P, w)
  BY <1>1, <1>11, Zenon DEF Splits
<1>15. Times("?", E) = 0
  <2>1. PICK d \in Seq(C) : d = D \o t
    BY <1>2, <1>7, ConcatProperties
  <2>2. Times("?", D \o t) = Times("?", D) + Times("?", t)
    BY <1>2, <1>7, TimesConcat
  <2>3. Times("?", d \o v) = Times("?", d) + Times("?", v)
    BY <1>2, TimesConcat
  <2>4. QED BY <1>1, <1>7, <1>12, <2>1, <2>2, <2>3
<1>16. Along(P, w, E, Q, n + 1, g, l, C)
  BY <1>11, <1>12
<1>17. Times("?", w) = Marks(Runs(Outset, w, l).read)
  <2>1. PICK M : M = Marks(Runs(Outset, w, l).read)
    OBVIOUS
  <2>2. n + 1 \in Nat
    OBVIOUS
  <2>3. Marks(Says(P \o w, l)) = n + 1 + M /\ M \in Nat
    BY <1>16, <2>1, <2>2, LoopEnd
  <2>4. n + k = n + 1 + M
    BY <1>4, <1>11, <2>3
  <2>5. Times("?", w) \in Nat
    BY <1>7, TimesType
  <2>6. QED BY <1>6, <2>1, <2>3, <2>4, <2>5
<1>18. QED BY <1>13, <1>14, <1>15, <1>16, <1>17, Zenon DEF Replacing

\* get_str() with an argument in which there is no `?'.
LEMMA StrStep ==
  ASSUME NEW C, Alphabet(C), NEW l, "?" \in C, NEW u, NEW sql, NEW n \in Nat,
         NEW g \in [Nat -> Lexemes(C)], Replacing(u, sql, n, g, l, C),
         n < Marks(Says(u, l)), NEW a \in Seq(C \ {"?"}), g[n + 1] = Value(a),
         l = "mysql" => \A i \in DOMAIN a : a[i] # Backslash
  PROVE  Replacing(u, get_str(sql, escape_sql_string(a)), n + 1, g, l, C)
<1>1. Alphabet(C \ {"?"}) /\ " " \in C \ {"?"}
  BY DEF Alphabet, Newline, Backslash
<1>2. a \in Seq(C)
  BY SeqOfSubset
<1>3. Value(a) \in Lexemes(C)
  BY <1>2, LexemeIs DEF Value
<1>4. Puts(escape_sql_string(a), Value(a), l, C)
  BY <1>2, PutsSqlValue
<1>5. Puts(escape_sql_string(a) \o <<" ">>, Value(a), l, C)
  BY <1>3, <1>4, PutsBlank
<1>6. PICK e \in Seq(C \ {"?"}) : e = escape_sql_string(a)
  BY <1>1, PutsSqlValue DEF Puts
<1>7. PICK b \in Seq(C \ {"?"}) : b = <<" ">>
  BY <1>1, OneIsSeq
<1>8. PICK v \in Seq(C \ {"?"}) : v = e \o b
  BY ConcatProperties
<1>9. Times("?", v) = 0
  <2>1. \A i \in DOMAIN v : v[i] \in C \ {"?"}
    BY LenProperties, ElementOfSeq
  <2>2. QED BY <2>1, TimesNone
<1>10. Puts(v, g[n + 1], l, C)
  BY <1>5, <1>6, <1>7, <1>8
<1>11. PICK p : Found(sql, p) /\ get_str(sql, e) = Replaced(sql, p, v)
  BY <1>7, <1>8, Zenon DEF get_str, Found
<1>12. Replacing(u, Replaced(sql, p, v), n + 1, g, l, C)
  BY <1>9, <1>10, <1>11, ReplacingStep
<1>13. QED BY <1>6, <1>11, <1>12

LEMMA StrStepsExist ==
  ASSUME NEW sql, NEW args
  PROVE  \A n \in Nat : \E f : StrSteps(f, sql, args, n)
<1> DEFINE A == {n \in Nat : \E f : StrSteps(f, sql, args, n)}
<1>1. 0 \in A
  <2>1. PICK f : f = [k \in 0..0 |-> sql]
    OBVIOUS
  <2>2. StrSteps(f, sql, args, 0)
    BY <2>1 DEF StrSteps
  <2>3. QED BY <2>2
<1>2. ASSUME NEW n \in A \cap Nat PROVE n + 1 \in A
  <2>1. PICK f : StrSteps(f, sql, args, n)
    OBVIOUS
  <2>0. PICK x : x = get_str(f[n], escape_sql_string(args[n + 1]))
    OBVIOUS
  <2>2. PICK g : g = [k \in 0..n + 1 |-> IF k <= n THEN f[k] ELSE x]
    OBVIOUS
  <2>3. ASSUME NEW k \in 0..n + 1
        PROVE  g[k] = IF k = 0 THEN sql ELSE get_str(g[k - 1], escape_sql_string(args[k]))
    <3>1. CASE k = 0
      BY <2>1, <2>2, <3>1 DEF StrSteps
    <3>2. CASE k \in 1..n
      <4>1. k \in 0..n /\ k - 1 \in 0..n + 1 /\ k - 1 <= n /\ k # 0 /\ k <= n
        BY <3>2
      <4>2. f[k] = get_str(f[k - 1], escape_sql_string(args[k]))
        BY <2>1, <4>1 DEF StrSteps
      <4>3. g[k] = f[k] /\ g[k - 1] = f[k - 1]
        BY <2>2, <4>1
      <4>4. QED BY <4>1, <4>2, <4>3
    <3>3. CASE k = n + 1
      <4>1. k # 0 /\ k - 1 = n /\ n \in 0..n + 1 /\ ~(k <= n)
        BY <3>3
      <4>2. g[n] = f[n] /\ g[k] = x
        BY <2>2, <4>1
      <4>3. QED BY <2>0, <3>3, <4>1, <4>2
    <3>4. n \in Nat /\ (k = 0 \/ k \in 1..n \/ k = n + 1)
      OBVIOUS
    <3>5. QED BY <3>1, <3>2, <3>3, <3>4
  <2>4. StrSteps(g, sql, args, n + 1)
    BY <2>2, <2>3 DEF StrSteps
  <2>5. QED BY <2>4
<1>3. Nat \subseteq A
  <2> HIDE DEF A
  <2>1. QED BY <1>1, <1>2, Induction
<1>4. QED BY <1>3

\* get_sql() of a tuple query(): the arguments come in the place of the marks, each
\* in its own, if the text has no `?' that is not a mark, and the arguments have none.
THEOREM TupleFills ==
  ASSUME NEW C, Alphabet(C), NEW l, "?" \in C, NEW u \in Seq(C), Good(u, l, C),
         NEW args \in Seq(Seq(C \ {"?"})), Times("?", u) = Marks(Says(u, l)),
         Len(args) = Marks(Says(u, l)),
         l = "mysql" => \A n \in DOMAIN args : \A i \in DOMAIN args[n] : args[n][i] # Backslash
  PROVE  Says(get_sql(u, args), l) = Filled(Says(u, l), args)
<1>0. args \in Seq(Seq(C))
  <2>1. Seq(C \ {"?"}) \subseteq Seq(C)
    BY SeqOfSubset
  <2>2. QED BY <2>1, SeqOfSubset
<1>1. PICK N \in Nat : N = Len(args) /\ DOMAIN args = 1..N
  BY LenProperties
<1>2. PICK g \in [Nat -> Lexemes(C)] : g = Given(args) /\ \A n \in 1..N : g[n] = Value(args[n])
  BY <1>0, <1>1, GivenIs
<1> DEFINE after[n \in 0..Len(args)] ==
             IF n = 0 THEN u ELSE get_str(after[n - 1], escape_sql_string(args[n]))
<1>3. after = [n \in 0..Len(args) |->
                 IF n = 0 THEN u ELSE get_str(after[n - 1], escape_sql_string(args[n]))]
  <2>1. \E f : StrSteps(f, u, args, Len(args))
    BY <1>1, StrStepsExist
  <2>2. QED BY <2>1, Zenon DEF StrSteps
<1>4. get_sql(u, args) = after[Len(args)]
  BY Zenon DEF get_sql
<1> HIDE DEF after
<1> DEFINE A == {n \in Nat : n <= N => Replacing(u, after[n], n, g, l, C)}
<1>5. 0 \in A
  <2>1. after[0] = u
    BY <1>1, <1>3
  <2>2. Replacing(u, u, 0, g, l, C)
    BY ReplacingStart
  <2>3. QED BY <2>1, <2>2
<1>6. ASSUME NEW n \in A \cap Nat PROVE n + 1 \in A
  <2>1. SUFFICES ASSUME n + 1 <= N PROVE Replacing(u, after[n + 1], n + 1, g, l, C)
    OBVIOUS
  <2>2. PICK m \in Nat : m = n + 1 /\ m \in 0..N /\ m # 0 /\ m - 1 = n /\ m \in 1..N /\ n <= N
    BY <2>1
  <2>3. Replacing(u, after[n], n, g, l, C)
    BY <2>2
  <2>4. after[m] = get_str(after[n], escape_sql_string(args[m]))
    BY <1>1, <1>3, <2>2
  <2>5. PICK a \in Seq(C \ {"?"}) : a = args[m] /\ g[n + 1] = Value(a)
    BY <1>1, <1>2, <2>2, ElementOfSeq
  <2>6. l = "mysql" => \A i \in DOMAIN a : a[i] # Backslash
    BY <1>1, <2>2, <2>5
  <2>7. n < Marks(Says(u, l))
    BY <1>1, <2>1
  <2>8. Replacing(u, get_str(after[n], escape_sql_string(a)), n + 1, g, l, C)
    BY <2>3, <2>5, <2>6, <2>7, StrStep
  <2>9. QED BY <2>2, <2>4, <2>5, <2>8
<1>7. Replacing(u, after[N], N, g, l, C)
  <2>1. Nat \subseteq A
    <3> HIDE DEF A
    <3>1. QED BY <1>5, <1>6, Induction
  <2>2. QED BY <1>1, <2>1
<1> HIDE DEF A
<1>8. PICK O, B, D, R : /\ Along(O, B, D, R, N, g, l, C)
                        /\ Splits(u, O, B) /\ Splits(after[N], D, B)
  BY <1>7, Zenon DEF Replacing
<1>9. PICK M : M = Marks(Runs(Outset, B, l).read)
  OBVIOUS
<1>10. /\ Marks(Says(u, l)) = N + M /\ M \in Nat
       /\ M = 0 => Says(after[N], l) = FilledWith(Says(u, l), g)
  <2>1. /\ Marks(Says(O \o B, l)) = N + M /\ M \in Nat
        /\ M = 0 => Says(D \o B, l) = FilledWith(Says(O \o B, l), g)
    BY <1>8, <1>9, LoopEnd
  <2>2. QED BY <1>8, <2>1, Zenon DEF Splits
<1>11. Says(after[N], l) = FilledWith(Says(u, l), g)
  BY <1>1, <1>10
<1>12. Filled(Says(u, l), args) = FilledWith(Says(u, l), g)
  <2>1. Says(u, l) \in Seq(Lexemes(C)) /\ Marks(Says(u, l)) <= Len(args)
    BY <1>1, SaysType
  <2>2. QED BY <1>0, <1>2, <2>1, FilledIs
<1>13. QED BY <1>1, <1>4, <1>11, <1>12

\* The fields of a statement of query() with a tuple.
LEMMA TupleIs ==
  ASSUME NEW text, NEW args, sent = query_tuple(text, args)
  PROVE  /\ sent.meant = Says(text, lang) /\ sent.args = args /\ sent.via = "tuple"
         /\ sent.bound = <<>>
         /\ sent.plain <=> Sound(text) /\ Times("?", text) = Marks(Says(text, lang))
         /\ args = <<>> => sent.kind = "text" /\ sent.sql = text
         /\ args # <<>> /\ sent.kind = "text" => sent.sql = get_sql(text, args)
         /\ args # <<>> => (sent.kind = "text" <=>
                              Len(args) = Times("?", text) /\ driver # "postgresql")
         /\ sent.kind \in {"text", "refused"}
<1>1. PICK fits, plain, S : /\ fits <=> (args = <<>> \/ (Len(args) = Times("?", text) /\ driver # "postgresql"))
                      /\ plain = (Sound(text) /\ Times("?", text) = Marks(Says(text, lang)))
                      /\ S = IF args = <<>> THEN text ELSE get_sql(text, args)
  OBVIOUS
<1>2. sent = IF fits THEN Statement("text", S, <<>>, Says(text, lang), args, "tuple", plain)
                     ELSE Statement("refused", <<>>, <<>>, Says(text, lang), args, "tuple", plain)
  BY <1>1 DEF query_tuple, Times
<1>3. /\ sent.meant = Says(text, lang) /\ sent.args = args /\ sent.via = "tuple"
      /\ sent.bound = <<>> /\ sent.plain = plain
  BY <1>2 DEF Statement
<1>4. fits => sent.kind = "text" /\ sent.sql = S
  BY <1>2 DEF Statement
<1>5. ~fits => sent.kind = "refused"
  BY <1>2 DEF Statement
<1>6. args = <<>> => sent.kind = "text" /\ sent.sql = text
  BY <1>1, <1>4
<1>7. args # <<>> /\ sent.kind = "text" => sent.sql = get_sql(text, args)
  BY <1>1, <1>4, <1>5
<1>8. args # <<>> =>
        (sent.kind = "text" <=> Len(args) = Times("?", text) /\ driver # "postgresql")
  BY <1>1, <1>4, <1>5
<1>9. sent.plain <=> Sound(text) /\ Times("?", text) = Marks(Says(text, lang))
  BY <1>1, <1>3
<1>10. QED BY <1>3, <1>4, <1>5, <1>6, <1>7, <1>8, <1>9

\* The arguments have no `?', and no \ that the server takes for an escape.
LEMMA CleanArguments ==
  ASSUME NEW args \in Arguments, sent.via = "tuple", sent.args = args, ~Misreadable
  PROVE  /\ args \in Seq(Seq(Characters \ {"?"}))
         /\ lang = "mysql" => \A n \in DOMAIN args : \A i \in DOMAIN args[n] : args[n][i] # Backslash
<1>1. \A n \in DOMAIN args : ~Occurs("?", args[n]) /\ ~Misread(args[n])
  BY DEF Misreadable
<1>2. PICK N \in Nat : N = Len(args) /\ DOMAIN args = 1..N
  BY ArgumentsAre, LenProperties
<1>3. ASSUME NEW n \in 1..N PROVE args[n] \in Seq(Characters \ {"?"})
  <2>1. PICK a \in Seq(Characters) : a = args[n]
    BY <1>2, ArgumentsAre, ElementOfSeq
  <2>2. \A i \in 1..Len(a) : a[i] \in Characters \ {"?"}
    BY <1>1, <1>2, <2>1, ElementOfSeq, LenProperties DEF Occurs
  <2>3. QED BY <2>1, <2>2, LenProperties
<1>4. args \in Seq(Seq(Characters \ {"?"}))
  BY <1>2, <1>3, ArgumentsAre
<1>5. QED BY <1>1, <1>4 DEF Misread, Occurs

\* query() with a tuple is read as it was written.
LEMMA TupleReads ==
  ASSUME NEW text \in Texts, NEW args \in Arguments, sent = query_tuple(text, args),
         sent.plain, ~Misreadable
  PROVE  ReadsWell
<1>1. text \in Seq(Characters) /\ "?" \in Characters /\ Alphabet(Characters)
  BY TextIs, NumberingIs, TextAssumption DEF Special
<1>2. PICK K \in Seq(Lexemes(Characters)) : K = Says(text, lang)
  BY <1>1, SaysType
<1>3. /\ sent.meant = K /\ sent.args = args /\ sent.via = "tuple" /\ sent.bound = <<>>
      /\ Sound(text) /\ Times("?", text) = Marks(K) /\ sent.kind \in {"text", "refused"}
  BY <1>2, TupleIs
<1>4. Good(text, lang, Characters)
  BY <1>1, <1>3, SoundGood
<1>5. CASE args = <<>>
  <2>1. sent.kind = "text" /\ sent.sql = text
    BY <1>5, TupleIs
  <2>2. Told = K
    <3>1. CASE driver = "postgresql"
      <4>1. PICK e : e = <<>>
        OBVIOUS
      <4>2. DOMAIN e = {}
        BY <4>1
      <4>3. Bound(K, e) = [i \in DOMAIN K |-> K[i]]
        BY <4>2 DEF Bound
      <4>4. Bound(K, e) = K
        BY <4>3
      <4>5. QED BY <1>2, <1>3, <2>1, <3>1, <4>1, <4>4 DEF Told
    <3>2. CASE driver # "postgresql"
      BY <1>2, <1>3, <2>1, <3>2 DEF Told
    <3>3. QED BY <3>1, <3>2
  <2>3. ASSUME Len(args) = Marks(K) PROVE Told = Filled(K, args)
    <3>1. Marks(K) = 0
      BY <1>5, <2>3
    <3>2. QED BY <2>2, <3>1, FilledNone
  <2>4. QED BY <1>3, <1>5, <2>3 DEF ReadsWell
<1>6. CASE args # <<>>
  <2>1. sent.kind = "text" <=> Len(args) = Marks(K) /\ driver # "postgresql"
    BY <1>3, <1>6, TupleIs
  <2>2. ASSUME sent.kind = "text", Len(args) = Marks(K) PROVE Told = Filled(K, args)
    <3>1. driver # "postgresql" /\ sent.sql = get_sql(text, args)
      BY <1>6, <2>1, <2>2, TupleIs
    <3>2. /\ args \in Seq(Seq(Characters \ {"?"}))
          /\ lang = "mysql" =>
               \A n \in DOMAIN args : \A i \in DOMAIN args[n] : args[n][i] # Backslash
      BY <1>3, CleanArguments
    <3>3. Says(get_sql(text, args), lang) = Filled(Says(text, lang), args)
      <4>1. PICK l : l = lang
        OBVIOUS
      <4>2. /\ Times("?", text) = Marks(Says(text, l)) /\ Len(args) = Marks(Says(text, l))
            /\ Good(text, l, Characters)
        BY <1>2, <1>3, <1>4, <2>2, <4>1
      <4>3. l = "mysql" =>
              \A n \in DOMAIN args : \A i \in DOMAIN args[n] : args[n][i] # Backslash
        BY <3>2, <4>1
      <4>4. Says(get_sql(text, args), l) = Filled(Says(text, l), args)
        BY <1>1, <3>2, <4>2, <4>3, TupleFills, ZenonT(30)
      <4>5. QED BY <4>1, <4>4
    <3>4. QED BY <1>2, <1>3, <3>1, <3>3 DEF Told
  <2>3. ASSUME WritesArguments PROVE sent.kind = "refused" <=> Len(args) # Marks(K)
    <3>1. driver # "postgresql"
      BY <1>3, <2>3 DEF WritesArguments
    <3>2. QED BY <1>3, <2>1, <3>1
  <2>4. QED BY <1>3, <2>2, <2>3 DEF ReadsWell
<1>7. QED BY <1>5, <1>6

\* What is sent reads as it was written.
LEMMA ReadsKept == IInv => ReadsAsWritten
<1> SUFFICES ASSUME IInv PROVE ReadsAsWritten
  OBVIOUS
<1>0. TypeInv /\ SentInv
  BY DEF IInv, SendInv
<1>1. ASSUME sent.kind \in {"text", "refused"}, sent.plain, ~Misreadable PROVE ReadsWell
  <2>1. sent # Nothing /\ sent.kind # "undefined"
    BY <1>1, NothingKind
  <2>2. \/ builder \in Builders /\ \E stage, args, plain : SentBy(stage, args, plain)
        \/ builder = "none" /\ \E text \in Texts, args \in Arguments : SentText(text, args)
    BY <1>0, <2>1, Zenon DEF SentInv
  <2>3. CASE builder \in Builders /\ \E stage, args, plain : SentBy(stage, args, plain)
    <3>1. PICK stage, args, plain : SentBy(stage, args, plain)
      BY <2>3
    <3>2. QED BY <1>1, <2>3, <3>1, StageReads
  <2>4. ASSUME NEW text \in Texts, NEW args \in Arguments, SentText(text, args) PROVE ReadsWell
    BY <1>0, <1>1, <2>4, TextReads, TupleReads DEF SentText
  <2>5. QED BY <2>2, <2>3, <2>4
<1>2. sent.kind = "undefined" => builder \in {"update", "delete"}
  <2>1. SUFFICES ASSUME sent.kind = "undefined" PROVE builder \in {"update", "delete"}
    OBVIOUS
  <2>2. sent # Nothing
    BY <2>1, NothingKind
  <2>3. ASSUME builder \in Builders, NEW stage, NEW args, NEW plain, SentBy(stage, args, plain)
        PROVE  FALSE
    BY <2>1, <2>3, SentFields
  <2>4. ASSUME NEW text \in Texts, NEW args \in Arguments, SentText(text, args) PROVE FALSE
    <3>1. sent.kind \in {"text", "refused"}
      BY <2>4, QueryKind, Zenon DEF SentText
    <3>2. QED BY <2>1, <3>1
  <2>5. QED BY <1>0, <2>2, <2>3, <2>4 DEF SentInv
<1>3. QED BY <1>1, <1>2 DEF ReadsAsWritten, ReadsWell

-----------------------------------------------------------------------------
(* The properties                                                          *)

\* The invariant is inductive: calls on any stages that are kept, collect() and
\* execute() on any of them, coroutines that are started late or after their stages are
\* gone, and query_s() and query() with a text of the program all keep it.
THEOREM Inductive == Spec => []IInv
<1>1. Init => IInv
  BY InvInit
<1>2. IInv /\ [Next]_vars => IInv'
  BY InvNext
<1>3. QED BY <1>1, <1>2, PTL DEF Spec

\* A condition is never lost: once where() was called, what collect() or
\* execute() of any stage sends has the last condition that was given; but for
\* execute_all() of remove().  However often the stages of the shared context
\* were called again, and in whatever order.
THEOREM ConditionStays == Spec => []ConditionIsSent
<1>1. Init => IInv
  BY InvInit
<1>2. IInv /\ [Next]_vars => IInv'
  BY InvNext
<1>3. IInv => ConditionIsSent
  BY ConditionKept
<1>4. QED BY <1>1, <1>2, <1>3, PTL DEF Spec

\* The server is told what the program wrote, each argument in the place of its
\* own mark: for any values and texts, for any number of arguments, whether
\* format_query_args(), the server or get_sql() puts them there.
THEOREM TextsReadAsWritten == Spec => []ReadsAsWritten
<1>1. Init => IInv
  BY InvInit
<1>2. IInv /\ [Next]_vars => IInv'
  BY InvNext
<1>3. IInv => ReadsAsWritten
  BY ReadsKept
<1>4. QED BY <1>1, <1>2, <1>3, PTL DEF Spec

=============================================================================
