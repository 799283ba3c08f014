---------------------------- MODULE MysqlWire_proofs ----------------------------
(***************************************************************************)
(* Proofs about MysqlWire for any sizes of frames and statements, any      *)
(* number of sequence numbers, commands and connections.                   *)
(*                                                                         *)
(* The invariant follows a conversation: what is typed (Types) and where   *)
(* an operation may be (Places); whose turn it is in the handshake         *)
(* (Handshake); that commands reach an authenticated session               *)
(* (Authenticated); that frames carry the numbers the server expects, as   *)
(* long as no command was cancelled (Numbering); and, as long as nothing   *)
(* was left unread, what the rest of an answer looks like at each place of *)
(* the client (Conversation, Escaping).                                    *)
(***************************************************************************)
EXTENDS MysqlWire, SequenceTheorems, TLAPS

Commands == {"ping", "query", "mode", "two_statements"}

HelloAsks == {"hello", "reply", "public_key", "password"}

Kinds == {"greeting", "err", "key", "ok", "fast_auth", "full_auth", "switch", "eof",
          "columns", "column", "row", "rest"}

Bytes == 0..Numbers - 1

ServerFrames == [full : BOOLEAN, number : Bytes, ask : Commands \cup HelloAsks,
                 cmd : 0..MaxCommands]

AnyFrames == [kind : Kinds, data : Plugins \cup {"", "escapes", "no_escapes"},
              full : BOOLEAN, number : Bytes, cmd : 0..MaxCommands]

NamesPlugin(f) == f.kind \in {"greeting", "switch"} => f.data \in Plugins

ClientFrames == {f \in AnyFrames : NamesPlugin(f)}

Writes == [left : Nat, empty : BOOLEAN, started : BOOLEAN,
           ask : Commands \cup HelloAsks \cup {"nothing"},
           next : {"idle", "auth", "key", "answer"}]

Sessions == [phase : {"none", "auth", "command"}, number : Bytes,
             ask : Commands \cup HelloAsks \cup {"nothing"},
             escapes : BOOLEAN, legacy : BOOLEAN, switched : BOOLEAN]

Types ==
  /\ link \in {"none", "up", "broken"}
  /\ to_server \in Seq(ServerFrames) /\ to_client \in Seq(ClientFrames)
  /\ socket_ \in BOOLEAN /\ backslash_escapes_ \in BOOLEAN /\ has_error_ \in BOOLEAN
  /\ sequence_id_ \in Bytes
  /\ auth_plugin_name_ \in Plugins
  /\ pc \in {"idle", "resolve", "write"} \cup Reading
  /\ writing \in Writes
  /\ reading \in ClientFrames \cup {Nothing}
  /\ columns \in 0..3 /\ cmd \in 0..MaxCommands
  /\ session \in Sessions
  /\ spoiled \subseteq {"cancelled", "two_statements", "legacy_eof"}

-----------------------------------------------------------------------------
\* Where an operation may be, and what its frame then holds.
Places ==
  /\ pc \in {"resolve", "greeting", "auth", "key"} => cmd = 0
  /\ pc \in {"answer", "columns", "rows"} => cmd # 0
  /\ pc = "write" =>
       /\ writing.empty => writing.left = 0
       /\ cmd = 0 => /\ writing.ask \in HelloAsks /\ writing.next \in {"auth", "key"}
                     /\ writing.left = 1 /\ ~writing.empty
       /\ cmd # 0 => /\ writing.ask \in Commands /\ writing.next = "answer"
                     /\ writing.started = FALSE => sequence_id_ = 0
  /\ pc \in {"idle", "resolve"} => reading = Nothing
  /\ pc = "columns" => columns # 0
  /\ pc = "resolve" => link = "none" /\ socket_
  /\ pc = "idle" => writing = NoWrite
  /\ link # "none" => socket_
  /\ link # "up" => to_server = <<>>

\* In the handshake client and server speak in turns, one frame at a time; the
\* server may say two things only when the second is its consent.
MayWrite == /\ pc = "write" /\ to_server = <<>> /\ to_client = <<>>
            /\ session.phase = "auth" /\ sequence_id_ = session.number

HasWritten == /\ pc \in {"auth", "key"} /\ to_client = <<>>
              /\ Len(to_server) = 1 /\ to_server[1].full = FALSE
              /\ to_server[1].number = session.number
              /\ session.phase = "auth"

IsAsked == /\ pc \in {"greeting", "auth", "key"} /\ to_server = <<>>
           /\ Len(to_client) = 1 /\ to_client[1].kind \notin {"ok", "fast_auth"}
           /\ session.phase = "auth"
           /\ session.number = IF pc = "greeting" THEN 1
                                                  ELSE Succ(to_client[1].number)

IsAccepted == /\ pc \in {"auth", "key"} /\ to_server = <<>>
              /\ session.phase = "command" /\ session.number = 0
              /\ \/ Len(to_client) = 1 /\ to_client[1].kind = "ok"
                 \/ /\ Len(to_client) = 2 /\ to_client[1].kind = "fast_auth"
                    /\ to_client[2].kind = "ok"

\* The status flags in a packet, and the mode they stand for.
TellsMode(f, escapes) ==
  f.kind \in {"ok", "eof"} => ((f.data # "no_escapes") <=> escapes)

Handshake ==
  Connecting =>
    /\ spoiled = {} /\ reading = Nothing
    /\ \A k \in 1..Len(to_client) : /\ to_client[k].full = FALSE /\ to_client[k].cmd = 0
                                    /\ to_client[k].kind = "fast_auth" <=>
                                         k # Len(to_client)
    /\ pc \in {"resolve", "write"} => to_client = <<>>
    /\ link = "up" =>
         /\ session.ask = "nothing"
         /\ MayWrite \/ HasWritten \/ IsAsked \/ IsAccepted
         /\ \A k \in 1..Len(to_client) : TellsMode(to_client[k], session.escapes)

\* Outside of connect() the session is one that accepts commands, and what it
\* is sent is a command.
Authenticated ==
  ~Connecting /\ link = "up" =>
    /\ session.phase = "command"
    /\ session.ask \in Commands \cup {"nothing"}
    /\ \A k \in 1..Len(to_server) : to_server[k].ask \in Commands

\* The number of the frame after f.
After(f) == IF f.full = TRUE THEN Succ(f.number) ELSE 0

Expected == IF to_server = <<>> THEN session.number ELSE After(to_server[Len(to_server)])

Numbering ==
  ~Connecting /\ link = "up" /\ "cancelled" \notin spoiled =>
    /\ \A k \in 1..Len(to_server) :
         to_server[k].number = IF k = 1 THEN session.number ELSE After(to_server[k - 1])
    /\ Expected = IF pc = "write" THEN sequence_id_ ELSE 0

-----------------------------------------------------------------------------
(* What is left of an answer from its i-th packet on                       *)

Ends(s, i, kinds) == Len(s) = i /\ s[i].kind \in kinds /\ s[i].full = FALSE

RestFrom(s, i) == /\ Len(s) = i + 1
                  /\ s[i].kind = "rest" /\ s[i].full = FALSE
                  /\ Ends(s, i + 1, {"eof", "err"})

RowsFrom(s, i) ==
  \/ Ends(s, i, {"eof", "err"})
  \/ /\ Len(s) = i + 1
     /\ s[i].kind = "row" /\ s[i].full = FALSE
     /\ Ends(s, i + 1, {"eof", "err"})
  \/ /\ Len(s) = i + 2
     /\ s[i].kind = "row" /\ s[i].full = TRUE
     /\ RestFrom(s, i + 1)

ColumnsFrom(s, i) == /\ Len(s) > i
                     /\ s[i].kind = "column" /\ s[i].full = FALSE
                     /\ RowsFrom(s, i + 1)

AnswerFrom(s, i) ==
  \/ Ends(s, i, {"ok", "err"})
  \/ /\ Len(s) > i + 1
     /\ s[i].kind = "columns" /\ s[i].full = FALSE
     /\ ColumnsFrom(s, i + 1)

\* What the client has still to read, by the place where it reads.
Expects == 
  /\ pc = "answer"  => reading = Nothing /\ AnswerFrom(to_client, 1)
  /\ pc = "columns" => reading = Nothing /\ columns = 1 /\ ColumnsFrom(to_client, 1)
  /\ pc = "rows"    => IF reading = Nothing
                         THEN RowsFrom(to_client, 1)
                         ELSE reading.kind = "row" /\ RestFrom(to_client, 1)

ServerRests == to_server = <<>> /\ session.number = 0 /\ session.ask = "nothing"

Listening == {"answer", "columns", "rows"}

Conversation ==
  ~Connecting /\ spoiled = {} =>
    /\ pc \in {"idle", "write"} => to_client = <<>> /\ reading = Nothing
    /\ reading # Nothing => reading.cmd = cmd
    /\ \A k \in 1..Len(to_client) : to_client[k].cmd = cmd
    /\ to_client # <<>> => Expects
    /\ link = "up" =>
         /\ \A k \in 1..Len(to_server) : to_server[k].cmd = cmd
         /\ pc = "idle" \/ (pc = "write" /\ writing.started = FALSE) => ServerRests
         /\ pc = "write" => \A k \in 1..Len(to_server) : to_server[k].full = TRUE
         /\ pc \in Listening =>
              \/ to_client # <<>> /\ ServerRests
              \/ /\ pc = "answer" /\ reading = Nothing
                 /\ to_client = <<>> /\ to_server # <<>>
                 /\ \A k \in 1..Len(to_server) :
                      to_server[k].full = (k # Len(to_server))

\* The client escapes as the session reads, or the packet that says how is the
\* next one it reads.
Escaping ==
  ~Connecting /\ spoiled = {} /\ link = "up" =>
    /\ \A k \in 1..Len(to_client) : TellsMode(to_client[k], session.escapes)
    /\ \/ backslash_escapes_ = session.escapes
       \/ pc = "answer" /\ to_client # <<>> /\ to_client[1].kind = "ok"

\* What the history says of numbers and of other commands' answers.
Recorded == /\ disordered => "cancelled" \in spoiled
            /\ AnswersOwnCommand

IInv == /\ Types /\ Places /\ Handshake /\ Authenticated
        /\ Numbering /\ Conversation /\ Escaping /\ Recorded

-----------------------------------------------------------------------------
(* Sequence numbers                                                        *)

\* The remainder is the only number in its range that differs from x by a
\* multiple of n.
LEMMA NoMultipleBetween ==
  ASSUME NEW n \in Nat \ {0, 1}, NEW d \in Int, n * d < n, n * d > 0 - n
  PROVE  d = 0
  <1>1. CASE d >= 1
    <2>1. n * d >= n
      BY <1>1
    <2>2. QED
      BY <2>1
  <1>2. CASE d <= -1
    <2>1. n * d <= 0 - n
      BY <1>2
    <2>2. QED
      BY <2>1
  <1>3. QED
    BY <1>1, <1>2

LEMMA RemainderUnique ==
  ASSUME NEW n \in Nat \ {0, 1}, NEW q \in Int, NEW r \in 0..n - 1
  PROVE  (n * q + r) % n = r
  <1> DEFINE m == n * q + r
             d == m \div n
             e == m % n
  <1>1. m \in Int
    OBVIOUS
  <1>2. m = n * d + e /\ e \in 0..n - 1 /\ d \in Int
    BY <1>1
  <1>3. n * q \in Int /\ n * d \in Int
    BY <1>2
  <1> HIDE DEF d, e
  <1>4. n * (q - d) = e - r
    BY <1>2, <1>3
  <1>5. q - d = 0
    <2>1. q - d \in Int /\ n * (q - d) < n /\ n * (q - d) > 0 - n
      BY <1>4, <1>2
    <2>2. QED
      BY NoMultipleBetween, <2>1
  <1>6. n * q = n * d
    BY <1>5, <1>2
  <1>7. QED
    BY <1>6, <1>2, <1>3 DEF e

LEMMA RemainderOfNext ==
  ASSUME NEW n \in Nat \ {0, 1}, NEW x \in Int
  PROVE  ((x % n) + 1) % n = (x + 1) % n
  <1> DEFINE q == x \div n
             r == x % n
  <1>1. x = n * q + r /\ r \in 0..n - 1 /\ q \in Int
    OBVIOUS
  <1> HIDE DEF q, r
  <1>2. CASE r + 1 = n
    <2>1. x + 1 = n * (q + 1) + 0
      BY <1>1, <1>2
    <2>2. (n * (q + 1) + 0) % n = 0 /\ (n * 1 + 0) % n = 0
      BY RemainderUnique, <1>1
    <2>3. QED
      BY <2>1, <2>2, <1>2, <1>1 DEF r
  <1>3. CASE r + 1 # n
    <2>1. r + 1 \in 0..n - 1
      BY <1>1, <1>3
    <2>2. x + 1 = n * q + (r + 1)
      BY <1>1
    <2>3. (n * q + (r + 1)) % n = r + 1
      BY RemainderUnique, <1>1, <2>1
    <2>4. (r + 1) % n = r + 1
      BY <2>1
    <2>5. QED
      BY <2>2, <2>3, <2>4 DEF r
  <1>4. QED
    BY <1>2, <1>3

LEMMA NumbersWrap ==
  ASSUME NEW x \in Int
  PROVE  x % Numbers \in Bytes /\ Succ(x) \in Bytes /\ Succ(x % Numbers) = (x + 1) % Numbers
  <1>1. Numbers \in Nat \ {0, 1}
    BY WireAssumption
  <1>2. x % Numbers \in 0..Numbers - 1 /\ (x + 1) % Numbers \in 0..Numbers - 1
    BY <1>1
  <1>3. QED
    BY <1>1, <1>2, RemainderOfNext DEF Bytes, Succ

-----------------------------------------------------------------------------
(* Sequences                                                               *)

LEMMA TailFacts ==
  ASSUME NEW S, NEW s \in Seq(S), s # <<>>
  PROVE  /\ Tail(s) \in Seq(S) /\ Len(Tail(s)) = Len(s) - 1
         /\ \A k \in 1..(Len(s) - 1) : Tail(s)[k] = s[k + 1]
         /\ Head(s) = s[1] /\ s[1] \in S /\ Len(s) \in Nat /\ Len(s) >= 1
  OBVIOUS

LEMMA AppendFacts ==
  ASSUME NEW S, NEW s \in Seq(S), NEW e \in S
  PROVE  /\ Append(s, e) \in Seq(S) /\ Len(Append(s, e)) = Len(s) + 1
         /\ \A k \in 1..Len(s) : Append(s, e)[k] = s[k]
         /\ Append(s, e)[Len(s) + 1] = e
         /\ Append(s, e) # <<>>
  OBVIOUS

\* A non-empty sequence of one element less than two is empty behind its head.
LEMMA EmptyOrNot ==
  ASSUME NEW S, NEW s \in Seq(S)
  PROVE  s = <<>> <=> Len(s) = 0
  OBVIOUS

-----------------------------------------------------------------------------
(* What the server says                                                    *)

AnyPackets == [kind : Kinds, data : Plugins \cup {"", "escapes", "no_escapes"},
               full : BOOLEAN]

Packets == {p \in AnyPackets : NamesPlugin(p)}

LEMMA FramesFacts ==
  ASSUME NEW packets \in Seq(Packets), NEW number \in Nat, NEW id \in 0..MaxCommands
  PROVE  LET s == Frames(packets, number, id)
         IN  /\ s \in Seq(ClientFrames) /\ Len(s) = Len(packets)
             /\ \A k \in 1..Len(s) :
                  /\ s[k].kind = packets[k].kind /\ s[k].data = packets[k].data
                  /\ s[k].full = packets[k].full /\ s[k].cmd = id
                  /\ s[k].number = (number + k - 1) % Numbers
  <1> DEFINE s == Frames(packets, number, id)
             n == Len(packets)
  <1>1. n \in Nat /\ \A k \in 1..n : packets[k] \in Packets
    OBVIOUS
  <1>2. \A k \in 1..n : (number + k - 1) % Numbers \in Bytes
    BY <1>1, NumbersWrap
  <1>3. \A k \in 1..n :
          s[k] = [kind |-> packets[k].kind, data |-> packets[k].data,
                  full |-> packets[k].full, number |-> (number + k - 1) % Numbers,
                  cmd |-> id]
    BY DEF Frames
  <1>4. s = [k \in 1..n |-> s[k]]
    BY DEF Frames
  <1> HIDE DEF s
  <1>5. \A k \in 1..n : s[k] \in ClientFrames
    <2> SUFFICES ASSUME NEW k \in 1..n PROVE s[k] \in ClientFrames
      OBVIOUS
    <2> DEFINE p == packets[k]
               r == (number + k - 1) % Numbers
    <2>1. p \in AnyPackets /\ NamesPlugin(p) /\ r \in Bytes
      BY <1>1, <1>2 DEF Packets
    <2>2. s[k] = [kind |-> p.kind, data |-> p.data, full |-> p.full, number |-> r,
                  cmd |-> id]
      BY <1>3
    <2> HIDE DEF p, r
    <2>3. /\ p.kind \in Kinds /\ p.data \in Plugins \cup {"", "escapes", "no_escapes"}
          /\ p.full \in BOOLEAN
      BY <2>1 DEF AnyPackets
    <2>4. [kind |-> p.kind, data |-> p.data, full |-> p.full, number |-> r, cmd |-> id]
            \in AnyFrames
      BY <2>1, <2>3, Zenon DEF AnyFrames
    <2>5. s[k] \in AnyFrames
      BY <2>2, <2>4, Zenon
    <2>6. NamesPlugin(s[k])
      BY <2>1, <2>2 DEF NamesPlugin
    <2>7. QED
      BY <2>5, <2>6 DEF ClientFrames
  <1>6. s \in Seq(ClientFrames) /\ Len(s) = n
    BY <1>1, <1>4, <1>5
  <1>7. \A k \in 1..n : /\ s[k].kind = packets[k].kind /\ s[k].data = packets[k].data
                        /\ s[k].full = packets[k].full /\ s[k].cmd = id
                        /\ s[k].number = (number + k - 1) % Numbers
    <2> SUFFICES ASSUME NEW k \in 1..n
                 PROVE  /\ s[k].kind = packets[k].kind /\ s[k].data = packets[k].data
                        /\ s[k].full = packets[k].full /\ s[k].cmd = id
                        /\ s[k].number = (number + k - 1) % Numbers
      OBVIOUS
    <2> DEFINE r == (number + k - 1) % Numbers
    <2>1. s[k] = [kind |-> packets[k].kind, data |-> packets[k].data,
                  full |-> packets[k].full, number |-> r, cmd |-> id]
      BY <1>3
    <2> HIDE DEF r
    <2>2. s[k].number = r /\ s[k].cmd = id
      BY <2>1
    <2>3. s[k].kind = packets[k].kind
      BY <2>1
    <2>4. s[k].data = packets[k].data
      BY <2>1
    <2>5. s[k].full = packets[k].full
      BY <2>1
    <2>6. QED
      BY <2>2, <2>3, <2>4, <2>5 DEF r
  <1>8. QED
    BY <1>6, <1>7 DEF s

LEMMA ConcatFacts ==
  ASSUME NEW S, NEW s \in Seq(S), NEW t \in Seq(S)
  PROVE  /\ s \o t \in Seq(S) /\ Len(s \o t) = Len(s) + Len(t)
         /\ \A k \in 1..Len(s) : (s \o t)[k] = s[k]
         /\ \A k \in 1..Len(t) : (s \o t)[Len(s) + k] = t[k]
  OBVIOUS

Data == Plugins \cup {"", "escapes", "no_escapes"}

LEMMA PktFacts ==
  ASSUME NEW kind \in Kinds, NEW data \in Data,
         kind \in {"greeting", "switch"} => data \in Plugins
  PROVE  /\ Pkt(kind, data) \in Packets
         /\ Pkt(kind, data).kind = kind /\ Pkt(kind, data).data = data
         /\ Pkt(kind, data).full = FALSE
  <1>1. [kind |-> kind, data |-> data, full |-> FALSE] \in AnyPackets
    BY Zenon DEF AnyPackets, Data
  <1>2. QED
    BY <1>1 DEF Pkt, Packets, NamesPlugin

LEMMA ModeFacts ==
  ASSUME NEW escapes \in BOOLEAN
  PROVE  Mode(escapes) \in Data /\ ((Mode(escapes) # "no_escapes") <=> escapes)
  BY DEF Mode, Data

LEMMA EscapesTyped == ASSUME Types PROVE session.escapes \in BOOLEAN
  BY DEF Types, Sessions

LEMMA OneFacts ==
  ASSUME NEW S, NEW x \in S
  PROVE  <<x>> \in Seq(S) /\ Len(<<x>>) = 1 /\ <<x>>[1] = x
  OBVIOUS

LEMMA TwoFacts ==
  ASSUME NEW S, NEW x \in S, NEW y \in S
  PROVE  <<x, y>> \in Seq(S) /\ Len(<<x, y>>) = 2 /\ <<x, y>>[1] = x /\ <<x, y>>[2] = y
  OBVIOUS

LEMMA ThreeFacts ==
  ASSUME NEW S, NEW x \in S, NEW y \in S, NEW z \in S
  PROVE  /\ <<x, y, z>> \in Seq(S) /\ Len(<<x, y, z>>) = 3
         /\ <<x, y, z>>[1] = x /\ <<x, y, z>>[2] = y /\ <<x, y, z>>[3] = z
  OBVIOUS

\* A packet that says how the session reads strings, and one without data.
LEMMA TellingFacts ==
  ASSUME NEW kind \in {"ok", "eof"}, NEW escapes \in BOOLEAN
  PROVE  LET p == Pkt(kind, Mode(escapes))
         IN  p \in Packets /\ p.kind = kind /\ p.full = FALSE /\ TellsMode(p, escapes)
  <1>1. kind \in Kinds /\ kind \notin {"greeting", "switch"}
    BY DEF Kinds
  <1>2. Mode(escapes) \in Data /\ ((Mode(escapes) # "no_escapes") <=> escapes)
    BY ModeFacts
  <1>3. QED
    BY <1>1, <1>2, PktFacts DEF TellsMode

LEMMA PlainFacts ==
  ASSUME NEW kind \in Kinds \ {"greeting", "switch"}
  PROVE  LET p == Pkt(kind, "")
         IN  /\ p \in Packets /\ p.kind = kind /\ p.full = FALSE
             /\ kind \notin {"ok", "eof"} =>
                  \A escapes \in BOOLEAN : TellsMode(p, escapes)
  <1>1. "" \in Data
    BY DEF Data
  <1>2. QED
    BY <1>1, PktFacts DEF TellsMode

LEMMA AuthReplyFacts ==
  ASSUME Types, NEW ask, NEW reply \in AuthReplies(ask)
  PROVE  /\ reply \in Seq(Packets)
         /\ \A k \in 1..Len(reply) :
              reply[k].full = FALSE /\ TellsMode(reply[k], session.escapes)
         /\ \/ Len(reply) = 1 /\ reply[1].kind \notin {"ok", "fast_auth"}
            \/ Len(reply) = 1 /\ reply[1].kind = "ok"
            \/ /\ Len(reply) = 2 /\ reply[1].kind = "fast_auth"
               /\ reply[2].kind = "ok"
  <1> DEFINE consent == Pkt("ok", Mode(session.escapes))
  <1>0. session.escapes \in BOOLEAN
    BY EscapesTyped
  <1>1. /\ consent \in Packets /\ consent.kind = "ok" /\ consent.full = FALSE
        /\ TellsMode(consent, session.escapes)
    BY <1>0, TellingFacts
  <1>2. ASSUME NEW kind \in {"err", "key", "fast_auth", "full_auth"}
        PROVE  LET p == Pkt(kind, "")
               IN  /\ p \in Packets /\ p.kind = kind /\ p.full = FALSE
                   /\ TellsMode(p, session.escapes)
    <2>1. kind \in Kinds \ {"greeting", "switch"} /\ kind \notin {"ok", "eof"}
      BY DEF Kinds
    <2>2. QED
      BY <2>1, <1>0, PlainFacts
  <1>3. ASSUME NEW plugin \in Plugins
        PROVE  LET p == Pkt("switch", plugin)
               IN  /\ p \in Packets /\ p.kind = "switch" /\ p.full = FALSE
                   /\ TellsMode(p, session.escapes)
    <2>1. "switch" \in Kinds /\ plugin \in Data
      BY DEF Kinds, Data
    <2>2. QED
      BY <2>1, PktFacts DEF TellsMode
  <1> HIDE DEF consent
  <1>4. CASE reply = <<consent>>
    <2>1. reply \in Seq(Packets) /\ Len(reply) = 1 /\ reply[1] = consent
      BY <1>1, <1>4, OneFacts
    <2>2. QED
      BY <2>1, <1>1
  <1>5. CASE \E kind \in {"err", "key", "full_auth"} : reply = <<Pkt(kind, "")>>
    <2>1. PICK kind \in {"err", "key", "full_auth"} : reply = <<Pkt(kind, "")>>
      BY <1>5
    <2> DEFINE p == Pkt(kind, "")
    <2>2. /\ p \in Packets /\ p.kind = kind /\ p.full = FALSE
          /\ TellsMode(p, session.escapes)
      BY <1>2
    <2> HIDE DEF p
    <2>3. reply \in Seq(Packets) /\ Len(reply) = 1 /\ reply[1] = p
      BY <2>1, <2>2, OneFacts DEF p
    <2>4. QED
      BY <2>2, <2>3
  <1>6. CASE reply = <<Pkt("fast_auth", ""), consent>>
    <2> DEFINE p == Pkt("fast_auth", "")
    <2>1. /\ p \in Packets /\ p.kind = "fast_auth" /\ p.full = FALSE
          /\ TellsMode(p, session.escapes)
      BY <1>2
    <2> HIDE DEF p
    <2>2. reply \in Seq(Packets) /\ Len(reply) = 2 /\ reply[1] = p /\ reply[2] = consent
      BY <1>6, <2>1, <1>1, TwoFacts DEF p
    <2>3. QED
      BY <2>1, <2>2, <1>1
  <1>7. CASE \E plugin \in Plugins : reply = <<Pkt("switch", plugin)>>
    <2>1. PICK plugin \in Plugins : reply = <<Pkt("switch", plugin)>>
      BY <1>7
    <2> DEFINE p == Pkt("switch", plugin)
    <2>2. /\ p \in Packets /\ p.kind = "switch" /\ p.full = FALSE
          /\ TellsMode(p, session.escapes)
      BY <1>3
    <2> HIDE DEF p
    <2>3. reply \in Seq(Packets) /\ Len(reply) = 1 /\ reply[1] = p
      BY <2>1, <2>2, OneFacts DEF p
    <2>4. QED
      BY <2>2, <2>3
  <1>8. \/ reply = <<consent>>
        \/ \E kind \in {"err", "key", "full_auth"} : reply = <<Pkt(kind, "")>>
        \/ reply = <<Pkt("fast_auth", ""), consent>>
        \/ \E plugin \in Plugins : reply = <<Pkt("switch", plugin)>>
    BY DEF AuthReplies, consent
  <1>9. QED
    BY <1>4, <1>5, <1>6, <1>7, <1>8

\* The last packet of a complete answer to one statement.
LEMMA FullFacts ==
  ASSUME NEW p \in AnyPackets
  PROVE  LET q == [p EXCEPT !.full = TRUE]
         IN  q \in AnyPackets /\ q.kind = p.kind /\ q.full = TRUE
  BY DEF AnyPackets

LastPackets ==
  {<<Terminator>>,
   <<Pkt("row", ""), Terminator>>,
   <<[Pkt("row", "") EXCEPT !.full = TRUE], Pkt("rest", ""), Terminator>>,
   <<Pkt("row", ""), Pkt("err", "")>>}

LEMMA RowsFacts ==
  ASSUME Types, session.legacy = FALSE, NEW rows \in LastPackets
  PROVE  /\ rows \in Seq(Packets) /\ RowsFrom(rows, 1)
         /\ \A k \in 1..Len(rows) : TellsMode(rows[k], session.escapes)
  <1> DEFINE end == Terminator
             row == Pkt("row", "")
             long == [row EXCEPT !.full = TRUE]
             rest == Pkt("rest", "")
             err == Pkt("err", "")
  <1>1. session.escapes \in BOOLEAN
    BY EscapesTyped
  <1>2. /\ end \in Packets /\ end.kind = "eof" /\ end.full = FALSE
        /\ TellsMode(end, session.escapes)
    BY <1>1, TellingFacts DEF Terminator
  <1>3. /\ row \in Packets /\ row.kind = "row" /\ row.full = FALSE
        /\ TellsMode(row, session.escapes)
    BY <1>1, PlainFacts DEF Kinds
  <1>4. /\ rest \in Packets /\ rest.kind = "rest" /\ rest.full = FALSE
        /\ TellsMode(rest, session.escapes)
    BY <1>1, PlainFacts DEF Kinds
  <1>5. /\ err \in Packets /\ err.kind = "err" /\ err.full = FALSE
        /\ TellsMode(err, session.escapes)
    BY <1>1, PlainFacts DEF Kinds
  <1>6. /\ long \in Packets /\ long.kind = "row" /\ long.full = TRUE
        /\ TellsMode(long, session.escapes)
    <2>1. row \in AnyPackets
      BY <1>3 DEF Packets
    <2>2. /\ long \in AnyPackets /\ long.kind = row.kind /\ long.full = TRUE
      BY <2>1, FullFacts
    <2> HIDE DEF long, row
    <2>3. long.kind = "row"
      BY <2>2, <1>3
    <2>4. QED
      BY <2>2, <2>3 DEF Packets, NamesPlugin, TellsMode
  <1> HIDE DEF end, row, long, rest, err
  <1>7. CASE rows = <<end>>
    <2>1. rows \in Seq(Packets) /\ Len(rows) = 1 /\ rows[1] = end
      BY <1>7, <1>2, OneFacts
    <2>2. QED
      BY <2>1, <1>2 DEF RowsFrom, Ends
  <1>8. CASE rows = <<row, end>>
    <2>1. rows \in Seq(Packets) /\ Len(rows) = 2 /\ rows[1] = row /\ rows[2] = end
      BY <1>8, <1>2, <1>3, TwoFacts
    <2>2. QED
      BY <2>1, <1>2, <1>3 DEF RowsFrom, Ends
  <1>9. CASE rows = <<long, rest, end>>
    <2>1. /\ rows \in Seq(Packets) /\ Len(rows) = 3
          /\ rows[1] = long /\ rows[2] = rest /\ rows[3] = end
      BY <1>9, <1>2, <1>4, <1>6, ThreeFacts
    <2>2. \A k \in 1..Len(rows) : k = 1 \/ k = 2 \/ k = 3
      BY <2>1
    <2>3. RowsFrom(rows, 1)
      BY <2>1, <1>2, <1>4, <1>6 DEF RowsFrom, RestFrom, Ends
    <2>4. QED
      BY <2>1, <2>2, <2>3, <1>2, <1>4, <1>6
  <1>10. CASE rows = <<row, err>>
    <2>1. rows \in Seq(Packets) /\ Len(rows) = 2 /\ rows[1] = row /\ rows[2] = err
      BY <1>10, <1>5, <1>3, TwoFacts
    <2>2. QED
      BY <2>1, <1>5, <1>3 DEF RowsFrom, Ends
  <1>11. QED
    BY <1>7, <1>8, <1>9, <1>10, Zenon DEF LastPackets, end, row, long, rest, err

LEMMA RowsTyped ==
  ASSUME Types, NEW rows \in LastPackets
  PROVE  rows \in Seq(Packets)
  <1> DEFINE end == Terminator
             row == Pkt("row", "")
             long == [row EXCEPT !.full = TRUE]
             rest == Pkt("rest", "")
             err == Pkt("err", "")
  <1>1. session.escapes \in BOOLEAN
    BY EscapesTyped
  <1>2. row \in Packets /\ rest \in Packets /\ err \in Packets /\ row.kind = "row"
    BY PlainFacts DEF Kinds
  <1>3. long \in Packets
    <2>1. row \in AnyPackets
      BY <1>2 DEF Packets
    <2>2. long \in AnyPackets /\ long.kind = row.kind
      BY <2>1, FullFacts
    <2> HIDE DEF long, row
    <2>3. long.kind = "row"
      BY <2>2, <1>2
    <2>4. QED
      BY <2>2, <2>3 DEF Packets, NamesPlugin
  <1>4. end \in Packets
    <2>1. Pkt("eof", "") \in Packets
      BY PlainFacts DEF Kinds
    <2>2. Pkt("eof", Mode(session.escapes)) \in Packets
      BY <1>1, TellingFacts
    <2>3. QED
      BY <2>1, <2>2 DEF Terminator
  <1> HIDE DEF end, row, long, rest, err
  <1>5. CASE rows = <<end>>
    BY <1>4, <1>5, OneFacts
  <1>6. CASE rows = <<row, end>>
    BY <1>2, <1>4, <1>6, TwoFacts
  <1>7. CASE rows = <<long, rest, end>>
    BY <1>2, <1>3, <1>4, <1>7, ThreeFacts
  <1>8. CASE rows = <<row, err>>
    BY <1>2, <1>8, TwoFacts
  <1>9. QED
    BY <1>5, <1>6, <1>7, <1>8, Zenon DEF LastPackets, end, row, long, rest, err

\* What comes k packets later in t is what s begins with.
LEMMA RowsShift ==
  ASSUME NEW s \in Seq(Packets), NEW t \in Seq(Packets), NEW n \in Nat,
         Len(t) = n + Len(s), \A k \in 1..Len(s) : t[n + k] = s[k],
         RowsFrom(s, 1)
  PROVE  RowsFrom(t, n + 1)
  <1>1. CASE Ends(s, 1, {"eof", "err"})
    <2>1. t[n + 1] = s[1]
      BY <1>1 DEF Ends
    <2>2. QED
      BY <1>1, <2>1 DEF RowsFrom, Ends
  <1>2. CASE /\ Len(s) = 1 + 1
             /\ s[1].kind = "row" /\ s[1].full = FALSE
             /\ Ends(s, 1 + 1, {"eof", "err"})
    <2>1. t[n + 1] = s[1] /\ t[n + 2] = s[2]
      BY <1>2
    <2>2. Len(t) = n + 2
      BY <1>2
    <2>3. Ends(t, n + 2, {"eof", "err"})
      BY <2>1, <2>2, <1>2 DEF Ends
    <2>4. QED
      BY <1>2, <2>1, <2>2, <2>3 DEF RowsFrom
  <1>3. CASE /\ Len(s) = 1 + 2
             /\ s[1].kind = "row" /\ s[1].full = TRUE
             /\ RestFrom(s, 1 + 1)
    <2>1. t[n + 1] = s[1] /\ t[n + 2] = s[2] /\ t[n + 3] = s[3]
      BY <1>3
    <2>2. Len(t) = n + 3
      BY <1>3
    <2>3. RestFrom(t, n + 2)
      BY <2>1, <2>2, <1>3 DEF RestFrom, Ends
    <2>4. QED
      BY <1>3, <2>1, <2>2, <2>3 DEF RowsFrom
  <1>4. QED
    BY <1>1, <1>2, <1>3 DEF RowsFrom

LEMMA ResultSetFacts ==
  ASSUME Types, NEW answer \in ResultSets
  PROVE  /\ answer \in Seq(Packets) /\ Len(answer) >= 1
         /\ answer[1].kind = "columns"
         /\ session.legacy = FALSE =>
              /\ AnswerFrom(answer, 1)
              /\ \A k \in 1..Len(answer) : TellsMode(answer[k], session.escapes)
  <1> DEFINE c == Pkt("columns", "")
             d == Pkt("column", "")
             start == <<c, d>> \o LegacyEof
  <1>1. PICK rows \in LastPackets : answer = start \o rows
    BY Zenon DEF ResultSets, LastPackets
  <1>2. session.escapes \in BOOLEAN /\ session.legacy \in BOOLEAN
    BY EscapesTyped DEF Types, Sessions
  <1>3. /\ c \in Packets /\ c.kind = "columns" /\ c.full = FALSE
        /\ TellsMode(c, session.escapes)
    BY <1>2, PlainFacts DEF Kinds
  <1>4. /\ d \in Packets /\ d.kind = "column" /\ d.full = FALSE
        /\ TellsMode(d, session.escapes)
    BY <1>2, PlainFacts DEF Kinds
  <1>5. LegacyEof \in Seq(Packets)
    <2>1. Pkt("eof", "") \in Packets
      BY PlainFacts DEF Kinds
    <2>2. <<Pkt("eof", "")>> \in Seq(Packets)
      BY <2>1, OneFacts
    <2>3. <<>> \in Seq(Packets)
      OBVIOUS
    <2>4. QED
      BY <2>2, <2>3, Zenon DEF LegacyEof
  <1>6. rows \in Seq(Packets)
    BY RowsTyped
  <1>7. /\ start \in Seq(Packets) /\ Len(start) = 2 + Len(LegacyEof)
        /\ start[1] = c /\ start[2] = d
    <2> HIDE DEF c, d
    <2>1. /\ <<c, d>> \in Seq(Packets) /\ Len(<<c, d>>) = 2
          /\ <<c, d>>[1] = c /\ <<c, d>>[2] = d
      BY <1>3, <1>4, TwoFacts
    <2>2. QED
      BY <2>1, <1>5, ConcatFacts
  <1> HIDE DEF start, c, d
  <1>8. Len(LegacyEof) \in Nat /\ Len(rows) \in Nat
    BY <1>5, <1>6
  <1>9. /\ answer \in Seq(Packets) /\ Len(answer) = 2 + Len(LegacyEof) + Len(rows)
        /\ answer[1] = c /\ answer[2] = d
        /\ \A k \in 1..Len(rows) : answer[2 + Len(LegacyEof) + k] = rows[k]
    <2> DEFINE n == Len(start)
    <2>1. /\ start \o rows \in Seq(Packets) /\ Len(start \o rows) = n + Len(rows)
          /\ \A k \in 1..n : (start \o rows)[k] = start[k]
          /\ \A k \in 1..Len(rows) : (start \o rows)[n + k] = rows[k]
      <3>1. start \in Seq(Packets) /\ rows \in Seq(Packets)
        BY <1>6, <1>7
      <3>2. QED
        BY <3>1, ConcatFacts
    <2>2. n = 2 + Len(LegacyEof) /\ 1 \in 1..n /\ 2 \in 1..n
      BY <1>7, <1>8
    <2> HIDE DEF n
    <2>3. QED
      BY <1>1, <1>7, <2>1, <2>2
  <1>10. ASSUME session.legacy = FALSE
         PROVE  /\ AnswerFrom(answer, 1)
                /\ \A k \in 1..Len(answer) : TellsMode(answer[k], session.escapes)
    <2>1. LegacyEof = <<>> /\ Len(LegacyEof) = 0
      BY <1>10 DEF LegacyEof
    <2>2. /\ RowsFrom(rows, 1)
          /\ \A k \in 1..Len(rows) : TellsMode(rows[k], session.escapes)
      BY <1>10, RowsFacts
    <2>3. /\ Len(answer) = 2 + Len(rows)
          /\ \A k \in 1..Len(rows) : answer[2 + k] = rows[k]
      BY <1>9, <2>1
    <2>4. RowsFrom(answer, 3)
      <3>1. RowsFrom(answer, 2 + 1)
        BY <1>6, <1>9, <2>2, <2>3, RowsShift
      <3>2. QED
        BY <3>1
    <2>5. Len(rows) >= 1
      BY <2>2, <1>8 DEF RowsFrom, Ends
    <2>6. AnswerFrom(answer, 1)
      <3>1. ColumnsFrom(answer, 2)
        BY <2>3, <2>4, <2>5, <1>4, <1>8, <1>9 DEF ColumnsFrom
      <3>2. QED
        BY <3>1, <2>3, <2>5, <1>3, <1>8, <1>9 DEF AnswerFrom
    <2>7. \A k \in 1..Len(answer) : k = 1 \/ k = 2 \/ (k - 2 \in 1..Len(rows) /\ k = 2 + (k - 2))
      BY <2>3, <1>8
    <2>8. \A k \in 1..Len(answer) : TellsMode(answer[k], session.escapes)
      BY <2>2, <2>3, <2>7, <1>3, <1>4, <1>9
    <2>9. QED
      BY <2>6, <2>8
  <1>11. answer \in Seq(Packets) /\ Len(answer) >= 1 /\ answer[1].kind = "columns"
    BY <1>3, <1>8, <1>9
  <1>12. QED
    BY <1>10, <1>11

\* How the session reads strings once it has answered.
EscapesAfter(ask, answer) ==
  IF ask = "mode" /\ answer[1].kind = "ok" THEN ~session.escapes ELSE session.escapes

\* One packet that is the whole answer.
LEMMA ShortAnswer ==
  ASSUME NEW p \in Packets, p.kind \in {"ok", "err"}, p.full = FALSE,
         NEW answer, answer = <<p>>
  PROVE  /\ answer \in Seq(Packets) /\ Len(answer) = 1 /\ answer[1] = p
         /\ AnswerFrom(answer, 1)
  <1>1. answer \in Seq(Packets) /\ Len(answer) = 1 /\ answer[1] = p
    BY OneFacts
  <1>2. QED
    BY <1>1 DEF AnswerFrom, Ends

LEMMA AnswerFacts ==
  ASSUME Types, NEW ask \in Commands, NEW answer \in Answers(ask)
  PROVE  /\ answer \in Seq(Packets) /\ Len(answer) >= 1
         /\ Spoils(ask, answer) \subseteq {"two_statements", "legacy_eof"}
         /\ Spoils(ask, answer) = {} =>
              /\ AnswerFrom(answer, 1)
              /\ \A k \in 1..Len(answer) :
                   TellsMode(answer[k], EscapesAfter(ask, answer))
  <1> DEFINE same == Pkt("ok", Mode(session.escapes))
             other == Pkt("ok", Mode(~session.escapes))
             err == Pkt("err", "")
  <1>1. session.escapes \in BOOLEAN /\ session.legacy \in BOOLEAN
    BY EscapesTyped DEF Types, Sessions
  <1>2. /\ same \in Packets /\ same.kind = "ok" /\ same.full = FALSE
        /\ TellsMode(same, session.escapes)
    BY <1>1, TellingFacts
  <1>3. /\ other \in Packets /\ other.kind = "ok" /\ other.full = FALSE
        /\ TellsMode(other, ~session.escapes)
    <2>1. (~session.escapes) \in BOOLEAN
      OBVIOUS
    <2>2. QED
      BY <2>1, TellingFacts
  <1>4. /\ err \in Packets /\ err.kind = "err" /\ err.full = FALSE
        /\ TellsMode(err, session.escapes)
    BY <1>1, PlainFacts DEF Kinds
  <1>5. Spoils(ask, answer) \subseteq {"two_statements", "legacy_eof"}
    BY DEF Spoils
  <1> HIDE DEF same, other, err
  <1>6. CASE answer = <<same>> /\ ask # "mode"
    <2>1. /\ answer \in Seq(Packets) /\ Len(answer) = 1 /\ answer[1] = same
          /\ AnswerFrom(answer, 1)
      BY <1>2, <1>6, ShortAnswer
    <2>2. EscapesAfter(ask, answer) = session.escapes
      BY <1>6, Zenon DEF EscapesAfter
    <2>3. QED
      BY <1>2, <1>5, <2>1, <2>2
  <1>7. CASE answer = <<other>> /\ ask = "mode"
    <2>1. /\ answer \in Seq(Packets) /\ Len(answer) = 1 /\ answer[1] = other
          /\ AnswerFrom(answer, 1)
      BY <1>3, <1>7, ShortAnswer
    <2>2. EscapesAfter(ask, answer) = ~session.escapes
      BY <1>3, <1>7, <2>1, Zenon DEF EscapesAfter
    <2>3. QED
      BY <1>3, <1>5, <2>1, <2>2
  <1>8. CASE answer = <<err>>
    <2>1. /\ answer \in Seq(Packets) /\ Len(answer) = 1 /\ answer[1] = err
          /\ AnswerFrom(answer, 1)
      BY <1>4, <1>8, ShortAnswer
    <2>2. answer[1].kind # "ok"
      BY <1>4, <2>1
    <2>3. EscapesAfter(ask, answer) = session.escapes
      BY <2>2, Zenon DEF EscapesAfter
    <2>4. QED
      BY <1>4, <1>5, <2>1, <2>3
  <1>9. CASE answer \in ResultSets /\ ask = "query"
    <2>1. /\ answer \in Seq(Packets) /\ Len(answer) >= 1
          /\ answer[1].kind = "columns"
          /\ session.legacy = FALSE =>
               /\ AnswerFrom(answer, 1)
               /\ \A k \in 1..Len(answer) : TellsMode(answer[k], session.escapes)
      BY <1>9, ResultSetFacts
    <2>2. EscapesAfter(ask, answer) = session.escapes
      BY <1>9, Zenon DEF EscapesAfter
    <2>3. ASSUME session.legacy = TRUE
          PROVE  "legacy_eof" \in Spoils(ask, answer)
      <3>1. 1 \in DOMAIN answer
        BY <2>1
      <3>2. session.legacy /\ \E k \in DOMAIN answer : answer[k].kind = "columns"
        BY <2>1, <2>3, <3>1
      <3>3. QED
        BY <3>2 DEF Spoils
    <2>4. QED
      BY <1>1, <1>5, <2>1, <2>2, <2>3
  <1>10. CASE ask = "two_statements"
    <2>1. "two_statements" \in Spoils(ask, answer)
      BY <1>10 DEF Spoils
    <2>2. PICK second \in ResultSets \cup {<<same>>} : answer = <<same>> \o second
      BY <1>10, Zenon DEF Answers, same
    <2>3. second \in Seq(Packets) /\ <<same>> \in Seq(Packets) /\ Len(<<same>>) = 1
      BY <2>2, <1>2, OneFacts, ResultSetFacts
    <2>4. answer \in Seq(Packets) /\ Len(answer) = 1 + Len(second)
      BY <2>2, <2>3, ConcatFacts
    <2>5. Len(second) \in Nat
      BY <2>3
    <2>6. QED
      BY <1>5, <2>1, <2>4, <2>5
  <1>11. CASE ask = "ping"
    <2>1. answer = <<same>> /\ ask # "mode"
      BY <1>11, Zenon DEF Answers, same
    <2>2. QED
      BY <1>6, <2>1
  <1>12. CASE ask = "query"
    <2>1. answer \in ResultSets \/ answer = <<same>> \/ answer = <<err>>
      BY <1>12, Zenon DEF Answers, same, err
    <2>2. ask # "mode"
      BY <1>12
    <2>3. QED
      BY <1>6, <1>8, <1>9, <1>12, <2>1, <2>2
  <1>13. CASE ask = "mode"
    <2>1. answer = <<other>> \/ answer = <<err>>
      BY <1>13, Zenon DEF Answers, other, err
    <2>2. QED
      BY <1>7, <1>8, <1>13, <2>1
  <1>14. QED
    BY <1>10, <1>11, <1>12, <1>13 DEF Commands

-----------------------------------------------------------------------------
(* The initial state, and steps that change nothing                        *)

LEMMA InitHolds == Init => IInv
  <1> SUFFICES ASSUME Init PROVE IInv
    OBVIOUS
  <1>1. NoWrite \in Writes /\ NoSession \in Sessions
    BY WireAssumption DEF NoWrite, NoSession, Writes, Sessions, Bytes
  <1>9. <<>> \in Seq(ServerFrames) /\ <<>> \in Seq(ClientFrames) /\ 0 \in Bytes
        /\ 0 \in 0..MaxCommands /\ 0 \in 0..3 /\ {} \subseteq spoiled
    BY WireAssumption DEF Bytes
  <1>10. /\ to_server \in Seq(ServerFrames) /\ to_client \in Seq(ClientFrames)
         /\ sequence_id_ \in Bytes /\ cmd \in 0..MaxCommands /\ columns \in 0..3
         /\ writing \in Writes /\ session \in Sessions
    BY <1>1, <1>9, Zenon DEF Init
  <1>11. /\ link \in {"none", "up", "broken"}
         /\ socket_ \in BOOLEAN /\ backslash_escapes_ \in BOOLEAN /\ has_error_ \in BOOLEAN
         /\ auth_plugin_name_ \in Plugins
         /\ pc \in {"idle", "resolve", "write"} \cup Reading
         /\ reading \in ClientFrames \cup {Nothing}
         /\ spoiled \subseteq {"cancelled", "two_statements", "legacy_eof"}
    BY DEF Init, Plugins
  <1>2. Types
    BY <1>10, <1>11 DEF Types
  <1>3. ~Connecting /\ pc = "idle" /\ link = "none" /\ to_client = <<>>
    BY DEF Init, Connecting
  <1>4. Places
    BY DEF Init, Places
  <1>5. Handshake /\ Authenticated /\ Numbering /\ Escaping
    BY <1>3 DEF Handshake, Authenticated, Numbering, Escaping
  <1>6. Conversation
    BY <1>3 DEF Init, Conversation
  <1>7. Recorded
    BY DEF Init, Recorded, AnswersOwnCommand
  <1>8. QED
    BY <1>2, <1>4, <1>5, <1>6, <1>7 DEF IInv

LEMMA StutterKeeps == IInv /\ UNCHANGED vars => IInv'
  <1> SUFFICES ASSUME IInv, UNCHANGED vars PROVE IInv'
    OBVIOUS
  <1>1. /\ UNCHANGED <<link, to_server, to_client, socket_, sequence_id_>>
        /\ UNCHANGED <<backslash_escapes_, has_error_, auth_plugin_name_>>
        /\ UNCHANGED <<pc, writing, reading, columns, cmd, session>>
        /\ UNCHANGED <<spoiled, mixed, disordered>>
    BY DEF vars, wire, members, frame, history
  <1>2. Types' /\ Places'
    BY <1>1 DEF IInv, Types, Places
  <1>3. Handshake'
    BY <1>1 DEF IInv, Handshake, Connecting, MayWrite, HasWritten, IsAsked, IsAccepted
  <1>4. Authenticated' /\ Numbering' /\ Escaping'
    BY <1>1 DEF IInv, Authenticated, Numbering, Escaping, Connecting, Expected
  <1>5. Conversation' /\ Recorded'
    BY <1>1 DEF IInv, Conversation, Connecting, Expects, ServerRests, Recorded,
                AnswersOwnCommand
  <1>6. QED
    BY <1>2, <1>3, <1>4, <1>5 DEF IInv

-----------------------------------------------------------------------------
(* How an operation ends                                                   *)

\* The connection is closed.
Closes ==
  /\ pc' = "idle" /\ reading' = Nothing /\ writing' = NoWrite /\ columns' \in 0..3
  /\ socket_' = FALSE /\ Hangup
  /\ has_error_' \in BOOLEAN /\ sequence_id_' \in Bytes /\ auth_plugin_name_' \in Plugins
  /\ UNCHANGED <<backslash_escapes_, cmd, spoiled, mixed, disordered>>

LEMMA ClosesKeeps == IInv /\ Closes => IInv'
  <1> SUFFICES ASSUME IInv, Closes PROVE IInv'
    OBVIOUS
  <1>1. NoWrite \in Writes /\ NoSession \in Sessions
    BY WireAssumption DEF NoWrite, NoSession, Writes, Sessions, Bytes
  <1>9. <<>> \in Seq(ServerFrames) /\ <<>> \in Seq(ClientFrames)
    OBVIOUS
  <1>2. Types'
    BY <1>1, <1>9 DEF IInv, Types, Closes, Hangup
  <1>3. Connecting' = FALSE /\ pc' = "idle" /\ link' = "none" /\ to_client' = <<>>
    BY DEF Closes, Hangup, Connecting
  <1>4. Places'
    BY DEF Closes, Hangup, Places
  <1>5. Handshake' /\ Authenticated' /\ Numbering' /\ Escaping'
    BY <1>3 DEF Handshake, Authenticated, Numbering, Escaping
  <1>6. Conversation'
    BY <1>3 DEF Closes, Conversation
  <1>7. Recorded'
    BY DEF Closes, IInv, Recorded, AnswersOwnCommand
  <1>8. QED
    BY <1>2, <1>4, <1>5, <1>6, <1>7 DEF IInv

LEMMA ConnectFailsCloses ==
  IInv /\ ConnectFails /\ sequence_id_' \in Bytes /\ auth_plugin_name_' \in Plugins
    => Closes
  BY DEF IInv, Types, ConnectFails, CloseAfterFailure, Finish, Closes

LEMMA ConnectRefusedKeeps == IInv /\ ConnectRefused => IInv'
  BY ConnectFailsCloses, ClosesKeeps DEF IInv, Types, ConnectRefused

LEMMA DisconnectKeeps == IInv /\ Disconnect => IInv'
  <1> SUFFICES ASSUME IInv, Disconnect PROVE IInv'
    OBVIOUS
  <1>1. Closes
    BY DEF IInv, Types, Places, Disconnect, Closes, frame, history
  <1>2. QED
    BY <1>1, ClosesKeeps

\* An operation outside of connect() ends and leaves the connection as it is.
Stops ==
  /\ ~Connecting
  /\ pc' = "idle" /\ reading' = Nothing /\ writing' = NoWrite /\ columns' \in 0..3
  /\ has_error_' \in BOOLEAN /\ sequence_id_' \in Bytes
  /\ UNCHANGED <<link, to_server, to_client, session, socket_, cmd, backslash_escapes_,
                 auth_plugin_name_, mixed, disordered>>
  /\ spoiled' \in {spoiled, spoiled \cup {"cancelled"}}
  /\ link = "up" /\ "cancelled" \notin spoiled' =>
       pc = "write" /\ cmd # 0 /\ writing.started = FALSE
  /\ spoiled' = {} => to_client = <<>>

LEMMA StopsKeeps == IInv /\ Stops => IInv'
  <1> SUFFICES ASSUME IInv, Stops PROVE IInv'
    OBVIOUS
  <1>1. NoWrite \in Writes
    BY DEF NoWrite, Writes
  <1>2. Types'
    BY <1>1 DEF IInv, Types, Stops
  <1>3. Connecting' = FALSE /\ Connecting = FALSE /\ pc' = "idle"
    BY DEF Stops, Connecting
  <1>4. Places'
    BY DEF IInv, Stops, Places
  <1>5. Handshake'
    BY <1>3 DEF Handshake
  <1>6. Authenticated'
    BY <1>3 DEF IInv, Stops, Authenticated
  <1>7. Numbering'
    <2> SUFFICES ASSUME link = "up", "cancelled" \notin spoiled'
                 PROVE  /\ \A k \in 1..Len(to_server) : to_server[k].number =
                             IF k = 1 THEN session.number ELSE After(to_server[k - 1])
                        /\ Expected = 0
      BY <1>3 DEF Numbering, Stops, Expected
    <2>1. pc = "write" /\ cmd # 0 /\ writing.started = FALSE
      BY DEF Stops
    <2>2. sequence_id_ = 0
      BY <2>1 DEF IInv, Places
    <2>3. QED
      BY <1>3, <2>1, <2>2 DEF IInv, Numbering, Stops
  <1>8. Conversation'
    <2> SUFFICES ASSUME spoiled' = {}
                 PROVE  Conversation'
      BY DEF Conversation
    <2>1. spoiled = {} /\ to_client = <<>>
      BY DEF Stops
    <2>2. /\ to_client' = <<>> /\ reading' = Nothing /\ Len(to_client') = 0
      BY <2>1 DEF Stops
    <2>3. ASSUME link' = "up"
          PROVE  ServerRests' /\ \A k \in 1..Len(to_server) : to_server[k].cmd = cmd
      <3>1. pc = "write" /\ writing.started = FALSE
        BY <2>1, <2>3 DEF Stops
      <3>2. ServerRests /\ \A k \in 1..Len(to_server) : to_server[k].cmd = cmd
        BY <1>3, <2>1, <2>3, <3>1 DEF IInv, Conversation, Stops
      <3>3. QED
        BY <3>2 DEF ServerRests, Stops
    <2>4. QED
      BY <1>3, <2>2, <2>3 DEF Conversation, Listening, Stops
  <1>9. Escaping'
    <2> SUFFICES ASSUME spoiled' = {}, link = "up"
                 PROVE  Escaping'
      BY DEF Escaping, Stops
    <2>1. spoiled = {} /\ to_client = <<>> /\ pc = "write" /\ to_client' = <<>>
      BY DEF Stops
    <2>2. backslash_escapes_ = session.escapes
      BY <1>3, <2>1 DEF IInv, Escaping
    <2>3. QED
      BY <2>1, <2>2 DEF Escaping, Stops
  <1>10. Recorded'
    BY DEF IInv, Stops, Recorded, AnswersOwnCommand
  <1>11. QED
    BY <1>2, <1>4, <1>5, <1>6, <1>7, <1>8, <1>9, <1>10 DEF IInv

\* Between operations, and while one is written, nothing waits to be read.
LEMMA NothingToRead ==
  ASSUME IInv, pc \in {"idle", "write"}, ~Connecting, spoiled = {}
  PROVE  to_client = <<>> /\ reading = Nothing
  BY DEF IInv, Conversation

LEMMA CommandWithoutSocketKeeps == IInv /\ CommandWithoutSocket => IInv'
  <1> SUFFICES ASSUME IInv, CommandWithoutSocket PROVE IInv'
    OBVIOUS
  <1>1. pc = "idle" /\ ~Connecting /\ link = "none"
    BY DEF CommandWithoutSocket, Connecting, IInv, Places, Types
  <1>2. spoiled = {} => to_client = <<>>
    BY <1>1, NothingToRead
  <1>3. 0 \in Bytes /\ 0 \in 0..3
    BY WireAssumption DEF Bytes
  <1>4. has_error_' \in BOOLEAN
    BY DEF CommandWithoutSocket, Finish, IInv, Types
  <1>5. Stops
    BY <1>1, <1>2, <1>3, <1>4 DEF CommandWithoutSocket, Finish, FirstNumber, Stops, wire
  <1>6. QED
    BY <1>5, StopsKeeps

LEMMA StreamFailsKeeps == IInv /\ StreamFails => IInv'
  <1> SUFFICES ASSUME IInv, StreamFails PROVE IInv'
    OBVIOUS
  <1>1. sequence_id_' \in Bytes /\ auth_plugin_name_' \in Plugins
    BY DEF StreamFails, IInv, Types
  <1>2. CASE Connecting
    BY <1>1, <1>2, ConnectFailsCloses, ClosesKeeps DEF StreamFails
  <1>3. CASE ~Connecting
    <2>1. has_error_' \in BOOLEAN
      BY <1>3 DEF StreamFails, CommandFails, Finish, IInv, Types
    <2>2. spoiled = {} => to_client = <<>>
      BY <1>3, NothingToRead DEF StreamFails
    <2>3. Stops
      BY <1>1, <1>3, <2>1, <2>2 DEF StreamFails, CommandFails, Finish, Stops
    <2>4. QED
      BY <2>3, StopsKeeps
  <1>4. QED
    BY <1>2, <1>3

LEMMA CancelledKeeps == IInv /\ Cancelled => IInv'
  <1> SUFFICES ASSUME IInv, Cancelled PROVE IInv'
    OBVIOUS
  <1>1. sequence_id_' \in Bytes /\ auth_plugin_name_' \in Plugins
    BY DEF Cancelled, IInv, Types
  <1>2. CASE Connecting
    BY <1>1, <1>2, ConnectFailsCloses, ClosesKeeps DEF Cancelled
  <1>3. CASE ~Connecting
    <2>1. has_error_' \in BOOLEAN
      BY <1>3 DEF Cancelled, CommandFails, Finish, IInv, Types
    <2>2. cmd # 0
      BY <1>3 DEF Cancelled, Connecting
    <2>3. writing.started \in BOOLEAN
      BY DEF IInv, Types, Writes
    <2>4. CASE pc = "write" /\ writing.started = FALSE
      <3>1. spoiled' = spoiled
        BY <1>3, <2>4 DEF Cancelled
      <3>2. spoiled = {} => to_client = <<>>
        BY <1>3, <2>4, NothingToRead
      <3>3. Stops
        BY <1>1, <1>3, <2>1, <2>2, <2>4, <3>1, <3>2
           DEF Cancelled, CommandFails, Finish, Stops
      <3>4. QED
        BY <3>3, StopsKeeps
    <2>5. CASE ~(pc = "write" /\ writing.started = FALSE)
      <3>1. spoiled' = spoiled \cup {"cancelled"}
        BY <1>3, <2>3, <2>5 DEF Cancelled
      <3>2. Stops
        BY <1>1, <1>3, <2>1, <3>1 DEF Cancelled, CommandFails, Finish, Stops
      <3>3. QED
        BY <3>2, StopsKeeps
    <2>6. QED
      BY <2>4, <2>5
  <1>4. QED
    BY <1>2, <1>3

-----------------------------------------------------------------------------
(* How an operation begins                                                 *)

LEMMA ConnectCallKeeps == IInv /\ ConnectCall => IInv'
  <1> SUFFICES ASSUME IInv, ConnectCall PROVE IInv'
    OBVIOUS
  <1>1. NoSession \in Sessions /\ 0 \in Bytes /\ 0 \in 0..MaxCommands
    BY WireAssumption DEF NoSession, Sessions, Bytes
  <1>2. <<>> \in Seq(ServerFrames) /\ <<>> \in Seq(ClientFrames)
    OBVIOUS
  <1>3. Types'
    BY <1>1, <1>2 DEF IInv, Types, ConnectCall, FreshStream
  <1>4. Connecting' = TRUE /\ pc' = "resolve" /\ cmd' = 0 /\ link' = "none"
    BY DEF ConnectCall, Connecting, FreshStream
  <1>5. reading' = Nothing /\ to_client' = <<>> /\ to_server' = <<>> /\ spoiled' = {}
    BY DEF ConnectCall, FreshStream, IInv, Places
  <1>6. Places'
    BY <1>4, <1>5 DEF Places, ConnectCall
  <1>7. Handshake'
    BY <1>4, <1>5 DEF Handshake
  <1>8. Authenticated' /\ Numbering' /\ Escaping' /\ Conversation'
    BY <1>4 DEF Authenticated, Numbering, Escaping, Conversation
  <1>9. Recorded'
    BY DEF ConnectCall, Recorded, AnswersOwnCommand
  <1>10. QED
    BY <1>3, <1>6, <1>7, <1>8, <1>9 DEF IInv

LEMMA CommandKeeps ==
  ASSUME IInv, NEW ask \in Commands, NEW size \in Nat, Command(ask, size)
  PROVE  IInv'
  <1>1. /\ pc = "idle" /\ pc' = "write" /\ cmd < MaxCommands /\ cmd' = cmd + 1
        /\ sequence_id_' = 0
        /\ UNCHANGED <<link, to_server, to_client, socket_, backslash_escapes_,
                       has_error_, auth_plugin_name_, reading, columns, session, spoiled,
                       mixed, disordered>>
    BY DEF Command, StartWrite, FirstNumber, wire, history
  <1>2. /\ writing'.left = size /\ writing'.empty = FALSE /\ writing'.started = FALSE
        /\ writing'.ask = ask /\ writing'.next = "answer" /\ writing' \in Writes
    BY DEF Command, StartWrite, Writes
  <1>3. 0 \in Bytes /\ cmd' \in 0..MaxCommands /\ cmd' # 0
    BY <1>1, WireAssumption DEF Bytes, IInv, Types
  <1>4. Types'
    BY <1>1, <1>2, <1>3 DEF IInv, Types
  <1>5. Connecting = FALSE /\ Connecting' = FALSE
    BY <1>1, <1>3 DEF Connecting
  <1>6. Places'
    BY <1>1, <1>2, <1>3 DEF IInv, Places
  <1>7. Handshake' /\ Authenticated'
    BY <1>1, <1>5 DEF IInv, Handshake, Authenticated
  <1>8. Numbering'
    BY <1>1, <1>5 DEF IInv, Numbering, Expected
  <1>9. Conversation'
    <2> SUFFICES ASSUME spoiled = {}
                 PROVE  Conversation'
      BY <1>1 DEF Conversation
    <2>1. to_client' = <<>> /\ reading' = Nothing
      BY <1>1, <1>5, NothingToRead
    <2>2. link = "up" => ServerRests' /\ to_server' = <<>>
      BY <1>1, <1>5 DEF IInv, Conversation, ServerRests
    <2>3. QED
      BY <1>1, <2>1, <2>2 DEF Conversation, Listening
  <1>10. Escaping'
    <2>1. spoiled = {} => to_client = <<>>
      BY <1>1, <1>5, NothingToRead
    <2>2. QED
      BY <1>1, <1>5, <2>1 DEF IInv, Escaping
  <1>11. Recorded'
    BY <1>1 DEF IInv, Recorded, AnswersOwnCommand
  <1>12. QED
    BY <1>4, <1>6, <1>7, <1>8, <1>9, <1>10, <1>11 DEF IInv

-----------------------------------------------------------------------------
(* The network                                                             *)

LEMMA LinkBreaksKeeps == IInv /\ LinkBreaks => IInv'
  <1> SUFFICES ASSUME IInv, LinkBreaks PROVE IInv'
    OBVIOUS
  <1>1. /\ link = "up" /\ link' = "broken" /\ to_server' = <<>> /\ session' = NoSession
        /\ to_client' \in {to_client, <<>>}
        /\ UNCHANGED <<socket_, sequence_id_, backslash_escapes_, has_error_,
                       auth_plugin_name_, pc, writing, reading, columns, cmd, spoiled,
                       mixed, disordered>>
    BY DEF LinkBreaks, members, frame, history
  <1>2. NoSession \in Sessions
    BY WireAssumption DEF NoSession, Sessions, Bytes
  <1>3. <<>> \in Seq(ServerFrames) /\ <<>> \in Seq(ClientFrames)
    OBVIOUS
  <1>4. Types'
    BY <1>1, <1>2, <1>3 DEF IInv, Types
  <1>5. Connecting' = Connecting
    BY <1>1 DEF Connecting
  <1>6. Places'
    BY <1>1 DEF IInv, Places
  <1>7. Handshake'
    <2>1. CASE to_client' = to_client
      BY <1>1, <1>5, <2>1 DEF IInv, Handshake
    <2>2. CASE to_client' = <<>>
      BY <1>1, <1>5, <2>2 DEF IInv, Handshake
    <2>3. QED
      BY <1>1, <2>1, <2>2
  <1>8. Authenticated' /\ Numbering' /\ Escaping'
    BY <1>1 DEF Authenticated, Numbering, Escaping
  <1>9. Conversation'
    <2>1. CASE to_client' = to_client
      BY <1>1, <1>5, <2>1 DEF IInv, Conversation, Expects
    <2>2. CASE to_client' = <<>>
      BY <1>1, <1>5, <2>2 DEF IInv, Conversation
    <2>3. QED
      BY <1>1, <2>1, <2>2
  <1>10. Recorded'
    BY <1>1 DEF IInv, Recorded, AnswersOwnCommand
  <1>11. QED
    BY <1>4, <1>6, <1>7, <1>8, <1>9, <1>10 DEF IInv

LEMMA ServerHangsUpKeeps == IInv /\ ServerHangsUp => IInv'
  <1> SUFFICES ASSUME IInv, ServerHangsUp PROVE IInv'
    OBVIOUS
  <1>1. /\ link = "up" /\ link' = "broken" /\ to_server' = <<>> /\ session' = NoSession
        /\ UNCHANGED <<to_client, socket_, sequence_id_, backslash_escapes_, has_error_,
                       auth_plugin_name_, pc, writing, reading, columns, cmd, spoiled,
                       mixed>>
    BY DEF ServerHangsUp, members, frame
  <1>2. Len(to_server) >= 1 /\ Len(to_server) \in Nat /\ to_server[1].number # session.number
    BY TailFacts DEF ServerHangsUp, IInv, Types
  <1>3. ~Connecting
    BY <1>1, <1>2 DEF IInv, Handshake, MayWrite, HasWritten, IsAsked, IsAccepted
  <1>4. "cancelled" \in spoiled
    BY <1>1, <1>2, <1>3 DEF IInv, Numbering
  <1>5. NoSession \in Sessions
    BY WireAssumption DEF NoSession, Sessions, Bytes
  <1>6. <<>> \in Seq(ServerFrames)
    OBVIOUS
  <1>7. Types'
    BY <1>1, <1>5, <1>6 DEF IInv, Types
  <1>8. Connecting' = Connecting
    BY <1>1 DEF Connecting
  <1>9. Places'
    BY <1>1 DEF IInv, Places
  <1>10. Handshake'
    BY <1>3, <1>8 DEF Handshake
  <1>11. Authenticated' /\ Numbering' /\ Escaping' /\ Conversation'
    BY <1>1, <1>4 DEF Authenticated, Numbering, Escaping, Conversation
  <1>12. Recorded'
    BY <1>1, <1>4 DEF Recorded, AnswersOwnCommand
  <1>13. QED
    BY <1>7, <1>9, <1>10, <1>11, <1>12 DEF IInv

Hellos == {Pkt("greeting", plugin) : plugin \in Plugins} \cup {Pkt("err", "")}

LEMMA ConnectAcceptedKeeps == IInv /\ ConnectAccepted => IInv'
  <1> SUFFICES ASSUME IInv, ConnectAccepted PROVE IInv'
    OBVIOUS
  <1>1. /\ pc = "resolve" /\ link' = "up" /\ pc' = "greeting"
        /\ UNCHANGED <<to_server, socket_, sequence_id_, backslash_escapes_, has_error_,
                       auth_plugin_name_, writing, reading, columns, cmd, spoiled,
                       mixed, disordered>>
    BY DEF ConnectAccepted, members, history
  <1>2. PICK escapes \in BOOLEAN, legacy \in BOOLEAN, hello \in Hellos :
          /\ session' = [NoSession EXCEPT !.phase = "auth", !.number = 1,
                                          !.escapes = escapes, !.legacy = legacy]
          /\ to_client' = Frames(<<hello>>, 0, 0)
    BY Zenon DEF ConnectAccepted, Hellos
  <1>3. hello \in Packets /\ hello.kind \in {"greeting", "err"} /\ hello.full = FALSE
    <2>1. CASE hello = Pkt("err", "")
      BY <2>1, PlainFacts DEF Kinds
    <2>2. CASE \E plugin \in Plugins : hello = Pkt("greeting", plugin)
      <3>1. PICK plugin \in Plugins : hello = Pkt("greeting", plugin)
        BY <2>2
      <3>2. "greeting" \in Kinds /\ plugin \in Data
        BY DEF Kinds, Data
      <3>3. QED
        BY <3>1, <3>2, PktFacts
    <2>3. QED
      BY <2>1, <2>2, Zenon DEF Hellos
  <1>4. /\ session' \in Sessions /\ session'.phase = "auth" /\ session'.number = 1
        /\ session'.ask = "nothing"
    <2>1. NoSession \in Sessions /\ 1 \in Bytes
      BY WireAssumption DEF NoSession, Sessions, Bytes
    <2>2. session' = [phase |-> "auth", number |-> 1, ask |-> "nothing",
                      escapes |-> escapes, legacy |-> legacy, switched |-> FALSE]
      BY <1>2 DEF NoSession
    <2>3. QED
      BY <2>1, <2>2 DEF Sessions
  <1>5. /\ to_client' \in Seq(ClientFrames) /\ Len(to_client') = 1
        /\ to_client'[1].kind = hello.kind /\ to_client'[1].full = FALSE
        /\ to_client'[1].cmd = 0
    <2>1. <<hello>> \in Seq(Packets) /\ Len(<<hello>>) = 1 /\ <<hello>>[1] = hello
      BY <1>3, OneFacts
    <2>2. 0 \in 0..MaxCommands /\ 0 \in Nat
      BY WireAssumption
    <2> DEFINE s == Frames(<<hello>>, 0, 0)
    <2>3. /\ s \in Seq(ClientFrames) /\ Len(s) = Len(<<hello>>)
          /\ \A k \in 1..Len(s) : /\ s[k].kind = <<hello>>[k].kind
                                  /\ s[k].full = <<hello>>[k].full
                                  /\ s[k].cmd = 0
      BY <2>1, <2>2, FramesFacts
    <2> HIDE DEF s
    <2>4. to_client' = s
      BY <1>2 DEF s
    <2>5. QED
      BY <1>3, <2>1, <2>3, <2>4
  <1>6. Types'
    BY <1>1, <1>4, <1>5 DEF IInv, Types, Reading
  <1>7. /\ cmd' = 0 /\ Connecting' = TRUE /\ Connecting = TRUE /\ reading = Nothing
        /\ socket_ /\ to_server = <<>>
    BY <1>1 DEF Connecting, IInv, Places
  <1>8. Places'
    BY <1>1, <1>7 DEF Places
  <1>9. spoiled = {}
    BY <1>7 DEF IInv, Handshake
  <1>10. Handshake'
    <2>1. IsAsked'
      BY <1>1, <1>3, <1>4, <1>5, <1>7 DEF IsAsked
    <2>2. \A k \in 1..Len(to_client') : k = 1
      BY <1>5
    <2>3. TellsMode(to_client'[1], session'.escapes)
      BY <1>3, <1>5 DEF TellsMode
    <2>4. QED
      BY <1>1, <1>3, <1>4, <1>5, <1>7, <1>9, <2>1, <2>2, <2>3 DEF Handshake
  <1>11. Authenticated' /\ Numbering' /\ Escaping' /\ Conversation'
    BY <1>7 DEF Authenticated, Numbering, Escaping, Conversation
  <1>12. Recorded'
    BY <1>1 DEF IInv, Recorded, AnswersOwnCommand
  <1>13. QED
    BY <1>6, <1>8, <1>10, <1>11, <1>12 DEF IInv

-----------------------------------------------------------------------------
(* A frame is written                                                      *)

\* The last frame of a payload, and no other, is not full.
LEMMA WriteFrameFacts ==
  ASSUME IInv, WriteFrame
  PROVE  \E f \in ServerFrames :
           /\ f.number = sequence_id_ /\ f.ask = writing.ask /\ f.cmd = cmd
           /\ to_server' = IF link = "up" THEN Append(to_server, f) ELSE to_server
           /\ f.full = FALSE => writing' = NoWrite /\ pc' = writing.next
           /\ f.full = TRUE => /\ pc' = "write" /\ writing' \in Writes
                               /\ writing'.started = TRUE
                               /\ writing'.ask = writing.ask
                               /\ writing'.next = writing.next
                               /\ writing'.empty => writing'.left = 0
           /\ cmd = 0 => f.full = FALSE
  <1> DEFINE n     == IF writing.left > MaxChunk THEN MaxChunk ELSE writing.left
             left  == writing.left - n
             empty == ~writing.empty /\ NeedsEmptyFrame(n, left)
             last  == left = 0 /\ ~empty
             f     == [full |-> n = MaxChunk, number |-> sequence_id_,
                       ask |-> writing.ask, cmd |-> cmd]
  <1>1. /\ to_server' = IF link = "up" THEN Append(to_server, f) ELSE to_server
        /\ IF last THEN writing' = NoWrite /\ pc' = writing.next
                   ELSE /\ writing' = [writing EXCEPT !.left = left, !.empty = empty,
                                                      !.started = TRUE]
                        /\ UNCHANGED pc
    BY Zenon DEF WriteFrame
  <1>2. /\ pc = "write" /\ writing \in Writes /\ sequence_id_ \in Bytes
        /\ cmd \in 0..MaxCommands
    BY DEF WriteFrame, IInv, Types
  <1>3. /\ writing.left \in Nat /\ writing.empty \in BOOLEAN
        /\ writing.ask \in Commands \cup HelloAsks \cup {"nothing"}
    BY <1>2 DEF Writes
  <1>4. writing.empty => writing.left = 0
    BY <1>2 DEF IInv, Places
  <1>5. writing.ask \in Commands \cup HelloAsks
    BY <1>2 DEF IInv, Places
  <1>6. MaxChunk \in Nat /\ MaxChunk > 1
    BY WireAssumption
  <1>7. n \in Nat /\ left \in Nat /\ empty \in BOOLEAN
    BY <1>3, <1>6
  <1>8. last <=> n # MaxChunk
    BY <1>3, <1>4, <1>6 DEF NeedsEmptyFrame
  <1>9. empty => left = 0
    BY DEF NeedsEmptyFrame
  <1>10. cmd = 0 => n # MaxChunk
    BY <1>2, <1>6 DEF IInv, Places
  <1> HIDE DEF n, left, empty, last
  <1>11. f \in ServerFrames
    BY <1>2, <1>5, Zenon DEF ServerFrames
  <1>12. /\ f.number = sequence_id_ /\ f.ask = writing.ask /\ f.cmd = cmd
         /\ f.full = (n = MaxChunk)
    OBVIOUS
  <1> HIDE DEF f
  <1>13. CASE n = MaxChunk
    <2>1. /\ writing' = [writing EXCEPT !.left = left, !.empty = empty, !.started = TRUE]
          /\ pc' = pc
      BY <1>1, <1>8, <1>13
    <2>2. /\ writing' \in Writes /\ writing'.left = left /\ writing'.empty = empty
          /\ writing'.started = TRUE /\ writing'.ask = writing.ask
          /\ writing'.next = writing.next
      <3>1. writing \in Writes
        BY <1>2
      <3>2. left \in Nat /\ empty \in BOOLEAN
        BY <1>7
      <3>3. writing' = [writing EXCEPT !.left = left, !.empty = empty, !.started = TRUE]
        BY <2>1
      <3>4. QED
        BY <3>1, <3>2, <3>3 DEF Writes
    <2>3. f.full = TRUE
      BY <1>12, <1>13
    <2>4. QED
      BY <1>1, <1>2, <1>9, <1>10, <1>11, <1>12, <1>13, <2>1, <2>2, <2>3
  <1>14. CASE n # MaxChunk
    <2>1. writing' = NoWrite /\ pc' = writing.next
      BY <1>1, <1>8, <1>14
    <2>2. f.full = FALSE
      BY <1>12, <1>14
    <2>3. QED
      BY <1>1, <1>11, <1>12, <2>1, <2>2
  <1>15. QED
    BY <1>13, <1>14

LEMMA WriteFrameKeeps == IInv /\ WriteFrame => IInv'
  <1> SUFFICES ASSUME IInv, WriteFrame PROVE IInv'
    OBVIOUS
  <1>1. PICK f \in ServerFrames :
           /\ f.number = sequence_id_ /\ f.ask = writing.ask /\ f.cmd = cmd
           /\ to_server' = IF link = "up" THEN Append(to_server, f) ELSE to_server
           /\ f.full = FALSE => writing' = NoWrite /\ pc' = writing.next
           /\ f.full = TRUE => /\ pc' = "write" /\ writing' \in Writes
                               /\ writing'.started = TRUE
                               /\ writing'.ask = writing.ask
                               /\ writing'.next = writing.next
                               /\ writing'.empty => writing'.left = 0
           /\ cmd = 0 => f.full = FALSE
    BY WriteFrameFacts
  <1>2. /\ pc = "write" /\ link # "none" /\ sequence_id_' = Succ(sequence_id_)
        /\ UNCHANGED <<link, to_client, socket_, backslash_escapes_, has_error_,
                       auth_plugin_name_, reading, columns, cmd, session, spoiled,
                       mixed, disordered>>
    BY DEF WriteFrame, history
  <1>3. f.full \in BOOLEAN
    BY DEF ServerFrames
  <1>4. to_server \in Seq(ServerFrames) /\ Len(to_server) \in Nat
    BY DEF IInv, Types
  <1>5. link = "up" =>
          /\ to_server' \in Seq(ServerFrames) /\ Len(to_server') = Len(to_server) + 1
          /\ \A k \in 1..Len(to_server) : to_server'[k] = to_server[k]
          /\ to_server'[Len(to_server) + 1] = f
          /\ to_server' # <<>>
    BY <1>1, <1>4, AppendFacts
  <1>6. link # "up" => to_server' = to_server
    BY <1>1
  <1>7. sequence_id_' \in Bytes
    BY <1>2, NumbersWrap, WireAssumption DEF IInv, Types, Bytes
  <1>8. writing.next \in {"auth", "key", "answer"} /\ NoWrite \in Writes
    BY <1>2 DEF IInv, Places, NoWrite, Writes
  <1>9. pc' \in {"write", "auth", "key", "answer"} /\ writing' \in Writes
    BY <1>1, <1>3, <1>8
  <1>10. Types'
    BY <1>2, <1>4, <1>5, <1>6, <1>7, <1>9 DEF IInv, Types, Reading
  <1>11. Connecting' = Connecting /\ (Connecting <=> cmd = 0)
    BY <1>2, <1>9 DEF Connecting
  <1>12. Places'
    BY <1>1, <1>2, <1>3, <1>6, <1>9 DEF IInv, Places
  <1>13. Handshake'
    <2> SUFFICES ASSUME Connecting
                 PROVE  Handshake'
      BY <1>11 DEF Handshake
    <2>1. f.full = FALSE /\ cmd = 0 /\ pc' \in {"auth", "key"}
      BY <1>1, <1>2, <1>11 DEF IInv, Places
    <2>2. to_client = <<>> /\ spoiled = {} /\ reading = Nothing
      BY <1>2 DEF IInv, Handshake
    <2>3. ASSUME link = "up" PROVE HasWritten' /\ session.ask = "nothing"
      <3>1. MayWrite /\ session.ask = "nothing"
        BY <1>2, <2>3 DEF IInv, Handshake, HasWritten, IsAsked, IsAccepted
      <3>2. Len(to_server) = 0
        BY <3>1, <1>4 DEF MayWrite
      <3>3. Len(to_server') = 1 /\ to_server'[1] = f
        BY <1>5, <2>3, <3>2
      <3>4. QED
        BY <1>1, <1>2, <2>1, <2>2, <3>1, <3>3 DEF MayWrite, HasWritten
    <2>4. QED
      BY <1>2, <2>1, <2>2, <2>3 DEF Handshake
  <1>14. Authenticated'
    <2> SUFFICES ASSUME ~Connecting, link = "up"
                 PROVE  Authenticated'
      BY <1>2, <1>11 DEF Authenticated
    <2>1. f.ask \in Commands
      BY <1>1, <1>2, <1>11 DEF IInv, Places
    <2>2. \A k \in 1..Len(to_server') : k \in 1..Len(to_server) \/ k = Len(to_server) + 1
      BY <1>4, <1>5
    <2>3. QED
      BY <1>2, <1>5, <2>1, <2>2 DEF IInv, Authenticated
  <1>15. Numbering'
    <2> SUFFICES ASSUME ~Connecting, link = "up", "cancelled" \notin spoiled
                 PROVE  Numbering'
      BY <1>2, <1>11 DEF Numbering
    <2>1. /\ \A k \in 1..Len(to_server) : to_server[k].number =
               IF k = 1 THEN session.number ELSE After(to_server[k - 1])
          /\ Expected = sequence_id_
      BY <1>2 DEF IInv, Numbering
    <2>2. \A k \in 1..Len(to_server) : to_server'[k].number =
             IF k = 1 THEN session.number ELSE After(to_server'[k - 1])
      BY <1>4, <1>5, <2>1
    <2>3. f.number = IF Len(to_server) + 1 = 1 THEN session.number
                                               ELSE After(to_server'[Len(to_server)])
      BY <1>1, <1>4, <1>5, <2>1 DEF Expected
    <2>4. \A k \in 1..Len(to_server') : k \in 1..Len(to_server) \/ k = Len(to_server) + 1
      BY <1>4, <1>5
    <2>5. \A k \in 1..Len(to_server') : to_server'[k].number =
             IF k = 1 THEN session'.number ELSE After(to_server'[k - 1])
      BY <1>2, <1>4, <1>5, <2>2, <2>3, <2>4
    <2>6. Expected' = After(f)
      BY <1>5 DEF Expected
    <2>7. After(f) = IF pc' = "write" THEN sequence_id_' ELSE 0
      BY <1>1, <1>2, <1>3, <1>8 DEF After
    <2>8. QED
      BY <2>5, <2>6, <2>7 DEF Numbering
  <1>16. Conversation'
    <2> SUFFICES ASSUME ~Connecting, spoiled = {}
                 PROVE  Conversation'
      BY <1>2, <1>11 DEF Conversation
    <2>1. to_client' = <<>> /\ reading' = Nothing
      BY <1>2, NothingToRead
    <2>2. pc' = IF f.full = TRUE THEN "write" ELSE "answer"
      BY <1>1, <1>2, <1>3, <1>11 DEF IInv, Places
    <2>3. pc' = "write" => writing'.started = TRUE
      BY <1>1, <2>2
    <2>4. ASSUME link = "up"
          PROVE  /\ \A k \in 1..Len(to_server') : to_server'[k].cmd = cmd
                 /\ \A k \in 1..Len(to_server) : to_server'[k].full = TRUE
                 /\ \A k \in 1..Len(to_server') :
                      k \in 1..Len(to_server) \/ k = Len(to_server')
                 /\ to_server'[Len(to_server')] = f /\ to_server' # <<>>
      <3>1. /\ \A k \in 1..Len(to_server) : to_server[k].cmd = cmd
            /\ \A k \in 1..Len(to_server) : to_server[k].full = TRUE
        BY <1>2, <2>4 DEF IInv, Conversation
      <3>2. \A k \in 1..Len(to_server') : k \in 1..Len(to_server) \/ k = Len(to_server')
        BY <1>4, <1>5, <2>4
      <3>3. QED
        BY <1>1, <1>5, <2>4, <3>1, <3>2
    <2>5. ASSUME link = "up", pc' = "answer"
          PROVE  \A k \in 1..Len(to_server') : to_server'[k].full = (k # Len(to_server'))
      <3>1. f.full = FALSE
        BY <1>3, <2>2, <2>5
      <3>2. \A k \in 1..Len(to_server) : k # Len(to_server')
        BY <1>4, <1>5, <2>5
      <3>3. QED
        BY <2>4, <2>5, <3>1, <3>2
    <2>6. ASSUME link = "up", pc' = "write"
          PROVE  \A k \in 1..Len(to_server') : to_server'[k].full = TRUE
      BY <2>2, <2>4, <2>6
    <2>7. Len(to_client') = 0 /\ pc' \in {"write", "answer"}
      BY <2>1, <2>2
    <2>8. link' = "up" /\ pc' \in Listening =>
            /\ pc' = "answer" /\ reading' = Nothing
            /\ to_client' = <<>> /\ to_server' # <<>>
            /\ \A k \in 1..Len(to_server') : to_server'[k].full = (k # Len(to_server'))
      BY <1>2, <2>1, <2>4, <2>5, <2>7 DEF Listening
    <2>9. link' = "up" => \A k \in 1..Len(to_server') : to_server'[k].cmd = cmd'
      BY <1>2, <2>4
    <2>10. pc' # "idle" /\ ~(pc' = "write" /\ writing'.started = FALSE)
      BY <2>3, <2>7
    <2>11. link' = "up" =>
             /\ \A k \in 1..Len(to_server') : to_server'[k].cmd = cmd'
             /\ pc' = "write" => \A k \in 1..Len(to_server') : to_server'[k].full = TRUE
      BY <1>2, <2>6, <2>9
    <2>12. \A k \in 1..Len(to_client') : FALSE
      BY <2>7
    <2>13. QED
      BY <2>1, <2>8, <2>10, <2>11, <2>12 DEF Conversation
  <1>17. Escaping'
    <2>1. ~Connecting /\ spoiled = {} => to_client = <<>>
      BY <1>2, NothingToRead
    <2>2. QED
      BY <1>2, <1>11, <2>1 DEF IInv, Escaping
  <1>18. Recorded'
    BY <1>2 DEF IInv, Recorded, AnswersOwnCommand
  <1>19. QED
    BY <1>10, <1>12, <1>13, <1>14, <1>15, <1>16, <1>17, <1>18 DEF IInv

-----------------------------------------------------------------------------
(* A frame is read                                                         *)

LEMMA ReadFacts ==
  ASSUME IInv, to_client # <<>>
  PROVE  /\ Tail(to_client) \in Seq(ClientFrames)
         /\ Len(Tail(to_client)) = Len(to_client) - 1
         /\ Len(to_client) \in Nat /\ Len(to_client) >= 1
         /\ \A k \in 1..(Len(to_client) - 1) : Tail(to_client)[k] = to_client[k + 1]
         /\ Head(to_client) = to_client[1] /\ to_client[1] \in ClientFrames
         /\ to_client[1].full \in BOOLEAN /\ Succ(to_client[1].number) \in Bytes
         /\ to_client[1].kind \in Kinds
  <1>1. to_client \in Seq(ClientFrames)
    BY DEF IInv, Types
  <1>2. /\ Tail(to_client) \in Seq(ClientFrames)
        /\ Len(Tail(to_client)) = Len(to_client) - 1
        /\ Len(to_client) \in Nat /\ Len(to_client) >= 1
        /\ \A k \in 1..(Len(to_client) - 1) : Tail(to_client)[k] = to_client[k + 1]
        /\ Head(to_client) = to_client[1] /\ to_client[1] \in ClientFrames
    BY <1>1, TailFacts
  <1>3. to_client[1] \in AnyFrames
    BY <1>2 DEF ClientFrames
  <1>4. /\ to_client[1].full \in BOOLEAN /\ to_client[1].number \in Bytes
        /\ to_client[1].kind \in Kinds
    BY <1>3 DEF AnyFrames
  <1>5. to_client[1].number \in Int
    BY <1>4, WireAssumption DEF Bytes
  <1>6. QED
    BY <1>2, <1>4, <1>5, NumbersWrap

LEMMA FrameIsSomething ==
  ASSUME NEW f \in ClientFrames
  PROVE  f # Nothing /\ f.kind \in Kinds
  <1>1. f \in AnyFrames
    BY DEF ClientFrames
  <1>2. f.kind \in Kinds
    BY <1>1 DEF AnyFrames
  <1>3. Nothing.kind = "nothing" /\ "nothing" \notin Kinds
    BY DEF Nothing, Kinds
  <1>4. QED
    BY <1>2, <1>3

\* The rest of an answer, once its first frame has been read.
LEMMA TailShift ==
  ASSUME NEW s \in Seq(ClientFrames), s # <<>>
  PROVE  /\ RestFrom(s, 2) => RestFrom(Tail(s), 1)
         /\ RowsFrom(s, 2) => RowsFrom(Tail(s), 1)
         /\ ColumnsFrom(s, 2) => ColumnsFrom(Tail(s), 1)
  <1>1. /\ Len(Tail(s)) = Len(s) - 1 /\ Len(s) \in Nat /\ Len(s) >= 1
        /\ \A k \in 1..(Len(s) - 1) : Tail(s)[k] = s[k + 1]
    BY TailFacts
  <1> DEFINE t == Tail(s)
  <1> HIDE DEF t
  <1>2. Len(t) = Len(s) - 1 /\ \A k \in 1..(Len(s) - 1) : t[k] = s[k + 1]
    BY <1>1 DEF t
  <1>3. ASSUME NEW i \in {1, 2, 3}, NEW kinds, Ends(s, i + 1, kinds)
        PROVE  Ends(t, i, kinds)
    BY <1>1, <1>2, <1>3 DEF Ends
  <1>4. ASSUME NEW i \in {1, 2}, RestFrom(s, i + 1)
        PROVE  RestFrom(t, i)
    <2>1. Len(s) = i + 2 /\ s[i + 1].kind = "rest" /\ s[i + 1].full = FALSE
          /\ Ends(s, i + 2, {"eof", "err"})
      BY <1>4 DEF RestFrom
    <2>2. Ends(t, i + 1, {"eof", "err"})
      BY <1>1, <1>2, <2>1 DEF Ends
    <2>3. Len(t) = i + 1 /\ t[i] = s[i + 1]
      BY <1>1, <1>2, <2>1
    <2>4. QED
      BY <2>1, <2>2, <2>3 DEF RestFrom
  <1>5. ASSUME NEW i \in {1, 2}, RowsFrom(s, i + 1)
        PROVE  RowsFrom(t, i)
    <2>1. CASE Ends(s, i + 1, {"eof", "err"})
      BY <1>3, <2>1 DEF RowsFrom
    <2>2. CASE /\ Len(s) = (i + 1) + 1
               /\ s[i + 1].kind = "row" /\ s[i + 1].full = FALSE
               /\ Ends(s, (i + 1) + 1, {"eof", "err"})
      <3>1. Ends(t, i + 1, {"eof", "err"})
        BY <1>1, <1>2, <2>2 DEF Ends
      <3>2. Len(t) = i + 1 /\ t[i] = s[i + 1]
        BY <1>1, <1>2, <2>2
      <3>3. QED
        BY <2>2, <3>1, <3>2 DEF RowsFrom
    <2>3. CASE /\ Len(s) = (i + 1) + 2
               /\ s[i + 1].kind = "row" /\ s[i + 1].full = TRUE
               /\ RestFrom(s, (i + 1) + 1)
      <3>1. RestFrom(t, i + 1)
        BY <1>1, <1>2, <2>3 DEF RestFrom, Ends
      <3>2. Len(t) = i + 2 /\ t[i] = s[i + 1]
        BY <1>1, <1>2, <2>3
      <3>3. QED
        BY <2>3, <3>1, <3>2 DEF RowsFrom
    <2>4. QED
      BY <1>5, <2>1, <2>2, <2>3 DEF RowsFrom
  <1>6. ASSUME ColumnsFrom(s, 2)
        PROVE  ColumnsFrom(t, 1)
    <2>1. Len(s) > 2 /\ s[2].kind = "column" /\ s[2].full = FALSE /\ RowsFrom(s, 3)
      BY <1>6 DEF ColumnsFrom
    <2>2. RowsFrom(t, 2)
      BY <1>5, <2>1
    <2>3. Len(t) > 1 /\ t[1] = s[2]
      BY <1>1, <1>2, <2>1
    <2>4. QED
      BY <2>1, <2>2, <2>3 DEF ColumnsFrom
  <1>7. QED
    BY <1>4, <1>5, <1>6 DEF t

\* A payload of several frames is a row; nothing in a handshake is that long.
LEMMA ReadChunkKeeps == IInv /\ ReadChunk => IInv'
  <1> SUFFICES ASSUME IInv, ReadChunk PROVE IInv'
    OBVIOUS
  <1>1. /\ pc \in Reading /\ to_client # <<>>
        /\ to_client' = Tail(to_client) /\ sequence_id_' = Succ(Head(to_client).number)
        /\ reading' = IF reading = Nothing THEN Head(to_client) ELSE reading
        /\ UNCHANGED <<link, to_server, socket_, backslash_escapes_, has_error_,
                       auth_plugin_name_, pc, writing, columns, cmd, session, spoiled,
                       mixed, disordered>>
    BY DEF ReadChunk, history
  <1>2. /\ Tail(to_client) \in Seq(ClientFrames)
        /\ Len(Tail(to_client)) = Len(to_client) - 1
        /\ Len(to_client) \in Nat /\ Len(to_client) >= 1
        /\ \A k \in 1..(Len(to_client) - 1) : Tail(to_client)[k] = to_client[k + 1]
        /\ Head(to_client) = to_client[1] /\ to_client[1] \in ClientFrames
        /\ to_client[1].full \in BOOLEAN /\ Succ(to_client[1].number) \in Bytes
    BY <1>1, ReadFacts
  <1>3. to_client[1].full = TRUE
    BY <1>2 DEF ReadChunk
  <1>4. ~Connecting
    <2>1. Connecting => \A k \in 1..Len(to_client) : to_client[k].full = FALSE
      BY DEF IInv, Handshake
    <2>2. 1 \in 1..Len(to_client)
      BY <1>2
    <2>3. QED
      BY <1>3, <2>1, <2>2
  <1>5. reading' \in ClientFrames
    BY <1>1, <1>2 DEF IInv, Types
  <1>6. Types'
    BY <1>1, <1>2, <1>5 DEF IInv, Types
  <1>7. Connecting' = Connecting
    BY <1>1 DEF Connecting
  <1>8. pc \notin {"idle", "resolve", "write"}
    BY <1>1 DEF Reading
  <1>9. Places'
    BY <1>1, <1>8 DEF IInv, Places
  <1>10. Handshake'
    BY <1>4, <1>7 DEF Handshake
  <1>11. Authenticated'
    BY <1>1, <1>7 DEF IInv, Authenticated
  <1>12. Numbering'
    <2>1. Expected' = Expected /\ pc' # "write"
      BY <1>1, <1>8 DEF Expected
    <2>2. QED
      BY <1>1, <1>7, <1>8, <2>1 DEF IInv, Numbering
  <1>13. ASSUME spoiled = {}
         PROVE  /\ pc = "rows" /\ reading = Nothing /\ to_client[1].kind = "row"
                /\ Len(to_client) = 3 /\ RestFrom(Tail(to_client), 1)
    <2>1. Expects
      BY <1>1, <1>4, <1>13 DEF IInv, Conversation
    <2>2. pc \in Listening
      BY <1>1, <1>4 DEF IInv, Places, Reading, Listening, Connecting
    <2>3. pc # "answer"
      BY <1>3, <2>1 DEF Expects, AnswerFrom, Ends
    <2>4. pc # "columns"
      BY <1>3, <2>1 DEF Expects, ColumnsFrom
    <2>5. pc = "rows"
      BY <2>2, <2>3, <2>4 DEF Listening
    <2>6. reading = Nothing
      BY <1>3, <2>1, <2>5 DEF Expects, RestFrom
    <2>7. RowsFrom(to_client, 1)
      BY <2>1, <2>5, <2>6 DEF Expects
    <2>8. Len(to_client) = 3 /\ to_client[1].kind = "row" /\ RestFrom(to_client, 2)
      BY <1>3, <2>7 DEF RowsFrom, Ends
    <2>9. RestFrom(Tail(to_client), 1)
      BY <1>1, <2>8, TailShift DEF IInv, Types
    <2>10. QED
      BY <2>5, <2>6, <2>8, <2>9
  <1>14. Conversation'
    <2> SUFFICES ASSUME spoiled = {}
                 PROVE  Conversation'
      BY <1>1 DEF Conversation
    <2>1. /\ pc = "rows" /\ reading = Nothing /\ to_client[1].kind = "row"
          /\ Len(to_client) = 3 /\ RestFrom(Tail(to_client), 1)
      BY <1>13
    <2>2. reading' = to_client[1] /\ reading' # Nothing /\ pc' = "rows"
      BY <1>1, <1>2, <2>1, FrameIsSomething
    <2>3. Expects'
      BY <1>1, <2>1, <2>2 DEF Expects
    <2>4. \A k \in 1..Len(to_client) : to_client[k].cmd = cmd
      BY <1>4 DEF IInv, Conversation
    <2>5. /\ \A k \in 1..Len(to_client') : to_client'[k].cmd = cmd'
          /\ reading'.cmd = cmd'
      BY <1>1, <1>2, <2>2, <2>4
    <2>6. to_client' # <<>>
      <3>1. Len(to_client') = 2
        BY <1>1, <1>2, <2>1
      <3>2. QED
        BY <3>1
    <2>7. link' = "up" => /\ \A k \in 1..Len(to_server') : to_server'[k].cmd = cmd'
                          /\ ServerRests'
      BY <1>1, <1>4, <2>1 DEF IInv, Conversation, ServerRests, Listening
    <2>8. QED
      BY <2>2, <2>3, <2>5, <2>6, <2>7 DEF Conversation
  <1>15. Escaping'
    <2> SUFFICES ASSUME spoiled = {}, link = "up"
                 PROVE  Escaping'
      BY <1>1 DEF Escaping
    <2>1. pc = "rows"
      BY <1>13
    <2>2. /\ \A k \in 1..Len(to_client) : TellsMode(to_client[k], session.escapes)
          /\ backslash_escapes_ = session.escapes
      BY <1>4, <2>1 DEF IInv, Escaping
    <2>3. \A k \in 1..Len(to_client') : TellsMode(to_client'[k], session.escapes)
      BY <1>1, <1>2, <2>2
    <2>4. QED
      BY <1>1, <2>2, <2>3 DEF Escaping
  <1>16. Recorded'
    BY <1>1 DEF IInv, Recorded, AnswersOwnCommand
  <1>17. QED
    BY <1>6, <1>9, <1>10, <1>11, <1>12, <1>14, <1>15, <1>16 DEF IInv

-----------------------------------------------------------------------------
(* A packet of an answer is read                                           *)

\* What reading a packet of an answer may do; in a conversation that left
\* nothing unread it comes to the next part, or to the end of the answer.
Listens(p) ==
  /\ pc \in Listening /\ to_client # <<>> /\ Head(to_client).full = FALSE
  /\ p = IF reading = Nothing THEN Head(to_client) ELSE reading
  /\ to_client' = Tail(to_client)
  /\ mixed' = (mixed \/ p.cmd # cmd)
  /\ sequence_id_' = Succ(Head(to_client).number)
  /\ reading' = Nothing
  /\ UNCHANGED <<link, to_server, socket_, auth_plugin_name_, cmd, session, spoiled,
                 disordered>>
  /\ has_error_' \in BOOLEAN /\ backslash_escapes_' \in BOOLEAN
  /\ pc' \in {"idle", "columns", "rows"}
  /\ writing' \in {writing, NoWrite}
  /\ pc' = "idle" => writing' = NoWrite
  /\ columns' \in 0..3
  /\ pc' = "columns" => columns' # 0
  /\ spoiled = {} =>
       /\ pc' = "idle" => Len(to_client) = 1
       /\ pc' = "columns" => columns' = 1 /\ ColumnsFrom(to_client, 2)
       /\ pc' = "rows" => RowsFrom(to_client, 2)
       /\ pc' # "idle" => Len(to_client) > 1
       /\ link = "up" => backslash_escapes_' = session.escapes

\* What the invariant says of a client that reads an answer.
LEMMA WhileListening ==
  ASSUME IInv, pc \in Listening, to_client # <<>>, spoiled = {}
  PROVE  /\ Expects
         /\ \A k \in 1..Len(to_client) : to_client[k].cmd = cmd
         /\ reading # Nothing => reading.cmd = cmd
         /\ link = "up" =>
              /\ \A k \in 1..Len(to_server) : to_server[k].cmd = cmd
              /\ ServerRests
              /\ \A k \in 1..Len(to_client) : TellsMode(to_client[k], session.escapes)
              /\ \/ backslash_escapes_ = session.escapes
                 \/ pc = "answer" /\ to_client[1].kind = "ok"
  <1>1. ~Connecting
    BY DEF IInv, Places, Listening, Connecting
  <1>2. QED
    BY <1>1 DEF IInv, Conversation, Escaping

LEMMA ListensKeeps == ASSUME IInv, NEW p, Listens(p) PROVE IInv'
  <1>1. /\ pc \in Listening /\ to_client # <<>>
        /\ to_client' = Tail(to_client) /\ sequence_id_' = Succ(Head(to_client).number)
        /\ reading' = Nothing /\ pc' \in {"idle", "columns", "rows"}
        /\ UNCHANGED <<link, to_server, socket_, auth_plugin_name_, cmd, session, spoiled,
                       disordered>>
    BY DEF Listens
  <1>2. /\ Tail(to_client) \in Seq(ClientFrames)
        /\ Len(Tail(to_client)) = Len(to_client) - 1
        /\ Len(to_client) \in Nat /\ Len(to_client) >= 1
        /\ \A k \in 1..(Len(to_client) - 1) : Tail(to_client)[k] = to_client[k + 1]
        /\ Head(to_client) = to_client[1] /\ to_client[1] \in ClientFrames
        /\ Succ(to_client[1].number) \in Bytes
    BY <1>1, ReadFacts
  <1>3. NoWrite \in Writes
    BY DEF NoWrite, Writes
  <1>4. writing' \in Writes
    BY <1>3 DEF Listens, IInv, Types
  <1>5. Types'
    BY <1>1, <1>2, <1>4 DEF IInv, Types, Listens, Reading
  <1>6. Connecting = FALSE /\ cmd # 0
    BY <1>1 DEF IInv, Places, Listening, Connecting
  <1>7. Connecting' = FALSE
    BY <1>1, <1>6 DEF Connecting
  <1>8. Places'
    BY <1>1, <1>6 DEF IInv, Places, Listens
  <1>9. Handshake'
    BY <1>7 DEF Handshake
  <1>10. Authenticated'
    BY <1>1, <1>6 DEF IInv, Authenticated
  <1>11. Numbering'
    <2>1. Expected' = Expected /\ pc' # "write" /\ pc # "write"
      BY <1>1 DEF Expected, Listening
    <2>2. QED
      BY <1>1, <1>6, <2>1 DEF IInv, Numbering
  <1>12. spoiled = {} =>
           /\ \A k \in 1..Len(to_client) : to_client[k].cmd = cmd
           /\ link = "up" =>
                /\ \A k \in 1..Len(to_server) : to_server[k].cmd = cmd
                /\ ServerRests
                /\ \A k \in 1..Len(to_client) : TellsMode(to_client[k], session.escapes)
    BY <1>1, WhileListening
  <1>13. Conversation'
    <2> SUFFICES ASSUME spoiled = {}
                 PROVE  Conversation'
      BY <1>1 DEF Conversation
    <2>1. /\ pc' = "idle" => Len(to_client) = 1
          /\ pc' = "columns" => columns' = 1 /\ ColumnsFrom(to_client, 2)
          /\ pc' = "rows" => RowsFrom(to_client, 2)
          /\ pc' # "idle" => Len(to_client) > 1
      BY DEF Listens
    <2>2. pc' = "idle" => to_client' = <<>>
      <3>1. pc' = "idle" => Len(to_client') = 0
        BY <1>1, <1>2, <2>1
      <3>2. to_client' \in Seq(ClientFrames)
        BY <1>1, <1>2
      <3>3. QED
        BY <3>1, <3>2
    <2>3. pc' # "idle" => to_client' # <<>>
      <3>1. pc' # "idle" => Len(to_client') > 0
        BY <1>1, <1>2, <2>1
      <3>2. QED
        BY <3>1
    <2>4. to_client \in Seq(ClientFrames)
      BY DEF IInv, Types
    <2>5. pc' # "idle" => Expects'
      <3>1. pc' = "columns" => ColumnsFrom(to_client', 1)
        BY <1>1, <2>1, <2>4, TailShift
      <3>2. pc' = "rows" => RowsFrom(to_client', 1)
        BY <1>1, <2>1, <2>4, TailShift
      <3>3. QED
        BY <1>1, <2>1, <3>1, <3>2 DEF Expects
    <2>6. \A k \in 1..Len(to_client') : to_client'[k].cmd = cmd'
      BY <1>1, <1>2, <1>12
    <2>7. link' = "up" => /\ \A k \in 1..Len(to_server') : to_server'[k].cmd = cmd'
                          /\ ServerRests'
      BY <1>1, <1>12 DEF ServerRests
    <2>8. pc' # "write"
      BY <1>1
    <2>9. QED
      BY <1>1, <2>2, <2>3, <2>5, <2>6, <2>7, <2>8 DEF Conversation, Listening
  <1>14. Escaping'
    <2> SUFFICES ASSUME spoiled = {}, link = "up"
                 PROVE  Escaping'
      BY <1>1 DEF Escaping
    <2>1. backslash_escapes_' = session'.escapes
      BY <1>1 DEF Listens
    <2>2. \A k \in 1..Len(to_client') : TellsMode(to_client'[k], session'.escapes)
      BY <1>1, <1>2, <1>12
    <2>3. QED
      BY <2>1, <2>2 DEF Escaping
  <1>15. Recorded'
    <2>1. disordered' => "cancelled" \in spoiled'
      BY <1>1 DEF IInv, Recorded
    <2>2. ASSUME spoiled = {} PROVE p.cmd = cmd
      BY <1>1, <1>2, <2>2, WhileListening DEF Listens
    <2>3. mixed' => spoiled' # {}
      BY <1>1, <2>2 DEF IInv, Recorded, AnswersOwnCommand, Listens
    <2>4. QED
      BY <2>1, <2>3 DEF Recorded, AnswersOwnCommand
  <1>16. QED
    BY <1>5, <1>8, <1>9, <1>10, <1>11, <1>13, <1>14, <1>15 DEF IInv

\* What the actions that read an answer have in common.
LEMMA ReadsPacket ==
  ASSUME IInv, NEW p, NEW place \in Listening, Arrives(p, place), NextNumber, Consume(p)
  PROVE  /\ pc = place /\ pc \in Listening
         /\ to_client # <<>> /\ Head(to_client).full = FALSE
         /\ Head(to_client) = to_client[1] /\ 1 \in 1..Len(to_client)
         /\ p = IF reading = Nothing THEN Head(to_client) ELSE reading
         /\ p.kind \in Kinds
         /\ to_client' = Tail(to_client)
         /\ mixed' = (mixed \/ p.cmd # cmd)
         /\ sequence_id_' = Succ(Head(to_client).number)
         /\ spoiled' = spoiled
  <1>1. /\ pc = place /\ to_client # <<>>
        /\ p = IF reading = Nothing THEN Head(to_client) ELSE reading
        /\ to_client' = Tail(to_client)
        /\ mixed' = (mixed \/ p.cmd # cmd)
        /\ sequence_id_' = Succ(Head(to_client).number)
        /\ spoiled' = spoiled
    BY DEF Arrives, NextNumber, Consume
  <1>2. /\ Head(to_client) = to_client[1] /\ to_client[1] \in ClientFrames
        /\ to_client[1].full \in BOOLEAN /\ Len(to_client) \in Nat /\ Len(to_client) >= 1
    BY <1>1, ReadFacts
  <1>3. Head(to_client).full = FALSE
    BY <1>2 DEF Arrives
  <1>4. p \in ClientFrames
    BY <1>1, <1>2 DEF IInv, Types
  <1>5. p.kind \in Kinds
    BY <1>4, FrameIsSomething
  <1>6. QED
    BY <1>1, <1>2, <1>3, <1>5

LEMMA AnswerOkKeeps == ASSUME IInv, NEW p, AnswerOk(p) PROVE IInv'
  <1>1. /\ Arrives(p, "answer") /\ NextNumber /\ Consume(p) /\ Is(p, "ok") /\ ApplyOk(p)
        /\ pc' = "idle" /\ has_error_' = (has_error_ \/ FALSE)
        /\ writing' = NoWrite /\ reading' = Nothing /\ columns' = 0
        /\ UNCHANGED <<link, to_server, socket_, auth_plugin_name_, cmd, session,
                       disordered>>
    BY DEF AnswerOk, Finish
  <1>2. "answer" \in Listening
    BY DEF Listening
  <1>3. /\ pc = "answer" /\ pc \in Listening
        /\ to_client # <<>> /\ Head(to_client).full = FALSE
        /\ Head(to_client) = to_client[1] /\ 1 \in 1..Len(to_client)
        /\ p = IF reading = Nothing THEN Head(to_client) ELSE reading
        /\ to_client' = Tail(to_client)
        /\ mixed' = (mixed \/ p.cmd # cmd)
        /\ sequence_id_' = Succ(Head(to_client).number)
        /\ spoiled' = spoiled
    BY <1>1, <1>2, ReadsPacket
  <1>4. backslash_escapes_' \in BOOLEAN /\ has_error_' \in BOOLEAN
    BY <1>1 DEF ApplyOk, IInv, Types
  <1>5. ASSUME spoiled = {}
        PROVE  /\ Len(to_client) = 1
               /\ link = "up" => backslash_escapes_' = session.escapes
    <2>1. reading = Nothing /\ AnswerFrom(to_client, 1)
      BY <1>3, <1>5, WhileListening DEF Expects
    <2>2. p = to_client[1] /\ p.kind \in {"ok", "row", "rest"}
      BY <1>1, <1>3, <2>1 DEF Is, Opaque
    <2>3. Len(to_client) = 1 /\ p.kind = "ok"
      BY <2>1, <2>2 DEF AnswerFrom, Ends
    <2>4. ASSUME link = "up" PROVE backslash_escapes_' = session.escapes
      <3>1. TellsMode(p, session.escapes) /\ session.escapes \in BOOLEAN
        BY <1>3, <1>5, <2>2, <2>4, WhileListening, EscapesTyped DEF IInv
      <3>2. backslash_escapes_' = (p.data # "no_escapes")
        BY <1>1, <2>3 DEF ApplyOk, Opaque
      <3>3. QED
        BY <2>3, <3>1, <3>2 DEF TellsMode
    <2>5. QED
      BY <2>3, <2>4
  <1>6. Listens(p)
    BY <1>1, <1>3, <1>4, <1>5 DEF Listens
  <1>7. QED
    BY <1>6, ListensKeeps

LEMMA AnswerFailsKeeps == ASSUME IInv, NEW p, AnswerFails(p) PROVE IInv'
  <1>1. /\ Arrives(p, "answer") /\ NextNumber /\ Consume(p)
        /\ p.kind \notin {"ok", "columns", "column"}
        /\ pc' = "idle" /\ has_error_' = (has_error_ \/ TRUE)
        /\ writing' = NoWrite /\ reading' = Nothing /\ columns' = 0
        /\ UNCHANGED <<link, to_server, socket_, backslash_escapes_, auth_plugin_name_,
                       cmd, session, disordered>>
    BY DEF AnswerFails, CommandFails, Finish
  <1>2. "answer" \in Listening
    BY DEF Listening
  <1>3. /\ pc = "answer" /\ pc \in Listening
        /\ to_client # <<>> /\ Head(to_client).full = FALSE
        /\ Head(to_client) = to_client[1] /\ 1 \in 1..Len(to_client)
        /\ p = IF reading = Nothing THEN Head(to_client) ELSE reading
        /\ to_client' = Tail(to_client)
        /\ mixed' = (mixed \/ p.cmd # cmd)
        /\ sequence_id_' = Succ(Head(to_client).number)
        /\ spoiled' = spoiled
    BY <1>1, <1>2, ReadsPacket
  <1>4. backslash_escapes_' \in BOOLEAN /\ has_error_' \in BOOLEAN
    BY <1>1 DEF IInv, Types
  <1>5. ASSUME spoiled = {}
        PROVE  /\ Len(to_client) = 1
               /\ link = "up" => backslash_escapes_' = session.escapes
    <2>1. reading = Nothing /\ AnswerFrom(to_client, 1)
      BY <1>3, <1>5, WhileListening DEF Expects
    <2>2. p = to_client[1]
      BY <1>3, <2>1
    <2>3. Len(to_client) = 1 /\ p.kind = "err"
      BY <1>1, <2>1, <2>2 DEF AnswerFrom, Ends
    <2>4. link = "up" => backslash_escapes_ = session.escapes
      BY <1>3, <1>5, <2>2, <2>3, WhileListening
    <2>5. QED
      BY <1>1, <2>3, <2>4
  <1>6. Listens(p)
    BY <1>1, <1>3, <1>4, <1>5 DEF Listens
  <1>7. QED
    BY <1>6, ListensKeeps

LEMMA AnswerColumnsKeeps == ASSUME IInv, NEW p, AnswerColumns(p) PROVE IInv'
  <1>1. /\ Arrives(p, "answer") /\ NextNumber /\ Consume(p)
        /\ columns' \in Counts(p) /\ pc' = "columns" /\ reading' = Nothing
        /\ UNCHANGED <<link, to_server, socket_, backslash_escapes_, has_error_,
                       auth_plugin_name_, writing, cmd, session, disordered>>
    BY DEF AnswerColumns
  <1>2. "answer" \in Listening
    BY DEF Listening
  <1>3. /\ pc = "answer" /\ pc \in Listening
        /\ to_client # <<>> /\ Head(to_client).full = FALSE
        /\ Head(to_client) = to_client[1] /\ 1 \in 1..Len(to_client)
        /\ p = IF reading = Nothing THEN Head(to_client) ELSE reading
        /\ to_client' = Tail(to_client)
        /\ mixed' = (mixed \/ p.cmd # cmd)
        /\ sequence_id_' = Succ(Head(to_client).number)
        /\ spoiled' = spoiled
    BY <1>1, <1>2, ReadsPacket
  <1>4. backslash_escapes_' \in BOOLEAN /\ has_error_' \in BOOLEAN
    BY <1>1 DEF IInv, Types
  <1>5. columns' \in {1, 3}
    BY <1>1 DEF Counts
  <1>6. ASSUME spoiled = {}
        PROVE  /\ columns' = 1 /\ ColumnsFrom(to_client, 2) /\ Len(to_client) > 1
               /\ link = "up" => backslash_escapes_' = session.escapes
    <2>1. reading = Nothing /\ AnswerFrom(to_client, 1)
      BY <1>3, <1>6, WhileListening DEF Expects
    <2>2. p = to_client[1]
      BY <1>3, <2>1
    <2>3. p.kind \notin {"ok", "err"}
      BY <1>1 DEF Counts, Opaque
    <2>4. /\ p.kind = "columns" /\ Len(to_client) > 2 /\ ColumnsFrom(to_client, 2)
      BY <2>1, <2>2, <2>3 DEF AnswerFrom, Ends
    <2>5. columns' = 1
      BY <1>1, <2>4 DEF Counts, Opaque
    <2>6. link = "up" => backslash_escapes_ = session.escapes
      BY <1>3, <1>6, <2>2, <2>4, WhileListening
    <2>7. QED
      BY <1>1, <2>4, <2>5, <2>6
  <1>7. Listens(p)
    BY <1>1, <1>3, <1>4, <1>5, <1>6 DEF Listens
  <1>8. QED
    BY <1>7, ListensKeeps

LEMMA ColumnParsedKeeps == ASSUME IInv, NEW p, ColumnParsed(p) PROVE IInv'
  <1>1. /\ Arrives(p, "columns") /\ NextNumber /\ Consume(p)
        /\ columns' = columns - 1 /\ reading' = Nothing
        /\ pc' = IF columns = 1 THEN "rows" ELSE "columns"
        /\ UNCHANGED <<link, to_server, socket_, backslash_escapes_, has_error_,
                       auth_plugin_name_, writing, cmd, session, disordered>>
    BY DEF ColumnParsed, LastColumn
  <1>2. "columns" \in Listening
    BY DEF Listening
  <1>3. /\ pc = "columns" /\ pc \in Listening
        /\ to_client # <<>> /\ Head(to_client).full = FALSE
        /\ Head(to_client) = to_client[1] /\ 1 \in 1..Len(to_client)
        /\ p = IF reading = Nothing THEN Head(to_client) ELSE reading
        /\ to_client' = Tail(to_client)
        /\ mixed' = (mixed \/ p.cmd # cmd)
        /\ sequence_id_' = Succ(Head(to_client).number)
        /\ spoiled' = spoiled
    BY <1>1, <1>2, ReadsPacket
  <1>4. backslash_escapes_' \in BOOLEAN /\ has_error_' \in BOOLEAN
    BY <1>1 DEF IInv, Types
  <1>5. columns \in 1..3
    BY <1>3 DEF IInv, Types, Places
  <1>6. /\ columns' \in 0..3 /\ pc' \in {"columns", "rows"}
        /\ pc' = "columns" => columns' # 0
    BY <1>1, <1>5
  <1>7. ASSUME spoiled = {}
        PROVE  /\ pc' = "rows" /\ RowsFrom(to_client, 2) /\ Len(to_client) > 1
               /\ link = "up" => backslash_escapes_' = session.escapes
    <2>1. columns = 1 /\ ColumnsFrom(to_client, 1)
      BY <1>3, <1>7, WhileListening DEF Expects
    <2>2. RowsFrom(to_client, 2) /\ Len(to_client) > 1
      BY <2>1 DEF ColumnsFrom
    <2>3. link = "up" => backslash_escapes_ = session.escapes
      BY <1>3, <1>7, WhileListening
    <2>4. QED
      BY <1>1, <2>1, <2>2, <2>3
  <1>8. Listens(p)
    BY <1>1, <1>3, <1>4, <1>6, <1>7 DEF Listens
  <1>9. QED
    BY <1>8, ListensKeeps

LEMMA ColumnFailsKeeps == ASSUME IInv, NEW p, ColumnFails(p) PROVE IInv'
  <1>1. /\ Arrives(p, "columns") /\ NextNumber /\ Consume(p) /\ p.kind # "column"
        /\ pc' = "idle" /\ has_error_' = (has_error_ \/ TRUE)
        /\ writing' = NoWrite /\ reading' = Nothing /\ columns' = 0
        /\ UNCHANGED <<link, to_server, socket_, backslash_escapes_, auth_plugin_name_,
                       cmd, session, disordered>>
    BY DEF ColumnFails, CommandFails, Finish
  <1>2. "columns" \in Listening
    BY DEF Listening
  <1>3. /\ pc = "columns" /\ pc \in Listening
        /\ to_client # <<>> /\ Head(to_client).full = FALSE
        /\ Head(to_client) = to_client[1] /\ 1 \in 1..Len(to_client)
        /\ p = IF reading = Nothing THEN Head(to_client) ELSE reading
        /\ to_client' = Tail(to_client)
        /\ mixed' = (mixed \/ p.cmd # cmd)
        /\ sequence_id_' = Succ(Head(to_client).number)
        /\ spoiled' = spoiled
    BY <1>1, <1>2, ReadsPacket
  <1>4. backslash_escapes_' \in BOOLEAN /\ has_error_' \in BOOLEAN
    BY <1>1 DEF IInv, Types
  <1>5. spoiled # {}
    <2> SUFFICES ASSUME spoiled = {} PROVE FALSE
      OBVIOUS
    <2>1. reading = Nothing /\ ColumnsFrom(to_client, 1)
      BY <1>3, WhileListening DEF Expects
    <2>2. p = to_client[1]
      BY <1>3, <2>1
    <2>3. QED
      BY <1>1, <2>1, <2>2 DEF ColumnsFrom
  <1>6. Listens(p)
    BY <1>1, <1>3, <1>4, <1>5 DEF Listens
  <1>7. QED
    BY <1>6, ListensKeeps

LEMMA RowParsedKeeps == ASSUME IInv, NEW p, RowParsed(p) PROVE IInv'
  <1>1. /\ Arrives(p, "rows") /\ NextNumber /\ Consume(p) /\ p.kind \notin {"err", "eof"}
        /\ reading' = Nothing /\ pc' = pc
        /\ UNCHANGED <<link, to_server, socket_, backslash_escapes_, has_error_,
                       auth_plugin_name_, writing, columns, cmd, session, disordered>>
    BY DEF RowParsed
  <1>2. "rows" \in Listening
    BY DEF Listening
  <1>3. /\ pc = "rows" /\ pc \in Listening
        /\ to_client # <<>> /\ Head(to_client).full = FALSE
        /\ Head(to_client) = to_client[1] /\ 1 \in 1..Len(to_client)
        /\ p = IF reading = Nothing THEN Head(to_client) ELSE reading
        /\ to_client' = Tail(to_client)
        /\ mixed' = (mixed \/ p.cmd # cmd)
        /\ sequence_id_' = Succ(Head(to_client).number)
        /\ spoiled' = spoiled
    BY <1>1, <1>2, ReadsPacket
  <1>4. /\ backslash_escapes_' \in BOOLEAN /\ has_error_' \in BOOLEAN
        /\ columns' \in 0..3
    BY <1>1 DEF IInv, Types
  <1>5. ASSUME spoiled = {}
        PROVE  /\ RowsFrom(to_client, 2) /\ Len(to_client) > 1
               /\ link = "up" => backslash_escapes_' = session.escapes
    <2>1. IF reading = Nothing THEN RowsFrom(to_client, 1)
                               ELSE reading.kind = "row" /\ RestFrom(to_client, 1)
      BY <1>3, <1>5, WhileListening DEF Expects
    <2>2. link = "up" => backslash_escapes_' = session.escapes
      BY <1>1, <1>3, <1>5, WhileListening
    <2>3. CASE reading = Nothing
      <3>1. p = to_client[1] /\ to_client[1].full = FALSE
        BY <1>3, <2>3
      <3>2. Len(to_client) = 2 /\ Ends(to_client, 2, {"eof", "err"})
        BY <1>1, <2>1, <2>3, <3>1 DEF RowsFrom, Ends
      <3>3. QED
        BY <2>2, <3>2 DEF RowsFrom
    <2>4. CASE reading # Nothing
      <3>1. Len(to_client) = 2 /\ Ends(to_client, 2, {"eof", "err"})
        BY <2>1, <2>4 DEF RestFrom
      <3>2. QED
        BY <2>2, <3>1 DEF RowsFrom
    <2>5. QED
      BY <2>3, <2>4
  <1>6. Listens(p)
    BY <1>1, <1>3, <1>4, <1>5 DEF Listens
  <1>7. QED
    BY <1>6, ListensKeeps

LEMMA RowFailsKeeps == ASSUME IInv, NEW p, RowFails(p) PROVE IInv'
  <1>1. /\ Arrives(p, "rows") /\ NextNumber /\ Consume(p)
        /\ p.kind # "eof" /\ (p.kind = "row" => p.cmd # cmd)
        /\ pc' = "idle" /\ has_error_' = (has_error_ \/ TRUE)
        /\ writing' = NoWrite /\ reading' = Nothing /\ columns' = 0
        /\ UNCHANGED <<link, to_server, socket_, backslash_escapes_, auth_plugin_name_,
                       cmd, session, disordered>>
    BY DEF RowFails, CommandFails, Finish
  <1>2. "rows" \in Listening
    BY DEF Listening
  <1>3. /\ pc = "rows" /\ pc \in Listening
        /\ to_client # <<>> /\ Head(to_client).full = FALSE
        /\ Head(to_client) = to_client[1] /\ 1 \in 1..Len(to_client)
        /\ p = IF reading = Nothing THEN Head(to_client) ELSE reading
        /\ to_client' = Tail(to_client)
        /\ mixed' = (mixed \/ p.cmd # cmd)
        /\ sequence_id_' = Succ(Head(to_client).number)
        /\ spoiled' = spoiled
    BY <1>1, <1>2, ReadsPacket
  <1>4. backslash_escapes_' \in BOOLEAN /\ has_error_' \in BOOLEAN
    BY <1>1 DEF IInv, Types
  <1>5. ASSUME spoiled = {}
        PROVE  /\ Len(to_client) = 1
               /\ link = "up" => backslash_escapes_' = session.escapes
    <2>1. /\ IF reading = Nothing THEN RowsFrom(to_client, 1)
                                  ELSE reading.kind = "row" /\ RestFrom(to_client, 1)
          /\ \A k \in 1..Len(to_client) : to_client[k].cmd = cmd
          /\ reading # Nothing => reading.cmd = cmd
      BY <1>3, <1>5, WhileListening DEF Expects
    <2>2. p.cmd = cmd
      BY <1>3, <2>1
    <2>3. reading = Nothing
      BY <1>1, <1>3, <2>1, <2>2
    <2>4. p = to_client[1] /\ p.kind # "row" /\ RowsFrom(to_client, 1)
      BY <1>1, <1>3, <2>1, <2>2, <2>3
    <2>5. Len(to_client) = 1
      BY <2>4 DEF RowsFrom, Ends
    <2>6. link = "up" => backslash_escapes_ = session.escapes
      BY <1>3, <1>5, WhileListening
    <2>7. QED
      BY <1>1, <2>5, <2>6
  <1>6. Listens(p)
    BY <1>1, <1>3, <1>4, <1>5 DEF Listens
  <1>7. QED
    BY <1>6, ListensKeeps

LEMMA RowsEndKeeps == ASSUME IInv, NEW p, RowsEnd(p) PROVE IInv'
  <1>1. /\ Arrives(p, "rows") /\ NextNumber /\ Consume(p) /\ p.kind = "eof" /\ ApplyOk(p)
        /\ pc' = "idle" /\ has_error_' = (has_error_ \/ FALSE)
        /\ writing' = NoWrite /\ reading' = Nothing /\ columns' = 0
        /\ UNCHANGED <<link, to_server, socket_, auth_plugin_name_, cmd, session,
                       disordered>>
    BY DEF RowsEnd, Finish
  <1>2. "rows" \in Listening
    BY DEF Listening
  <1>3. /\ pc = "rows" /\ pc \in Listening
        /\ to_client # <<>> /\ Head(to_client).full = FALSE
        /\ Head(to_client) = to_client[1] /\ 1 \in 1..Len(to_client)
        /\ p = IF reading = Nothing THEN Head(to_client) ELSE reading
        /\ to_client' = Tail(to_client)
        /\ mixed' = (mixed \/ p.cmd # cmd)
        /\ sequence_id_' = Succ(Head(to_client).number)
        /\ spoiled' = spoiled
    BY <1>1, <1>2, ReadsPacket
  <1>4. backslash_escapes_' \in BOOLEAN /\ has_error_' \in BOOLEAN
    BY <1>1 DEF ApplyOk, IInv, Types
  <1>5. ASSUME spoiled = {}
        PROVE  /\ Len(to_client) = 1
               /\ link = "up" => backslash_escapes_' = session.escapes
    <2>1. IF reading = Nothing THEN RowsFrom(to_client, 1)
                               ELSE reading.kind = "row" /\ RestFrom(to_client, 1)
      BY <1>3, <1>5, WhileListening DEF Expects
    <2>2. reading = Nothing
      BY <1>1, <1>3, <2>1
    <2>3. p = to_client[1]
      BY <1>3, <2>2
    <2>4. Len(to_client) = 1
      BY <1>1, <2>1, <2>2, <2>3 DEF RowsFrom, Ends
    <2>5. ASSUME link = "up" PROVE backslash_escapes_' = session.escapes
      <3>1. TellsMode(p, session.escapes) /\ session.escapes \in BOOLEAN
        BY <1>3, <1>5, <2>3, <2>5, WhileListening, EscapesTyped DEF IInv
      <3>2. backslash_escapes_' = (p.data # "no_escapes")
        BY <1>1 DEF ApplyOk, Opaque
      <3>3. QED
        BY <1>1, <3>1, <3>2 DEF TellsMode
    <2>6. QED
      BY <2>4, <2>5
  <1>6. Listens(p)
    BY <1>1, <1>3, <1>4, <1>5 DEF Listens
  <1>7. QED
    BY <1>6, ListensKeeps

-----------------------------------------------------------------------------
(* A packet of the handshake is read                                       *)

\* The client answers, or waits for the consent that follows.
Continues(p) ==
  /\ pc \in {"greeting", "auth", "key"} /\ to_client # <<>>
  /\ p = IF reading = Nothing THEN Head(to_client) ELSE reading
  /\ to_client' = Tail(to_client)
  /\ mixed' = (mixed \/ p.cmd # cmd)
  /\ reading' = Nothing
  /\ UNCHANGED <<link, to_server, socket_, backslash_escapes_, has_error_, columns, cmd,
                 session, spoiled, disordered>>
  /\ auth_plugin_name_' \in Plugins
  /\ sequence_id_' = IF pc = "greeting" THEN 1 ELSE Succ(Head(to_client).number)
  /\ \/ /\ pc' = "write" /\ p.kind \notin {"ok", "fast_auth"}
        /\ writing' \in Writes /\ writing'.ask \in HelloAsks
        /\ writing'.next \in {"auth", "key"}
        /\ writing'.left = 1 /\ writing'.empty = FALSE
     \/ pc' = pc /\ writing' = writing /\ p.kind = "fast_auth"

\* What the invariant says of a client in the handshake that has a packet.
LEMMA WhileGreeting ==
  ASSUME IInv, pc \in {"greeting", "auth", "key"}, to_client # <<>>
  PROVE  /\ Connecting /\ cmd = 0 /\ reading = Nothing /\ spoiled = {} /\ mixed = FALSE
         /\ Head(to_client) = to_client[1] /\ to_client[1] \in ClientFrames
         /\ Succ(to_client[1].number) \in Bytes
         /\ Len(to_client) \in Nat /\ Len(to_client) >= 1
         /\ to_client[1].cmd = 0
         /\ to_client[1].kind = "fast_auth" <=> Len(to_client) # 1
         /\ Tail(to_client) \in Seq(ClientFrames)
         /\ Len(Tail(to_client)) = Len(to_client) - 1
         /\ \A k \in 1..(Len(to_client) - 1) : Tail(to_client)[k] = to_client[k + 1]
  <1>1. Connecting /\ cmd = 0
    BY DEF IInv, Places, Connecting
  <1>2. reading = Nothing /\ spoiled = {} /\ mixed = FALSE
    BY <1>1 DEF IInv, Handshake, Recorded, AnswersOwnCommand
  <1>3. /\ Head(to_client) = to_client[1] /\ to_client[1] \in ClientFrames
        /\ Succ(to_client[1].number) \in Bytes
        /\ Len(to_client) \in Nat /\ Len(to_client) >= 1
        /\ Tail(to_client) \in Seq(ClientFrames)
        /\ Len(Tail(to_client)) = Len(to_client) - 1
        /\ \A k \in 1..(Len(to_client) - 1) : Tail(to_client)[k] = to_client[k + 1]
    BY ReadFacts
  <1>4. 1 \in 1..Len(to_client)
    BY <1>3
  <1>5. /\ to_client[1].cmd = 0
        /\ to_client[1].kind = "fast_auth" <=> Len(to_client) # 1
    BY <1>1, <1>4 DEF IInv, Handshake
  <1>6. QED
    BY <1>1, <1>2, <1>3, <1>5

LEMMA ContinuesKeeps == ASSUME IInv, NEW p, Continues(p) PROVE IInv'
  <1>1. /\ pc \in {"greeting", "auth", "key"} /\ to_client # <<>>
        /\ p = IF reading = Nothing THEN Head(to_client) ELSE reading
        /\ to_client' = Tail(to_client)
        /\ mixed' = (mixed \/ p.cmd # cmd)
        /\ reading' = Nothing
        /\ UNCHANGED <<link, to_server, socket_, backslash_escapes_, has_error_, columns,
                       cmd, session, spoiled, disordered>>
        /\ auth_plugin_name_' \in Plugins
        /\ sequence_id_' = IF pc = "greeting" THEN 1 ELSE Succ(Head(to_client).number)
    BY DEF Continues
  <1>2. /\ Connecting /\ cmd = 0 /\ reading = Nothing /\ spoiled = {} /\ mixed = FALSE
        /\ Head(to_client) = to_client[1] /\ to_client[1] \in ClientFrames
        /\ Succ(to_client[1].number) \in Bytes
        /\ Len(to_client) \in Nat /\ Len(to_client) >= 1
        /\ to_client[1].cmd = 0
        /\ to_client[1].kind = "fast_auth" <=> Len(to_client) # 1
        /\ Tail(to_client) \in Seq(ClientFrames)
        /\ Len(Tail(to_client)) = Len(to_client) - 1
        /\ \A k \in 1..(Len(to_client) - 1) : Tail(to_client)[k] = to_client[k + 1]
    BY <1>1, WhileGreeting
  <1>3. p = to_client[1]
    BY <1>1, <1>2
  <1>4. sequence_id_' \in Bytes
    BY <1>1, <1>2, WireAssumption DEF Bytes
  <1>5. pc' \in {"write", "greeting", "auth", "key"} /\ writing' \in Writes
    BY <1>1 DEF Continues, IInv, Types
  <1>6. Types'
    BY <1>1, <1>2, <1>4, <1>5 DEF IInv, Types, Reading
  <1>7. Connecting' = TRUE /\ cmd' = 0
    BY <1>1, <1>2, <1>5 DEF Connecting
  <1>8. Places'
    BY <1>1, <1>2, <1>5 DEF IInv, Places, Continues
  <1>9. link = "up" =>
          /\ session.ask = "nothing"
          /\ IsAsked \/ IsAccepted
          /\ \A k \in 1..Len(to_client) : TellsMode(to_client[k], session.escapes)
    BY <1>1, <1>2 DEF IInv, Handshake, MayWrite, HasWritten
  <1>10. \A k \in 1..Len(to_client) :
           /\ to_client[k].full = FALSE /\ to_client[k].cmd = 0
           /\ to_client[k].kind = "fast_auth" <=> k # Len(to_client)
    BY <1>2 DEF IInv, Handshake
  <1>11. \A k \in 1..Len(to_client') :
           /\ to_client'[k].full = FALSE /\ to_client'[k].cmd = 0
           /\ to_client'[k].kind = "fast_auth" <=> k # Len(to_client')
    <2> SUFFICES ASSUME NEW k \in 1..Len(to_client')
                 PROVE  /\ to_client'[k].full = FALSE /\ to_client'[k].cmd = 0
                        /\ to_client'[k].kind = "fast_auth" <=> k # Len(to_client')
      OBVIOUS
    <2>1. /\ to_client'[k] = to_client[k + 1] /\ k + 1 \in 1..Len(to_client)
          /\ k # Len(to_client') <=> k + 1 # Len(to_client)
      BY <1>1, <1>2
    <2>2. QED
      BY <1>10, <2>1
  <1>12. link = "up" =>
           \A k \in 1..Len(to_client') : TellsMode(to_client'[k], session.escapes)
    BY <1>1, <1>2, <1>9
  <1>13. CASE pc' = "write" /\ p.kind \notin {"ok", "fast_auth"}
    <2>1. Len(to_client) = 1 /\ Len(to_client') = 0 /\ to_client' = <<>>
      BY <1>1, <1>2, <1>3, <1>13
    <2>2. link = "up" => IsAsked
      BY <1>3, <1>9, <1>13 DEF IsAccepted
    <2>3. link = "up" => MayWrite'
      BY <1>1, <1>2, <1>13, <2>1, <2>2 DEF IsAsked, MayWrite
    <2>4. Handshake'
      BY <1>1, <1>2, <1>9, <1>11, <1>12, <2>1, <2>3 DEF Handshake
    <2>5. QED
      BY <1>1, <1>2, <1>3, <1>6, <1>7, <1>8, <2>4 DEF IInv, Authenticated, Numbering,
         Escaping, Conversation, Recorded, AnswersOwnCommand
  <1>14. CASE pc' = pc /\ p.kind = "fast_auth"
    <2>1. link = "up" => IsAccepted
      BY <1>3, <1>9, <1>14 DEF IsAsked
    <2>2. link = "up" => IsAccepted'
      <3> SUFFICES ASSUME link = "up" PROVE IsAccepted'
        OBVIOUS
      <3>1. Len(to_client) = 2 /\ to_client[2].kind = "ok"
        BY <1>3, <1>14, <2>1 DEF IsAccepted
      <3>2. Len(to_client') = 1 /\ to_client'[1] = to_client[2]
        BY <1>1, <1>2, <3>1
      <3>3. QED
        BY <1>1, <1>14, <2>1, <3>1, <3>2 DEF IsAccepted
    <2>3. pc' \notin {"resolve", "write"}
      BY <1>1, <1>14
    <2>4. Handshake'
      BY <1>1, <1>2, <1>9, <1>11, <1>12, <2>2, <2>3 DEF Handshake
    <2>5. QED
      BY <1>1, <1>2, <1>3, <1>6, <1>7, <1>8, <2>4 DEF IInv, Authenticated, Numbering,
         Escaping, Conversation, Recorded, AnswersOwnCommand
  <1>15. QED
    BY <1>13, <1>14 DEF Continues

LEMMA StartsHello ==
  ASSUME NEW ask \in HelloAsks, NEW next \in {"auth", "key"}, StartWrite(1, ask, next)
  PROVE  /\ pc' = "write" /\ writing' \in Writes /\ writing'.ask \in HelloAsks
         /\ writing'.next \in {"auth", "key"}
         /\ writing'.left = 1 /\ writing'.empty = FALSE
  <1>1. /\ pc' = "write"
        /\ writing' = [left |-> 1, empty |-> FALSE, started |-> FALSE, ask |-> ask,
                       next |-> next]
    BY DEF StartWrite
  <1>2. QED
    BY <1>1 DEF Writes

\* A packet read in the handshake, and the plugin it may name.
LEMMA ReadsGreeting ==
  ASSUME IInv, NEW p, NEW place \in {"greeting", "auth", "key"}, Arrives(p, place)
  PROVE  /\ pc = place /\ to_client # <<>>
         /\ p = IF reading = Nothing THEN Head(to_client) ELSE reading
         /\ Succ(Head(to_client).number) \in Bytes
         /\ p.kind \in {"greeting", "switch"} => p.data \in Plugins
  <1>1. /\ pc = place /\ to_client # <<>>
        /\ p = IF reading = Nothing THEN Head(to_client) ELSE reading
    BY DEF Arrives
  <1>2. /\ reading = Nothing /\ Head(to_client) = to_client[1]
        /\ to_client[1] \in ClientFrames /\ Succ(to_client[1].number) \in Bytes
    BY <1>1, WhileGreeting
  <1>3. p.kind \in {"greeting", "switch"} => p.data \in Plugins
    BY <1>1, <1>2 DEF ClientFrames, NamesPlugin
  <1>4. QED
    BY <1>1, <1>2, <1>3

\* The conjuncts that the continuing steps of the handshake share.
LEMMA ContinueFacts ==
  ASSUME NEW p, Continue(p)
  PROVE  /\ to_client' = Tail(to_client) /\ mixed' = (mixed \/ p.cmd # cmd)
         /\ reading' = Nothing
         /\ UNCHANGED <<link, to_server, socket_, backslash_escapes_, has_error_,
                        columns, cmd, session, spoiled, disordered>>
  BY DEF Continue, Consume

LEMMA GreetingKeeps == ASSUME IInv, NEW p, Greeting(p) PROVE IInv'
  <1>1. Arrives(p, "greeting") /\ sequence_id_' = 1
    BY DEF Greeting
  <1>2. /\ pc = "greeting" /\ to_client # <<>>
        /\ p = IF reading = Nothing THEN Head(to_client) ELSE reading
        /\ p.kind \in {"greeting", "switch"} => p.data \in Plugins
    BY <1>1, ReadsGreeting
  <1>3. auth_plugin_name_' \in Plugins /\ sequence_id_' \in Bytes
    BY <1>1, <1>2, WireAssumption DEF Greeting, IInv, Types, Bytes
  <1>4. CASE p.kind = "greeting" /\ p.data \in Supported
    <2>1. /\ StartWrite(1, "hello", "auth") /\ Consume(p) /\ reading' = Nothing
          /\ UNCHANGED <<link, to_server, socket_, backslash_escapes_, has_error_,
                         columns, cmd, session, disordered>>
      BY <1>4 DEF Greeting
    <2>2. /\ pc' = "write" /\ writing' \in Writes /\ writing'.ask \in HelloAsks
          /\ writing'.next \in {"auth", "key"}
          /\ writing'.left = 1 /\ writing'.empty = FALSE
      BY <2>1, StartsHello DEF HelloAsks
    <2>3. Continues(p)
      BY <1>1, <1>2, <1>3, <1>4, <2>1, <2>2 DEF Consume, Continues
    <2>4. QED
      BY <2>3, ContinuesKeeps
  <1>5. CASE ~(p.kind = "greeting" /\ p.data \in Supported)
    <2>1. ConnectFails
      BY <1>5 DEF Greeting
    <2>2. QED
      BY <1>3, <2>1, ConnectFailsCloses, ClosesKeeps
  <1>6. QED
    BY <1>4, <1>5

LEMMA AuthSwitchKeeps == ASSUME IInv, NEW p, AuthSwitch(p) PROVE IInv'
  <1>1. /\ Arrives(p, "auth") /\ p.kind = "switch" /\ NextNumber
        /\ auth_plugin_name_' = p.data
    BY DEF AuthSwitch
  <1>2. /\ pc = "auth" /\ to_client # <<>>
        /\ p = IF reading = Nothing THEN Head(to_client) ELSE reading
        /\ Succ(Head(to_client).number) \in Bytes
        /\ p.kind \in {"greeting", "switch"} => p.data \in Plugins
    BY <1>1, ReadsGreeting
  <1>3. auth_plugin_name_' \in Plugins /\ sequence_id_' \in Bytes
    BY <1>1, <1>2 DEF NextNumber
  <1>4. CASE p.data \in Supported
    <2>1. StartWrite(1, "reply", "auth") /\ Continue(p)
      BY <1>4 DEF AuthSwitch
    <2>2. /\ pc' = "write" /\ writing' \in Writes /\ writing'.ask \in HelloAsks
          /\ writing'.next \in {"auth", "key"}
          /\ writing'.left = 1 /\ writing'.empty = FALSE
      BY <2>1, StartsHello DEF HelloAsks
    <2>3. Continues(p)
      BY <1>1, <1>2, <1>3, <2>1, <2>2, ContinueFacts DEF NextNumber, Continues
    <2>4. QED
      BY <2>3, ContinuesKeeps
  <1>5. CASE p.data \notin Supported
    <2>1. ConnectFails
      BY <1>5 DEF AuthSwitch
    <2>2. QED
      BY <1>3, <2>1, ConnectFailsCloses, ClosesKeeps
  <1>6. QED
    BY <1>4, <1>5

LEMMA AuthMoreDataKeeps == ASSUME IInv, NEW p, AuthMoreData(p) PROVE IInv'
  <1>1. /\ Arrives(p, "auth") /\ p.kind \in {"fast_auth", "full_auth"} /\ NextNumber
        /\ auth_plugin_name_' = auth_plugin_name_
    BY DEF AuthMoreData
  <1>2. /\ pc = "auth" /\ to_client # <<>>
        /\ p = IF reading = Nothing THEN Head(to_client) ELSE reading
        /\ Succ(Head(to_client).number) \in Bytes
    BY <1>1, ReadsGreeting
  <1>3. auth_plugin_name_' \in Plugins /\ sequence_id_' \in Bytes
    BY <1>1, <1>2 DEF NextNumber, IInv, Types
  <1>4. \/ ConnectFails
        \/ p.kind = "fast_auth" /\ Continue(p) /\ UNCHANGED <<pc, writing>>
        \/ /\ p.kind = "full_auth" /\ StartWrite(1, "public_key", "key")
           /\ Continue(p)
    BY <1>1 DEF AuthMoreData
  <1>5. CASE ConnectFails
    BY <1>3, <1>5, ConnectFailsCloses, ClosesKeeps
  <1>6. CASE p.kind = "fast_auth" /\ Continue(p) /\ UNCHANGED <<pc, writing>>
    <2>1. Continues(p)
      BY <1>1, <1>2, <1>3, <1>6, ContinueFacts DEF NextNumber, Continues
    <2>2. QED
      BY <2>1, ContinuesKeeps
  <1>7. CASE /\ p.kind = "full_auth" /\ StartWrite(1, "public_key", "key")
             /\ Continue(p)
    <2>1. /\ pc' = "write" /\ writing' \in Writes /\ writing'.ask \in HelloAsks
          /\ writing'.next \in {"auth", "key"}
          /\ writing'.left = 1 /\ writing'.empty = FALSE
      BY <1>7, StartsHello DEF HelloAsks
    <2>2. Continues(p)
      BY <1>1, <1>2, <1>3, <1>7, <2>1, ContinueFacts DEF NextNumber, Continues
    <2>3. QED
      BY <2>2, ContinuesKeeps
  <1>8. QED
    BY <1>4, <1>5, <1>6, <1>7

LEMMA AuthKeyKeeps == ASSUME IInv, NEW p, AuthKey(p) PROVE IInv'
  <1>1. /\ Arrives(p, "key") /\ NextNumber /\ auth_plugin_name_' = auth_plugin_name_
        /\ \/ p.kind = "key" /\ StartWrite(1, "password", "auth") /\ Continue(p)
           \/ ConnectFails
    BY DEF AuthKey
  <1>2. /\ pc = "key" /\ to_client # <<>>
        /\ p = IF reading = Nothing THEN Head(to_client) ELSE reading
        /\ Succ(Head(to_client).number) \in Bytes
    BY <1>1, ReadsGreeting
  <1>3. auth_plugin_name_' \in Plugins /\ sequence_id_' \in Bytes
    BY <1>1, <1>2 DEF NextNumber, IInv, Types
  <1>4. CASE ConnectFails
    BY <1>3, <1>4, ConnectFailsCloses, ClosesKeeps
  <1>5. CASE p.kind = "key" /\ StartWrite(1, "password", "auth") /\ Continue(p)
    <2>1. /\ pc' = "write" /\ writing' \in Writes /\ writing'.ask \in HelloAsks
          /\ writing'.next \in {"auth", "key"}
          /\ writing'.left = 1 /\ writing'.empty = FALSE
      BY <1>5, StartsHello DEF HelloAsks
    <2>2. Continues(p)
      BY <1>1, <1>2, <1>3, <1>5, <2>1, ContinueFacts DEF NextNumber, Continues
    <2>3. QED
      BY <2>2, ContinuesKeeps
  <1>6. QED
    BY <1>1, <1>4, <1>5

LEMMA AuthFailsKeeps == ASSUME IInv, NEW p, AuthFails(p) PROVE IInv'
  <1>1. /\ Arrives(p, "auth") /\ NextNumber /\ auth_plugin_name_' = auth_plugin_name_
        /\ ConnectFails
    BY DEF AuthFails
  <1>2. Succ(Head(to_client).number) \in Bytes
    BY <1>1, ReadsGreeting
  <1>3. auth_plugin_name_' \in Plugins /\ sequence_id_' \in Bytes
    BY <1>1, <1>2 DEF NextNumber, IInv, Types
  <1>4. QED
    BY <1>1, <1>3, ConnectFailsCloses, ClosesKeeps

\* The consent is the last packet of the handshake, and the session waits for
\* the first command.
LEMMA AuthOkKeeps == ASSUME IInv, NEW p, AuthOk(p) PROVE IInv'
  <1>1. /\ Arrives(p, "auth") /\ p.kind = "ok" /\ NextNumber /\ ApplyOk(p) /\ Consume(p)
        /\ pc' = "idle" /\ has_error_' = (has_error_ \/ FALSE)
        /\ writing' = NoWrite /\ reading' = Nothing /\ columns' = 0
        /\ UNCHANGED <<link, to_server, socket_, auth_plugin_name_, cmd, session,
                       disordered>>
    BY DEF AuthOk, Finish
  <1>2. /\ pc = "auth" /\ to_client # <<>>
        /\ p = IF reading = Nothing THEN Head(to_client) ELSE reading
    BY <1>1, ReadsGreeting
  <1>3. /\ Connecting /\ cmd = 0 /\ reading = Nothing /\ spoiled = {} /\ mixed = FALSE
        /\ Head(to_client) = to_client[1]
        /\ Succ(to_client[1].number) \in Bytes
        /\ Len(to_client) \in Nat /\ Len(to_client) >= 1
        /\ to_client[1].cmd = 0
        /\ to_client[1].kind = "fast_auth" <=> Len(to_client) # 1
        /\ Tail(to_client) \in Seq(ClientFrames)
        /\ Len(Tail(to_client)) = Len(to_client) - 1
    BY <1>2, WhileGreeting
  <1>4. p = to_client[1] /\ Len(to_client) = 1
    BY <1>1, <1>2, <1>3
  <1>5. /\ to_client' = Tail(to_client) /\ mixed' = FALSE /\ spoiled' = {}
        /\ sequence_id_' \in Bytes
    BY <1>1, <1>3, <1>4 DEF Consume, NextNumber
  <1>6. to_client' = <<>> /\ Len(to_client') = 0
    BY <1>3, <1>4, <1>5
  <1>7. backslash_escapes_' = (p.data # "no_escapes")
    BY <1>1 DEF ApplyOk, Opaque
  <1>8. NoWrite \in Writes
    BY DEF NoWrite, Writes
  <1>9. Types'
    BY <1>1, <1>3, <1>5, <1>7, <1>8 DEF IInv, Types
  <1>10. Connecting' = FALSE
    BY <1>1 DEF Connecting
  <1>11. Places'
    BY <1>1 DEF IInv, Places
  <1>12. Handshake'
    BY <1>10 DEF Handshake
  <1>13. ASSUME link = "up"
         PROVE  /\ to_server = <<>> /\ session.phase = "command"
                /\ session.number = 0 /\ session.ask = "nothing"
                /\ TellsMode(p, session.escapes)
    <2>1. IsAccepted /\ session.ask = "nothing"
      BY <1>1, <1>2, <1>3, <1>4, <1>13
         DEF IInv, Handshake, MayWrite, HasWritten, IsAsked
    <2>2. TellsMode(p, session.escapes)
      BY <1>3, <1>4, <1>13 DEF IInv, Handshake
    <2>3. QED
      BY <2>1, <2>2 DEF IsAccepted
  <1>14. link = "up" => to_server' = <<>> /\ Len(to_server') = 0
    BY <1>1, <1>13
  <1>15. Authenticated'
    BY <1>1, <1>13, <1>14 DEF Authenticated
  <1>16. Numbering'
    BY <1>1, <1>13, <1>14 DEF Numbering, Expected
  <1>17. Conversation'
    BY <1>1, <1>6, <1>13, <1>14 DEF Conversation, ServerRests, Listening
  <1>18. Escaping'
    <2>1. link = "up" => backslash_escapes_' = session.escapes
      <3>1. session.escapes \in BOOLEAN
        BY EscapesTyped DEF IInv
      <3>2. QED
        BY <1>1, <1>7, <1>13, <3>1 DEF TellsMode
    <2>2. QED
      BY <1>1, <1>6, <2>1 DEF Escaping
  <1>19. Recorded'
    BY <1>1, <1>5 DEF IInv, Recorded, AnswersOwnCommand, Consume
  <1>20. QED
    BY <1>9, <1>11, <1>12, <1>15, <1>16, <1>17, <1>18, <1>19 DEF IInv

-----------------------------------------------------------------------------
(* The server takes a frame                                                *)

LEMMA TakesFacts ==
  ASSUME IInv, NEW f, Takes(f)
  PROVE  /\ f \in ServerFrames /\ f = to_server[1] /\ f.number = session.number
         /\ f.number \in Bytes /\ f.cmd \in 0..MaxCommands /\ f.full \in BOOLEAN
         /\ link = "up" /\ to_server # <<>> /\ to_server' \in Seq(ServerFrames)
         /\ Len(to_server) \in Nat /\ Len(to_server) >= 1
         /\ Len(to_server') = Len(to_server) - 1
         /\ \A k \in 1..(Len(to_server) - 1) : to_server'[k] = to_server[k + 1]
         /\ UNCHANGED <<link, socket_, sequence_id_, backslash_escapes_, has_error_,
                        auth_plugin_name_, pc, writing, reading, columns, cmd, mixed,
                        disordered>>
         /\ Connecting' = Connecting
  <1>1. to_server \in Seq(ServerFrames) /\ to_server # <<>> /\ f = Head(to_server)
        /\ to_server' = Tail(to_server)
    BY DEF Takes, IInv, Types
  <1>2. /\ to_server' \in Seq(ServerFrames) /\ Len(to_server') = Len(to_server) - 1
        /\ \A k \in 1..(Len(to_server) - 1) : to_server'[k] = to_server[k + 1]
        /\ f = to_server[1] /\ f \in ServerFrames
        /\ Len(to_server) \in Nat /\ Len(to_server) >= 1
    BY <1>1, TailFacts
  <1>3. f.number \in Bytes /\ f.cmd \in 0..MaxCommands /\ f.full \in BOOLEAN
    BY <1>2 DEF ServerFrames
  <1>4. /\ f.number = session.number /\ link = "up"
        /\ UNCHANGED <<link, socket_, sequence_id_, backslash_escapes_, has_error_,
                       auth_plugin_name_, pc, writing, reading, columns, cmd, mixed,
                       disordered>>
    BY DEF Takes, members, frame
  <1>5. Connecting' = Connecting
    BY <1>4 DEF Connecting
  <1>6. QED
    BY <1>1, <1>2, <1>3, <1>4, <1>5

\* The frames behind f are numbered as the server then expects.
LEMMA TakesKeepsNumbers ==
  ASSUME IInv, NEW f, Takes(f), ~Connecting, session'.number = After(f),
         spoiled \subseteq spoiled'
  PROVE  Numbering'
  <1>1. /\ f = to_server[1] /\ link = "up" /\ to_server # <<>>
        /\ to_server' \in Seq(ServerFrames)
        /\ Len(to_server) \in Nat /\ Len(to_server) >= 1
        /\ Len(to_server') = Len(to_server) - 1
        /\ \A k \in 1..(Len(to_server) - 1) : to_server'[k] = to_server[k + 1]
        /\ UNCHANGED <<pc, sequence_id_>>
    BY TakesFacts
  <1> SUFFICES ASSUME "cancelled" \notin spoiled
               PROVE  /\ \A k \in 1..Len(to_server') :
                           to_server'[k].number = IF k = 1 THEN session'.number
                                                           ELSE After(to_server'[k - 1])
                      /\ Expected' = IF pc = "write" THEN sequence_id_ ELSE 0
    BY <1>1 DEF Numbering, After
  <1>2. /\ \A k \in 1..Len(to_server) :
             to_server[k].number = IF k = 1 THEN session.number ELSE After(to_server[k - 1])
        /\ Expected = IF pc = "write" THEN sequence_id_ ELSE 0
    BY <1>1 DEF IInv, Numbering
  <1>3. ASSUME NEW k \in 1..Len(to_server')
        PROVE  to_server'[k].number = IF k = 1 THEN session'.number
                                               ELSE After(to_server'[k - 1])
    <2>1. k + 1 \in 1..Len(to_server) /\ k \in 1..(Len(to_server) - 1)
      BY <1>1
    <2>2. to_server'[k] = to_server[k + 1]
      BY <1>1, <2>1
    <2>3. to_server[k + 1].number = After(to_server[(k + 1) - 1])
      BY <1>2, <2>1
    <2>4. to_server'[k].number = After(to_server[k])
      BY <2>1, <2>2, <2>3
    <2>5. CASE k = 1
      BY <1>1, <2>4, <2>5
    <2>6. CASE k # 1
      <3>1. k - 1 \in 1..(Len(to_server) - 1) /\ (k - 1) + 1 = k
        BY <2>1, <2>6
      <3>2. to_server'[k - 1] = to_server[k]
        BY <1>1, <3>1
      <3>3. QED
        BY <2>4, <2>6, <3>2
    <2>7. QED
      BY <2>5, <2>6
  <1>4. Expected' = Expected
    <2>1. Expected = After(to_server[Len(to_server)])
      BY <1>1 DEF Expected
    <2>2. CASE Len(to_server) = 1
      <3>1. to_server' = <<>>
        BY <1>1, <2>2, EmptyOrNot
      <3>2. QED
        BY <1>1, <2>1, <2>2, <3>1 DEF Expected
    <2>3. CASE Len(to_server) # 1
      <3>1. Len(to_server') # 0 /\ Len(to_server') \in 1..(Len(to_server) - 1)
            /\ Len(to_server') + 1 = Len(to_server)
        BY <1>1, <2>3
      <3>2. to_server' # <<>> /\ to_server'[Len(to_server')] = to_server[Len(to_server)]
        BY <1>1, <3>1, EmptyOrNot
      <3>3. QED
        BY <2>1, <3>2 DEF Expected, After
    <2>4. QED
      BY <2>2, <2>3
  <1>5. QED
    BY <1>2, <1>3, <1>4

LEMMA ServerReadsChunkKeeps == ASSUME IInv, NEW f, ServerReadsChunk(f) PROVE IInv'
  <1>1. Takes(f) /\ f.full /\ UNCHANGED <<to_client, spoiled>>
        /\ session' = [session EXCEPT !.number = Succ(@), !.ask = Asked(f)]
    BY DEF ServerReadsChunk
  <1>2. /\ f \in ServerFrames /\ f = to_server[1] /\ f.number = session.number
        /\ f.number \in Bytes /\ f.full = TRUE
        /\ link = "up" /\ to_server # <<>> /\ to_server' \in Seq(ServerFrames)
        /\ Len(to_server) \in Nat /\ Len(to_server) >= 1
        /\ Len(to_server') = Len(to_server) - 1
        /\ \A k \in 1..(Len(to_server) - 1) : to_server'[k] = to_server[k + 1]
        /\ UNCHANGED <<link, socket_, sequence_id_, backslash_escapes_, has_error_,
                       auth_plugin_name_, pc, writing, reading, columns, cmd, mixed,
                       disordered, to_client, spoiled>>
        /\ Connecting' = Connecting
    BY <1>1, TakesFacts
  <1>3. ~Connecting
    BY <1>2 DEF IInv, Handshake, MayWrite, HasWritten, IsAsked, IsAccepted
  <1>4. /\ session.phase = "command" /\ session.ask \in Commands \cup {"nothing"}
        /\ \A k \in 1..Len(to_server) : to_server[k].ask \in Commands
    BY <1>2, <1>3 DEF IInv, Authenticated
  <1>5. Asked(f) \in Commands
    <2>1. f.ask \in Commands
      BY <1>2, <1>4
    <2>2. QED
      BY <1>4, <2>1 DEF Asked
  <1>6. Succ(f.number) \in Bytes
    <2>1. f.number \in Int
      BY <1>2, WireAssumption DEF Bytes
    <2>2. QED
      BY <2>1, NumbersWrap
  <1>7. /\ session' \in Sessions /\ session'.number = After(f)
        /\ session'.ask = Asked(f) /\ session'.phase = "command"
        /\ session'.escapes = session.escapes
    <2>1. session \in Sessions
      BY DEF IInv, Types
    <2> DEFINE number == Succ(session.number)
               ask == Asked(f)
    <2>2. session' = [session EXCEPT !.number = number, !.ask = ask]
      BY <1>1
    <2>3. number \in Bytes /\ ask \in Commands /\ After(f) = number
      BY <1>2, <1>5, <1>6 DEF After
    <2> HIDE DEF number, ask
    <2>4. /\ session' \in Sessions /\ session'.number = number /\ session'.ask = ask
          /\ session'.phase = session.phase /\ session'.escapes = session.escapes
      BY <2>1, <2>2, <2>3 DEF Sessions
    <2>5. QED
      BY <1>4, <2>3, <2>4 DEF ask
  <1>8. Types'
    BY <1>2, <1>7 DEF IInv, Types
  <1>9. Places'
    BY <1>2 DEF IInv, Places
  <1>10. Handshake'
    BY <1>2, <1>3 DEF Handshake
  <1>11. Authenticated'
    <2>1. \A k \in 1..Len(to_server') : k \in 1..(Len(to_server) - 1) /\ k + 1 \in 1..Len(to_server)
      BY <1>2
    <2>2. \A k \in 1..Len(to_server') : to_server'[k].ask \in Commands
      BY <1>2, <1>4, <2>1
    <2>3. QED
      BY <1>5, <1>7, <2>2 DEF Authenticated
  <1>12. Numbering'
    BY <1>1, <1>2, <1>3, <1>7, TakesKeepsNumbers
  <1>13. Conversation'
    <2> SUFFICES ASSUME spoiled = {} PROVE Conversation'
      BY <1>2 DEF Conversation
    <2>1. /\ pc \in {"idle", "write"} => to_client = <<>> /\ reading = Nothing
          /\ reading # Nothing => reading.cmd = cmd
          /\ \A k \in 1..Len(to_client) : to_client[k].cmd = cmd
          /\ to_client # <<>> => Expects
          /\ \A k \in 1..Len(to_server) : to_server[k].cmd = cmd
          /\ pc = "idle" \/ (pc = "write" /\ writing.started = FALSE) => ServerRests
          /\ pc = "write" => \A k \in 1..Len(to_server) : to_server[k].full = TRUE
          /\ pc \in Listening =>
               \/ to_client # <<>> /\ ServerRests
               \/ /\ pc = "answer" /\ reading = Nothing
                  /\ to_client = <<>> /\ to_server # <<>>
                  /\ \A k \in 1..Len(to_server) :
                       to_server[k].full = (k # Len(to_server))
      BY <1>2, <1>3 DEF IInv, Conversation
    <2>2. ~ServerRests
      BY <1>2 DEF ServerRests
    <2>3. \A k \in 1..Len(to_server') : k \in 1..(Len(to_server) - 1) /\ k + 1 \in 1..Len(to_server)
      BY <1>2
    <2>4. \A k \in 1..Len(to_server') : to_server'[k].cmd = cmd
      BY <1>2, <2>1, <2>3
    <2>5. pc = "write" => \A k \in 1..Len(to_server') : to_server'[k].full = TRUE
      BY <1>2, <2>1, <2>3
    <2>6. pc \in Listening =>
            /\ pc = "answer" /\ reading = Nothing /\ to_client = <<>> /\ to_server' # <<>>
            /\ \A k \in 1..Len(to_server') : to_server'[k].full = (k # Len(to_server'))
      <3> SUFFICES ASSUME pc \in Listening
                   PROVE  /\ pc = "answer" /\ reading = Nothing
                          /\ to_client = <<>> /\ to_server' # <<>>
                          /\ \A k \in 1..Len(to_server') :
                               to_server'[k].full = (k # Len(to_server'))
        OBVIOUS
      <3>1. /\ pc = "answer" /\ reading = Nothing /\ to_client = <<>>
            /\ \A k \in 1..Len(to_server) : to_server[k].full = (k # Len(to_server))
        BY <2>1, <2>2
      <3>2. Len(to_server) # 1
        <4>1. 1 \in 1..Len(to_server)
          BY <1>2
        <4>2. QED
          BY <1>2, <3>1, <4>1
      <3>3. to_server' # <<>>
        BY <1>2, <3>2, EmptyOrNot
      <3>4. ASSUME NEW k \in 1..Len(to_server')
            PROVE  to_server'[k].full = (k # Len(to_server'))
        <4>1. to_server'[k] = to_server[k + 1] /\ k + 1 \in 1..Len(to_server)
          BY <1>2, <2>3
        <4>2. to_server[k + 1].full = (k + 1 # Len(to_server))
          BY <3>1, <4>1
        <4>3. (k + 1 # Len(to_server)) = (k # Len(to_server'))
          BY <1>2
        <4>4. QED
          BY <4>1, <4>2, <4>3
      <3>5. QED
        BY <3>1, <3>3, <3>4
    <2>7. to_client' # <<>> => Expects'
      BY <1>2, <2>1 DEF Expects
    <2>8. QED
      BY <1>2, <1>3, <2>1, <2>2, <2>4, <2>5, <2>6, <2>7 DEF Conversation
  <1>14. Escaping'
    BY <1>2, <1>3, <1>7 DEF IInv, Escaping
  <1>15. Recorded'
    BY <1>2 DEF IInv, Recorded, AnswersOwnCommand
  <1>16. QED
    BY <1>8, <1>9, <1>10, <1>11, <1>12, <1>13, <1>14, <1>15 DEF IInv

\* What reaches the client when nothing else is under way to it.
LEMMA AloneFacts ==
  ASSUME NEW S, NEW s \in Seq(S), NEW t \in Seq(S), s = <<>>
  PROVE  s \o t = t
  OBVIOUS

LEMMA ServerAuthenticatesKeeps == ASSUME IInv, NEW f, ServerAuthenticates(f) PROVE IInv'
  <1> DEFINE Accepts(reply) == \E k \in DOMAIN reply : reply[k].kind = "ok"
             Number(reply) == IF Accepts(reply) THEN 0
                                               ELSE (f.number + Len(reply) + 1) % Numbers
             Phase(reply) == IF Accepts(reply) THEN "command" ELSE session.phase
             Switched(reply) == session.switched \/ reply[1].kind = "switch"
  <1>1. Takes(f) /\ ~f.full /\ session.phase = "auth" /\ UNCHANGED spoiled
    BY DEF ServerAuthenticates
  <1>2. PICK reply \in AuthReplies(Asked(f)) :
          /\ to_client' = to_client \o Frames(reply, f.number + 1, 0)
          /\ session' = [session EXCEPT !.phase = Phase(reply), !.number = Number(reply),
                                        !.switched = Switched(reply)]
    BY Zenon DEF ServerAuthenticates
  <1>3. /\ f = to_server[1] /\ f.number = session.number /\ f.number \in Bytes
        /\ link = "up" /\ to_server # <<>> /\ to_server' \in Seq(ServerFrames)
        /\ Len(to_server') = Len(to_server) - 1
        /\ UNCHANGED <<link, socket_, sequence_id_, backslash_escapes_, has_error_,
                       auth_plugin_name_, pc, writing, reading, columns, cmd, mixed,
                       disordered, spoiled>>
        /\ Connecting' = Connecting
    BY <1>1, TakesFacts
  <1>4. Connecting
    BY <1>1, <1>3 DEF IInv, Authenticated
  <1>5. HasWritten /\ session.ask = "nothing" /\ spoiled = {} /\ reading = Nothing
    BY <1>1, <1>3, <1>4 DEF IInv, Handshake, MayWrite, IsAsked, IsAccepted
  <1>6. pc \in {"auth", "key"} /\ to_client = <<>> /\ to_server' = <<>>
    <2>1. Len(to_server') = 0
      BY <1>3, <1>5 DEF HasWritten
    <2>2. QED
      BY <1>3, <1>5, <2>1, EmptyOrNot DEF HasWritten
  <1>7. /\ reply \in Seq(Packets)
        /\ \A k \in 1..Len(reply) :
             reply[k].full = FALSE /\ TellsMode(reply[k], session.escapes)
        /\ \/ Len(reply) = 1 /\ reply[1].kind \notin {"ok", "fast_auth"}
           \/ Len(reply) = 1 /\ reply[1].kind = "ok"
           \/ /\ Len(reply) = 2 /\ reply[1].kind = "fast_auth"
              /\ reply[2].kind = "ok"
    BY AuthReplyFacts DEF IInv
  <1>8. f.number \in Nat /\ f.number + 1 \in Nat /\ 0 \in 0..MaxCommands
    BY <1>3, WireAssumption DEF Bytes
  <1>9. /\ to_client' \in Seq(ClientFrames) /\ Len(to_client') = Len(reply)
        /\ \A k \in 1..Len(to_client') :
             /\ to_client'[k].kind = reply[k].kind /\ to_client'[k].data = reply[k].data
             /\ to_client'[k].full = reply[k].full /\ to_client'[k].cmd = 0
             /\ to_client'[k].number = ((f.number + 1) + k - 1) % Numbers
    <2> DEFINE s == Frames(reply, f.number + 1, 0)
    <2>1. /\ s \in Seq(ClientFrames) /\ Len(s) = Len(reply)
          /\ \A k \in 1..Len(s) :
               /\ s[k].kind = reply[k].kind /\ s[k].data = reply[k].data
               /\ s[k].full = reply[k].full /\ s[k].cmd = 0
               /\ s[k].number = ((f.number + 1) + k - 1) % Numbers
      BY <1>7, <1>8, FramesFacts
    <2>2. to_client' = to_client \o s
      BY <1>2
    <2> HIDE DEF s
    <2>3. <<>> \in Seq(ClientFrames)
      OBVIOUS
    <2>4. to_client' = s
      BY <1>6, <2>1, <2>2, <2>3, AloneFacts
    <2>5. QED
      BY <2>1, <2>4
  <1>10. DOMAIN reply = 1..Len(reply) /\ Len(reply) \in Nat
    BY <1>7
  <1>11. Number(reply) \in Bytes /\ Phase(reply) \in {"auth", "command"}
         /\ Switched(reply) \in BOOLEAN
    <2>1. (f.number + Len(reply) + 1) \in Int
      BY <1>8, <1>10
    <2>2. (f.number + Len(reply) + 1) % Numbers \in Bytes /\ 0 \in Bytes
      <3>1. 0 \in Bytes
        BY WireAssumption DEF Bytes
      <3>2. QED
        BY <2>1, <3>1, NumbersWrap
    <2>3. Number(reply) \in Bytes
      BY <2>2
    <2>4. Phase(reply) \in {"auth", "command"}
      BY <1>1
    <2>5. Switched(reply) \in BOOLEAN
      OBVIOUS
    <2>6. QED
      BY <2>3, <2>4, <2>5
  <1>12. /\ session' \in Sessions /\ session'.number = Number(reply)
         /\ session'.phase = Phase(reply) /\ session'.ask = "nothing"
         /\ session'.escapes = session.escapes
    <2> DEFINE number == Number(reply)
               phase == Phase(reply)
               switched == Switched(reply)
    <2>1. session' = [session EXCEPT !.phase = phase, !.number = number,
                                     !.switched = switched]
      BY <1>2
    <2>2. /\ number \in Bytes /\ phase \in {"auth", "command"}
          /\ switched \in BOOLEAN
      BY <1>11
    <2>3. session \in Sessions
      BY DEF IInv, Types
    <2> HIDE DEF number, phase, switched
    <2>4. /\ session' \in Sessions /\ session'.number = number /\ session'.phase = phase
          /\ session'.ask = session.ask /\ session'.escapes = session.escapes
      BY <2>1, <2>2, <2>3 DEF Sessions
    <2>5. QED
      BY <1>5, <2>4 DEF number, phase
  <1>13. Types'
    BY <1>3, <1>9, <1>12 DEF IInv, Types
  <1>14. Places'
    BY <1>3, <1>6 DEF IInv, Places
  <1>15. ASSUME Len(reply) = 1 /\ reply[1].kind \notin {"ok", "fast_auth"}
         PROVE  Handshake'
    <2>1. ~Accepts(reply)
      <3>1. \A k \in DOMAIN reply : k = 1
        BY <1>10, <1>15
      <3>2. QED
        BY <1>15, <3>1
    <2>2. 1 \in 1..Len(to_client')
      BY <1>9, <1>15
    <2>3. to_client'[1].number = (f.number + 1) % Numbers
      <3>1. (f.number + 1) + 1 - 1 = f.number + 1
        BY <1>8
      <3>2. to_client'[1].number = ((f.number + 1) + 1 - 1) % Numbers
        BY <1>9, <2>2
      <3>3. QED
        BY <3>1, <3>2
    <2>4. session'.number = Succ(to_client'[1].number)
      <3>1. session'.number = (f.number + Len(reply) + 1) % Numbers
        BY <1>12, <2>1
      <3>2. f.number + Len(reply) + 1 = (f.number + 1) + 1 /\ f.number + 1 \in Int
        BY <1>8, <1>15
      <3>3. Succ((f.number + 1) % Numbers) = ((f.number + 1) + 1) % Numbers
        BY <3>2, NumbersWrap
      <3>4. QED
        BY <2>3, <3>1, <3>2, <3>3
    <2>5. session'.phase = "auth"
      BY <1>1, <1>12, <2>1
    <2> HIDE DEF Accepts, Number, Phase
    <2>6. IsAsked'
      BY <1>3, <1>6, <1>9, <1>15, <2>2, <2>4, <2>5 DEF IsAsked
    <2>7. \A k \in 1..Len(to_client') :
             /\ to_client'[k].full = FALSE /\ to_client'[k].cmd = 0
             /\ to_client'[k].kind = "fast_auth" <=> k # Len(to_client')
             /\ TellsMode(to_client'[k], session'.escapes)
      <3>1. \A k \in 1..Len(to_client') : k = 1 /\ k = Len(to_client')
        BY <1>9, <1>15
      <3>2. QED
        BY <1>7, <1>9, <1>12, <1>15, <3>1 DEF TellsMode
    <2>8. QED
      BY <1>3, <1>5, <1>6, <1>12, <2>6, <2>7 DEF Handshake
  <1>16. ASSUME Len(reply) = 1 /\ reply[1].kind = "ok"
         PROVE  Handshake'
    <2>1. Accepts(reply)
      BY <1>10, <1>16
    <2>2. session'.phase = "command" /\ session'.number = 0
      BY <1>12, <2>1
    <2> HIDE DEF Accepts, Number, Phase
    <2>3. 1 \in 1..Len(to_client')
      BY <1>9, <1>16
    <2>4. IsAccepted'
      BY <1>3, <1>6, <1>9, <1>16, <2>2, <2>3 DEF IsAccepted
    <2>5. \A k \in 1..Len(to_client') :
             /\ to_client'[k].full = FALSE /\ to_client'[k].cmd = 0
             /\ to_client'[k].kind = "fast_auth" <=> k # Len(to_client')
             /\ TellsMode(to_client'[k], session'.escapes)
      <3>1. \A k \in 1..Len(to_client') : k = 1 /\ k = Len(to_client')
        BY <1>9, <1>16
      <3>2. QED
        BY <1>7, <1>9, <1>12, <1>16, <3>1 DEF TellsMode
    <2>6. QED
      BY <1>3, <1>5, <1>6, <1>12, <2>4, <2>5 DEF Handshake
  <1>17. ASSUME Len(reply) = 2 /\ reply[1].kind = "fast_auth" /\ reply[2].kind = "ok"
         PROVE  Handshake'
    <2>1. Accepts(reply)
      BY <1>10, <1>17
    <2>2. session'.phase = "command" /\ session'.number = 0
      BY <1>12, <2>1
    <2> HIDE DEF Accepts, Number, Phase
    <2>3. 1 \in 1..Len(to_client') /\ 2 \in 1..Len(to_client')
      BY <1>9, <1>17
    <2>4. IsAccepted'
      BY <1>3, <1>6, <1>9, <1>17, <2>2, <2>3 DEF IsAccepted
    <2>5. \A k \in 1..Len(to_client') :
             /\ to_client'[k].full = FALSE /\ to_client'[k].cmd = 0
             /\ to_client'[k].kind = "fast_auth" <=> k # Len(to_client')
             /\ TellsMode(to_client'[k], session'.escapes)
      <3>1. \A k \in 1..Len(to_client') : k = 1 \/ k = 2
        BY <1>9, <1>17
      <3>2. Len(to_client') = 2
        BY <1>9, <1>17
      <3>3. QED
        BY <1>7, <1>9, <1>12, <1>17, <3>1, <3>2 DEF TellsMode
    <2>6. QED
      BY <1>3, <1>5, <1>6, <1>12, <2>4, <2>5 DEF Handshake
  <1> HIDE DEF Accepts, Number, Phase, Switched
  <1>18. Handshake'
    BY <1>7, <1>15, <1>16, <1>17
  <1>19. Authenticated' /\ Numbering' /\ Escaping' /\ Conversation'
    BY <1>3, <1>4 DEF Authenticated, Numbering, Escaping, Conversation
  <1>20. Recorded'
    BY <1>3 DEF IInv, Recorded, AnswersOwnCommand
  <1>21. QED
    BY <1>13, <1>14, <1>18, <1>19, <1>20 DEF IInv

\* Frames that carry the packets of an answer are one.
LEMMA AnswerSame ==
  ASSUME NEW s, NEW t, Len(s) \in Nat, Len(t) = Len(s),
         \A k \in 1..Len(s) : t[k].kind = s[k].kind /\ t[k].full = s[k].full,
         AnswerFrom(s, 1)
  PROVE  AnswerFrom(t, 1)
  <1>1. CASE Ends(s, 1, {"ok", "err"})
    <2>1. 1 \in 1..Len(s)
      BY <1>1 DEF Ends
    <2>2. QED
      BY <1>1, <2>1 DEF AnswerFrom, Ends
  <1>2. CASE /\ Len(s) > 1 + 1
             /\ s[1].kind = "columns" /\ s[1].full = FALSE
             /\ ColumnsFrom(s, 1 + 1)
    <2>1. /\ Len(s) > 2 /\ s[1].kind = "columns" /\ s[1].full = FALSE
          /\ s[2].kind = "column" /\ s[2].full = FALSE /\ RowsFrom(s, 3)
      BY <1>2 DEF ColumnsFrom
    <2>2. 1 \in 1..Len(s) /\ 2 \in 1..Len(s) /\ 3 \in 1..Len(s)
      BY <2>1
    <2>3. /\ Len(t) > 2 /\ t[1].kind = "columns" /\ t[1].full = FALSE
          /\ t[2].kind = "column" /\ t[2].full = FALSE
          /\ t[3].kind = s[3].kind /\ t[3].full = s[3].full
      BY <2>1, <2>2
    <2>4. RowsFrom(t, 3)
      <3>1. CASE Ends(s, 3, {"eof", "err"})
        BY <2>3, <3>1 DEF RowsFrom, Ends
      <3>2. CASE /\ Len(s) = 3 + 1
                 /\ s[3].kind = "row" /\ s[3].full = FALSE
                 /\ Ends(s, 3 + 1, {"eof", "err"})
        <4>1. 4 \in 1..Len(s)
          BY <3>2
        <4>2. t[4].kind = s[4].kind /\ t[4].full = s[4].full
          BY <4>1
        <4>3. QED
          BY <2>3, <3>2, <4>2 DEF RowsFrom, Ends
      <3>3. CASE /\ Len(s) = 3 + 2
                 /\ s[3].kind = "row" /\ s[3].full = TRUE
                 /\ RestFrom(s, 3 + 1)
        <4>1. 4 \in 1..Len(s) /\ 5 \in 1..Len(s)
          BY <3>3
        <4>2. /\ t[4].kind = s[4].kind /\ t[4].full = s[4].full
              /\ t[5].kind = s[5].kind /\ t[5].full = s[5].full
          BY <4>1
        <4>3. RestFrom(t, 4)
          BY <3>3, <4>2 DEF RestFrom, Ends
        <4>4. QED
          BY <2>3, <3>3, <4>3 DEF RowsFrom
      <3>4. QED
        BY <2>1, <3>1, <3>2, <3>3 DEF RowsFrom
    <2>5. QED
      BY <2>3, <2>4 DEF AnswerFrom, ColumnsFrom
  <1>3. QED
    BY <1>1, <1>2 DEF AnswerFrom

LEMMA ServerAnswersKeeps == ASSUME IInv, NEW f, ServerAnswers(f) PROVE IInv'
  <1> DEFINE ask == Asked(f)
  <1>1. Takes(f) /\ f.full = FALSE /\ session.phase = "command"
    BY TakesFacts DEF ServerAnswers
  <1>2. PICK answer \in Answers(ask) :
          /\ to_client' = to_client \o Frames(answer, f.number + 1, f.cmd)
          /\ spoiled' = spoiled \cup Spoils(ask, answer)
          /\ session' = [session EXCEPT !.number = 0, !.ask = "nothing",
               !.escapes = IF ask = "mode" /\ answer[1].kind = "ok" THEN ~@ ELSE @]
    BY Zenon DEF ServerAnswers
  <1>3. /\ f = to_server[1] /\ f.number = session.number /\ f.number \in Bytes
        /\ f.cmd \in 0..MaxCommands
        /\ link = "up" /\ to_server # <<>> /\ to_server' \in Seq(ServerFrames)
        /\ Len(to_server) \in Nat /\ Len(to_server) >= 1
        /\ Len(to_server') = Len(to_server) - 1
        /\ \A k \in 1..(Len(to_server) - 1) : to_server'[k] = to_server[k + 1]
        /\ UNCHANGED <<link, socket_, sequence_id_, backslash_escapes_, has_error_,
                       auth_plugin_name_, pc, writing, reading, columns, cmd, mixed,
                       disordered>>
        /\ Connecting' = Connecting
    BY <1>1, TakesFacts
  <1>4. ~Connecting
    BY <1>1, <1>3 DEF IInv, Handshake, MayWrite, HasWritten, IsAsked, IsAccepted
  <1>5. /\ session.ask \in Commands \cup {"nothing"}
        /\ \A k \in 1..Len(to_server) : to_server[k].ask \in Commands
    BY <1>3, <1>4 DEF IInv, Authenticated
  <1>6. ask \in Commands
    <2>1. f.ask \in Commands
      BY <1>3, <1>5
    <2>2. QED
      BY <1>5, <2>1 DEF Asked
  <1> HIDE DEF ask
  <1>7. /\ answer \in Seq(Packets) /\ Len(answer) >= 1
        /\ Spoils(ask, answer) \subseteq {"two_statements", "legacy_eof"}
        /\ Spoils(ask, answer) = {} =>
             /\ AnswerFrom(answer, 1)
             /\ \A k \in 1..Len(answer) :
                  TellsMode(answer[k], EscapesAfter(ask, answer))
    BY <1>6, AnswerFacts DEF IInv
  <1> DEFINE s == Frames(answer, f.number + 1, f.cmd)
  <1>8. /\ s \in Seq(ClientFrames) /\ Len(s) = Len(answer)
        /\ \A k \in 1..Len(s) :
             /\ s[k].kind = answer[k].kind /\ s[k].data = answer[k].data
             /\ s[k].full = answer[k].full /\ s[k].cmd = f.cmd
    <2>1. f.number + 1 \in Nat
      BY <1>3, WireAssumption DEF Bytes
    <2>2. answer \in Seq(Packets) /\ f.cmd \in 0..MaxCommands
      BY <1>3, <1>7
    <2>3. /\ s \in Seq(ClientFrames) /\ Len(s) = Len(answer)
          /\ \A k \in 1..Len(s) :
               /\ s[k].kind = answer[k].kind /\ s[k].data = answer[k].data
               /\ s[k].full = answer[k].full /\ s[k].cmd = f.cmd
               /\ s[k].number = ((f.number + 1) + k - 1) % Numbers
      BY <2>1, <2>2, FramesFacts
    <2> HIDE DEF s
    <2>4. QED
      BY <2>3
  <1>9. to_client' = to_client \o s
    BY <1>2
  <1> HIDE DEF s
  <1>10. to_client \in Seq(ClientFrames) /\ to_client' \in Seq(ClientFrames)
    <2>1. to_client \in Seq(ClientFrames)
      BY DEF IInv, Types
    <2>2. QED
      BY <1>8, <1>9, <2>1, ConcatFacts
  <1>11. /\ session' \in Sessions /\ session'.number = 0 /\ session'.ask = "nothing"
         /\ session'.phase = "command" /\ session'.escapes = EscapesAfter(ask, answer)
    <2> DEFINE escapes == EscapesAfter(ask, answer)
    <2>1. session' = [session EXCEPT !.number = 0, !.ask = "nothing", !.escapes = escapes]
      BY <1>2 DEF EscapesAfter
    <2>2. escapes \in BOOLEAN
      BY EscapesTyped DEF EscapesAfter, IInv
    <2>3. session \in Sessions /\ 0 \in Bytes
      BY WireAssumption DEF IInv, Types, Bytes
    <2> HIDE DEF escapes
    <2>4. /\ session' \in Sessions /\ session'.number = 0 /\ session'.ask = "nothing"
          /\ session'.phase = session.phase /\ session'.escapes = escapes
      BY <2>1, <2>2, <2>3 DEF Sessions
    <2>5. QED
      BY <1>1, <2>4 DEF escapes
  <1>12. spoiled \subseteq spoiled'
         /\ spoiled' \subseteq {"cancelled", "two_statements", "legacy_eof"}
    BY <1>2, <1>7 DEF IInv, Types
  <1>13. Types'
    BY <1>3, <1>10, <1>11, <1>12 DEF IInv, Types
  <1>14. Places'
    BY <1>3 DEF IInv, Places
  <1>15. Handshake'
    BY <1>3, <1>4 DEF Handshake
  <1>16. Authenticated'
    <2>1. \A k \in 1..Len(to_server') : k \in 1..(Len(to_server) - 1) /\ k + 1 \in 1..Len(to_server)
      BY <1>3
    <2>2. \A k \in 1..Len(to_server') : to_server'[k].ask \in Commands
      BY <1>3, <1>5, <2>1
    <2>3. QED
      BY <1>11, <2>2 DEF Authenticated
  <1>17. Numbering'
    BY <1>1, <1>4, <1>11, <1>12, TakesKeepsNumbers DEF After
  <1>18. ASSUME spoiled' = {}
         PROVE  /\ spoiled = {} /\ Spoils(ask, answer) = {}
                /\ pc = "answer" /\ reading = Nothing
                /\ to_client = <<>> /\ to_server' = <<>> /\ f.cmd = cmd
                /\ to_client' = s /\ to_client' # <<>>
    <2>1. spoiled = {} /\ Spoils(ask, answer) = {}
      BY <1>2, <1>18
    <2>2. /\ \A k \in 1..Len(to_server) : to_server[k].cmd = cmd
          /\ pc = "idle" => ServerRests
          /\ pc = "write" => \A k \in 1..Len(to_server) : to_server[k].full = TRUE
          /\ pc \in Listening =>
               \/ to_client # <<>> /\ ServerRests
               \/ /\ pc = "answer" /\ reading = Nothing
                  /\ to_client = <<>> /\ to_server # <<>>
                  /\ \A k \in 1..Len(to_server) :
                       to_server[k].full = (k # Len(to_server))
      BY <1>3, <1>4, <2>1 DEF IInv, Conversation
    <2>3. 1 \in 1..Len(to_server) /\ ~ServerRests
      BY <1>3 DEF ServerRests
    <2>4. pc \in Listening
      <3>1. pc # "idle" /\ pc # "write"
        BY <1>1, <1>3, <2>2, <2>3
      <3>2. pc \notin {"resolve", "greeting", "auth", "key"}
        BY <1>4, <3>1 DEF IInv, Places, Connecting
      <3>3. QED
        BY <3>1, <3>2 DEF IInv, Types, Reading, Listening
    <2>5. /\ pc = "answer" /\ reading = Nothing /\ to_client = <<>>
          /\ \A k \in 1..Len(to_server) : to_server[k].full = (k # Len(to_server))
      BY <2>2, <2>3, <2>4
    <2>6. Len(to_server) = 1
      BY <1>1, <1>3, <2>3, <2>5
    <2>7. to_server' = <<>>
      BY <1>3, <2>6, EmptyOrNot
    <2>8. f.cmd = cmd
      BY <1>3, <2>2, <2>3
    <2>9. to_client' = s
      BY <1>8, <1>9, <1>10, <2>5, AloneFacts
    <2>10. to_client' # <<>>
      BY <1>7, <1>8, <2>9
    <2>11. QED
      BY <2>1, <2>5, <2>7, <2>8, <2>9, <2>10
  <1>19. Conversation'
    <2> SUFFICES ASSUME spoiled' = {} PROVE Conversation'
      BY DEF Conversation
    <2>1. /\ pc = "answer" /\ reading = Nothing /\ f.cmd = cmd
          /\ Spoils(ask, answer) = {} /\ to_server' = <<>> /\ to_client' = s
          /\ to_client' # <<>>
      BY <1>18
    <2>2. AnswerFrom(to_client', 1)
      <3>1. AnswerFrom(answer, 1) /\ Len(answer) \in Nat
        BY <1>7, <2>1
      <3>2. QED
        BY <1>8, <2>1, <3>1, AnswerSame
    <2>3. Expects'
      BY <1>3, <2>1, <2>2 DEF Expects
    <2>4. ServerRests'
      BY <1>11, <2>1 DEF ServerRests
    <2>5. \A k \in 1..Len(to_client') : to_client'[k].cmd = cmd'
      BY <1>3, <1>8, <2>1
    <2>6. \A k \in 1..Len(to_server') : FALSE
      BY <2>1
    <2>7. pc' = "answer" /\ reading' = Nothing
      BY <1>3, <2>1
    <2> HIDE DEF Conversation
    <2>8. QED
      BY <2>1, <2>3, <2>4, <2>5, <2>6, <2>7 DEF Conversation
  <1>20. Escaping'
    <2> SUFFICES ASSUME spoiled' = {} PROVE Escaping'
      BY DEF Escaping
    <2>1. /\ pc = "answer" /\ Spoils(ask, answer) = {} /\ spoiled = {}
          /\ to_client = <<>> /\ to_client' = s /\ to_client' # <<>>
      BY <1>18
    <2>2. backslash_escapes_ = session.escapes
      BY <1>3, <1>4, <2>1 DEF IInv, Escaping
    <2>3. \A k \in 1..Len(to_client') : TellsMode(to_client'[k], session'.escapes)
      BY <1>7, <1>8, <1>11, <2>1 DEF TellsMode
    <2>4. to_client'[1].kind = answer[1].kind
      <3>1. 1 \in 1..Len(s)
        BY <1>7, <1>8
      <3>2. QED
        BY <1>8, <2>1, <3>1
    <2>5. session'.escapes = session.escapes \/ to_client'[1].kind = "ok"
      BY <1>11, <2>4 DEF EscapesAfter
    <2>6. QED
      BY <1>3, <2>1, <2>2, <2>3, <2>5 DEF Escaping
  <1>21. Recorded'
    BY <1>3, <1>12 DEF IInv, Recorded, AnswersOwnCommand
  <1>22. QED
    BY <1>13, <1>14, <1>15, <1>16, <1>17, <1>19, <1>20, <1>21 DEF IInv

-----------------------------------------------------------------------------
(* The invariant                                                           *)

LEMMA AskKeeps == IInv /\ Ask => IInv'
  <1> SUFFICES ASSUME IInv, Ask PROVE IInv'
    OBVIOUS
  <1>1. ASSUME NEW ask \in Commands, NEW size \in Nat, Command(ask, size)
        PROVE  IInv'
    BY <1>1, CommandKeeps
  <1>2. CASE Command("ping", 1)
    BY <1>1, <1>2 DEF Commands
  <1>3. CASE \E ask \in {"query", "mode", "two_statements"}, size \in Sizes :
               Command(ask, size)
    <2>1. PICK ask \in {"query", "mode", "two_statements"}, size \in Sizes :
            Command(ask, size)
      BY <1>3
    <2>2. ask \in Commands /\ size \in Nat
      BY WireAssumption DEF Commands
    <2>3. QED
      BY <1>1, <2>1, <2>2
  <1>4. QED
    BY <1>2, <1>3, ConnectCallKeeps, DisconnectKeeps, CommandWithoutSocketKeeps DEF Ask

LEMMA ConnectStepKeeps == IInv /\ ConnectStep => IInv'
  BY ConnectRefusedKeeps, GreetingKeeps, AuthSwitchKeeps, AuthMoreDataKeeps,
     AuthKeyKeeps, AuthOkKeeps, AuthFailsKeeps DEF ConnectStep

LEMMA CommandStepKeeps == IInv /\ CommandStep => IInv'
  BY AnswerOkKeeps, AnswerFailsKeeps, AnswerColumnsKeeps, ColumnParsedKeeps,
     ColumnFailsKeeps, RowParsedKeeps, RowFailsKeeps, RowsEndKeeps DEF CommandStep

LEMMA ServerStepKeeps == IInv /\ ServerStep => IInv'
  BY ConnectAcceptedKeeps, ServerHangsUpKeeps, ServerReadsChunkKeeps,
     ServerAuthenticatesKeeps, ServerAnswersKeeps DEF ServerStep

LEMMA NextKeeps == IInv /\ [Next]_vars => IInv'
  <1> SUFFICES ASSUME IInv, [Next]_vars PROVE IInv'
    OBVIOUS
  <1>1. CASE Ask
    BY <1>1, AskKeeps
  <1>2. CASE ClientStep
    BY <1>2, WriteFrameKeeps, ReadChunkKeeps, StreamFailsKeeps, ConnectStepKeeps,
       CommandStepKeeps DEF ClientStep
  <1>3. CASE Cancelled
    BY <1>3, CancelledKeeps
  <1>4. CASE ServerStep
    BY <1>4, ServerStepKeeps
  <1>5. CASE LinkBreaks
    BY <1>5, LinkBreaksKeeps
  <1>6. CASE UNCHANGED vars
    BY <1>6, StutterKeeps
  <1>7. QED
    BY <1>1, <1>2, <1>3, <1>4, <1>5, <1>6 DEF Next

LEMMA Invariance == Spec => []IInv
  <1>1. Init => IInv
    BY InitHolds
  <1>2. IInv /\ [Next]_vars => IInv'
    BY NextKeeps
  <1>3. QED
    BY <1>1, <1>2, PTL DEF Spec

-----------------------------------------------------------------------------
(* The theorems                                                            *)

\* Every variable keeps its type; in particular read_packet() and
\* write_packet() keep sequence_id_ within one byte, however many frames a
\* payload has.
THEOREM TypeCorrect == Spec => []TypeOK
  <1>1. IInv => TypeOK
    <2> SUFFICES ASSUME IInv PROVE TypeOK
      OBVIOUS
    <2>1. ASSUME NEW k \in DOMAIN to_server
          PROVE  to_server[k].number \in 0..Numbers - 1
      <3>1. to_server[k] \in ServerFrames
        BY DEF IInv, Types
      <3>2. QED
        BY <3>1 DEF ServerFrames, Bytes
    <2>2. ASSUME NEW k \in DOMAIN to_client
          PROVE  to_client[k].number \in 0..Numbers - 1
      <3>1. to_client[k] \in AnyFrames
        BY DEF IInv, Types, ClientFrames
      <3>2. to_client[k].number \in Bytes
        BY <3>1, Zenon DEF AnyFrames
      <3>3. QED
        BY <3>2 DEF Bytes
    <2>3. writing.left \in Nat
      BY DEF IInv, Types, Writes
    <2>4. QED
      BY <2>1, <2>2, <2>3 DEF IInv, Types, TypeOK, Bytes
  <1>2. QED
    BY <1>1, Invariance, PTL

\* command_simple() never sends a command to a session that has not accepted
\* the login: connect() keeps its socket only after the server's consent.
THEOREM CommandsAreAuthenticated == Spec => []CommandsAuthenticated
  <1>1. IInv => CommandsAuthenticated
    BY DEF IInv, Authenticated, CommandsAuthenticated
  <1>2. QED
    BY <1>1, Invariance, PTL

\* Between two commands the connection is in step with its session: what
\* read_query_response() leaves behind is nothing, backslash_escapes_ is what
\* the session does, and the server hangs up over packets out of order only
\* after a command was cancelled between two of its frames.
THEOREM ConversationIsInSync == Spec => []InSync
  <1>1. IInv => InSync
    <2> SUFFICES ASSUME IInv PROVE InSync
      OBVIOUS
    <2>1. disordered => "cancelled" \in spoiled
      BY DEF IInv, Recorded
    <2>2. ASSUME pc = "idle", link = "up", spoiled = {}
          PROVE  /\ to_server = <<>> /\ to_client = <<>>
                 /\ session.phase = "command" /\ session.number = 0
                 /\ session.ask = "nothing"
                 /\ backslash_escapes_ = session.escapes
      <3>1. ~Connecting
        BY <2>2 DEF Connecting
      <3>2. to_client = <<>>
        BY <2>2, <3>1, NothingToRead
      <3>3. ServerRests
        BY <2>2, <3>1 DEF IInv, Conversation
      <3>4. session.phase = "command"
        BY <2>2, <3>1 DEF IInv, Authenticated
      <3>5. backslash_escapes_ = session.escapes
        BY <2>2, <3>1 DEF IInv, Escaping
      <3>6. QED
        BY <3>2, <3>3, <3>4, <3>5 DEF ServerRests
    <2>3. QED
      BY <2>1, <2>2 DEF InSync
  <1>2. QED
    BY <1>1, Invariance, PTL

\* No operation of the client reads the answer to another command, unless a
\* command was cancelled, a text had several statements, or the server still
\* ends the columns with an EOF packet.
THEOREM AnswersAreOwn == Spec => []AnswersOwnCommand
  <1>1. IInv => AnswersOwnCommand
    BY DEF IInv, Recorded
  <1>2. QED
    BY <1>1, Invariance, PTL
=============================================================================
