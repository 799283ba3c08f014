------------------------------ MODULE MysqlWire ------------------------------
(***************************************************************************)
(* The MySQL client/server protocol as src/ormpp/mysql_async.hpp speaks    *)
(* it: one connection object, whose operations its owner awaits one after  *)
(* the other, and a server behind a TCP connection.  read_packet() and     *)
(* write_packet() suspend once per frame, so one frame is one step; the    *)
(* code between two suspensions runs with the step that ends the first.    *)
(*                                                                         *)
(* The server is external: it answers what the client may be sent by a     *)
(* server that keeps to the protocol.                                      *)
(***************************************************************************)
EXTENDS Integers, Sequences

CONSTANTS
  MaxChunk,     \* max_packet_chunk, in units of payload
  Sizes,        \* the sizes of statements
  Numbers,      \* how many sequence numbers there are: 2^8
  MaxCommands,  \* bound on the commands sent over one TCP connection
  MaxConnects   \* bound on the calls of connect()

ASSUME WireAssumption ==
  /\ MaxChunk \in Nat \ {0, 1}
  /\ Sizes \subseteq Nat \ {0}
  /\ Numbers \in Nat \ {0, 1}
  /\ MaxCommands \in Nat /\ MaxConnects \in Nat

VARIABLES
  \* The TCP connection: what is in flight, in order.
  link,          \* "none", "up", or "broken"
  to_server,
  to_client,
  \* The members of mysql_async.
  socket_,       \* there is an open socket object
  sequence_id_,
  backslash_escapes_,
  has_error_,
  auth_plugin_name_,
  \* The operation that is awaited.
  pc,            \* what it waits for
  writing,       \* the rest of the payload being written
  reading,       \* the first frame of the payload being read
  columns,       \* column definitions still to come
  cmd,           \* commands since connect(); 0 while connect() runs
  \* The server's session.
  session,
  \* History of the connection.
  spoiled,       \* why a part of an answer may have been left unread
  mixed,         \* an operation read an answer to another command
  disordered,    \* the server saw a sequence number it did not expect
  connects

wire    == <<link, to_server, to_client>>
members == <<socket_, sequence_id_, backslash_escapes_, has_error_, auth_plugin_name_>>
frame   == <<pc, writing, reading, columns, cmd>>
history == <<spoiled, mixed, disordered, connects>>
vars    == <<wire, members, frame, session, history>>

Plugins == {"mysql_native_password", "caching_sha2_password", "other"}

Supported == Plugins \ {"other"}

Reading == {"greeting", "auth", "key", "answer", "columns", "rows"}

\* connect() is under way.
Connecting == pc # "idle" /\ cmd = 0

Nothing == [kind |-> "nothing"]

NoWrite == [left |-> 0, empty |-> FALSE, started |-> FALSE, ask |-> "nothing",
            next |-> "idle"]

NoSession == [phase |-> "none", number |-> 0, ask |-> "nothing",
              escapes |-> TRUE, legacy |-> FALSE, switched |-> FALSE]

Succ(number) == (number + 1) % Numbers

Init ==
  /\ link = "none" /\ to_server = <<>> /\ to_client = <<>>
  /\ socket_ = FALSE /\ sequence_id_ = 0 /\ backslash_escapes_ = TRUE
  /\ has_error_ = FALSE /\ auth_plugin_name_ = "mysql_native_password"
  /\ pc = "idle" /\ writing = NoWrite /\ reading = Nothing
  /\ columns = 0 /\ cmd = 0
  /\ session = NoSession
  /\ spoiled = {} /\ mixed = FALSE /\ disordered = FALSE
  /\ connects = 0

-----------------------------------------------------------------------------
(* How an operation ends                                                   *)

\* set_last_error() if it failed; nothing but connect() resets the flag.
Finish(ok) ==
  /\ pc' = "idle"
  /\ has_error_' = (has_error_ \/ ~ok)
  /\ writing' = NoWrite /\ reading' = Nothing /\ columns' = 0

\* The TCP connection is gone, with what was in flight.
Hangup == /\ link' = "none"
          /\ to_server' = <<>> /\ to_client' = <<>>
          /\ session' = NoSession

KeepAfterFailure == UNCHANGED <<socket_, wire, session>>

\* close_socket() after an exception in connect().
CloseAfterFailure == socket_' = FALSE /\ Hangup

ConnectFails == /\ CloseAfterFailure
                /\ Finish(FALSE)
                /\ UNCHANGED <<backslash_escapes_, cmd, spoiled, mixed, disordered,
                               connects>>

\* An exception in a command is caught, and the socket is kept.
CommandFails == /\ Finish(FALSE)
                /\ UNCHANGED <<socket_, backslash_escapes_, auth_plugin_name_, cmd,
                               link, to_server, session, disordered, connects>>

-----------------------------------------------------------------------------
(* write_packet()                                                          *)

StartWrite(size, ask, next) ==
  /\ writing' = [left |-> size, empty |-> FALSE, started |-> FALSE, ask |-> ask,
                 next |-> next]
  /\ pc' = "write"

NoEmptyFrame(n, left) == FALSE

\* A payload that ends on a full frame is followed by an empty one.
NeedsEmptyFrame(n, left) == n = MaxChunk /\ left = 0

\* One async_write(): the next chunk, or the empty frame at the end.  A socket
\* whose peer is gone may still take it.
WriteFrame ==
  /\ pc = "write"
  /\ link # "none"
  /\ LET n     == IF writing.left > MaxChunk THEN MaxChunk ELSE writing.left
         left  == writing.left - n
         empty == ~writing.empty /\ NeedsEmptyFrame(n, left)
         last  == left = 0 /\ ~empty
     IN  /\ to_server' = IF link = "up"
                           THEN Append(to_server, [full |-> n = MaxChunk,
                                                   number |-> sequence_id_,
                                                   ask |-> writing.ask, cmd |-> cmd])
                           ELSE to_server
         /\ IF last THEN writing' = NoWrite /\ pc' = writing.next
                    ELSE /\ writing' = [writing EXCEPT !.left = left, !.empty = empty,
                                                       !.started = TRUE]
                         /\ UNCHANGED pc
  /\ sequence_id_' = Succ(sequence_id_)
  /\ UNCHANGED <<link, to_client, socket_, backslash_escapes_, has_error_,
                 auth_plugin_name_, reading, columns, cmd, session, history>>

-----------------------------------------------------------------------------
(* read_packet()                                                           *)

\* A full frame: the payload goes on in the next one.
ReadChunk ==
  /\ pc \in Reading
  /\ to_client # <<>> /\ Head(to_client).full
  /\ reading' = IF reading = Nothing THEN Head(to_client) ELSE reading
  /\ to_client' = Tail(to_client)
  /\ sequence_id_' = Succ(Head(to_client).number)
  /\ UNCHANGED <<link, to_server, socket_, backslash_escapes_, has_error_,
                 auth_plugin_name_, pc, writing, columns, cmd, session, history>>

\* The last frame of packet p arrives while the operation is at `place'.
Arrives(p, place) ==
  /\ pc = place
  /\ to_client # <<>> /\ ~Head(to_client).full
  /\ p = IF reading = Nothing THEN Head(to_client) ELSE reading

\* What reading it does to the connection, if the operation keeps the socket.
Consume(p) ==
  /\ to_client' = Tail(to_client)
  /\ mixed' = (mixed \/ p.cmd # cmd)
  /\ UNCHANGED spoiled

NextNumber == sequence_id_' = Succ(Head(to_client).number)

\* The payload p begins in the middle of a row, or is one: its bytes can pass
\* for any other packet.
Opaque(p) == p.kind \in {"row", "rest"}

Is(p, kind) == p.kind = kind \/ Opaque(p)

IgnoreOk(p) == UNCHANGED backslash_escapes_

\* apply_ok(): the status flags say how the session reads backslashes.
ApplyOk(p) == IF Opaque(p) THEN backslash_escapes_' \in BOOLEAN
                           ELSE backslash_escapes_' = (p.data # "no_escapes")

-----------------------------------------------------------------------------
(* connect() and disconnect()                                              *)

ReuseStream == UNCHANGED wire

\* socket_.emplace(): whatever the old connection still had in flight is gone.
FreshStream == link' = "none" /\ to_server' = <<>> /\ to_client' = <<>>

ConnectCall ==
  /\ pc = "idle"
  /\ connects < MaxConnects
  /\ has_error_' = FALSE
  /\ backslash_escapes_' = TRUE
  /\ sequence_id_' = 0
  /\ socket_' = TRUE
  /\ FreshStream
  /\ session' = NoSession
  /\ pc' = "resolve"
  /\ cmd' = 0
  /\ spoiled' = {} /\ mixed' = FALSE /\ disordered' = FALSE
  /\ connects' = connects + 1
  /\ UNCHANGED <<auth_plugin_name_, writing, reading, columns>>

\* async_resolve() or async_connect() fails.
ConnectRefused ==
  /\ pc = "resolve"
  /\ ConnectFails
  /\ UNCHANGED <<sequence_id_, auth_plugin_name_>>

\* parse_server_handshake() and write_handshake_response(); the packet of a
\* server that refuses the connection has no null terminator to find.
Greeting(p) ==
  /\ Arrives(p, "greeting")
  /\ sequence_id_' = 1
  /\ auth_plugin_name_' = IF p.kind = "greeting" THEN p.data ELSE auth_plugin_name_
  /\ \/ /\ p.kind = "greeting" /\ p.data \in Supported
        /\ StartWrite(1, "hello", "auth")
        /\ Consume(p)
        /\ reading' = Nothing
        /\ UNCHANGED <<link, to_server, socket_, backslash_escapes_, has_error_,
                       columns, cmd, session, disordered, connects>>
     \/ /\ p.kind # "greeting" \/ p.data \notin Supported
        /\ ConnectFails

\* The rest of a step of the handshake that sends an answer and goes on.
Continue(p) ==
  /\ Consume(p)
  /\ reading' = Nothing
  /\ UNCHANGED <<link, to_server, socket_, backslash_escapes_, has_error_, columns,
                 cmd, session, disordered, connects>>

\* handle_auth_response(): the server asks for another plugin.
AuthSwitch(p) ==
  /\ Arrives(p, "auth")
  /\ p.kind = "switch"
  /\ NextNumber
  /\ auth_plugin_name_' = p.data
  /\ IF p.data \in Supported THEN StartWrite(1, "reply", "auth") /\ Continue(p)
                             ELSE ConnectFails

\* The server has more to say before it decides; only caching_sha2_password
\* knows what.
AuthMoreData(p) ==
  /\ Arrives(p, "auth")
  /\ p.kind \in {"fast_auth", "full_auth"}
  /\ NextNumber
  /\ UNCHANGED auth_plugin_name_
  /\ IF auth_plugin_name_ = "caching_sha2_password"
       THEN \/ p.kind = "fast_auth" /\ Continue(p) /\ UNCHANGED <<pc, writing>>
            \/ p.kind = "full_auth" /\ StartWrite(1, "public_key", "key") /\ Continue(p)
       ELSE ConnectFails

\* The public key arrives; the password goes out encrypted with it.
AuthKey(p) ==
  /\ Arrives(p, "key")
  /\ NextNumber
  /\ UNCHANGED auth_plugin_name_
  /\ \/ p.kind = "key" /\ StartWrite(1, "password", "auth") /\ Continue(p)
     \/ ConnectFails   \* an error packet, or OpenSSL refuses the key

AuthOk(p) ==
  /\ Arrives(p, "auth")
  /\ p.kind = "ok"
  /\ NextNumber
  /\ ApplyOk(p)
  /\ Consume(p)
  /\ Finish(TRUE)
  /\ UNCHANGED <<link, to_server, socket_, auth_plugin_name_, cmd, session,
                 disordered, connects>>

AuthFails(p) ==
  /\ Arrives(p, "auth")
  /\ p.kind \notin {"ok", "switch", "fast_auth", "full_auth"}
  /\ NextNumber
  /\ ConnectFails
  /\ UNCHANGED auth_plugin_name_

Disconnect ==
  /\ pc = "idle" /\ socket_
  /\ socket_' = FALSE
  /\ Hangup
  /\ UNCHANGED <<sequence_id_, backslash_escapes_, has_error_, auth_plugin_name_,
                 frame, history>>

-----------------------------------------------------------------------------
(* command_simple() and read_query_response()                              *)

FirstNumber == 0

\* ping(), and execute() or a query with a statement of some size.
Command(ask, size) ==
  /\ pc = "idle"
  /\ socket_
  /\ cmd < MaxCommands
  /\ cmd' = cmd + 1
  /\ sequence_id_' = FirstNumber
  /\ StartWrite(size, ask, "answer")
  /\ UNCHANGED <<wire, socket_, backslash_escapes_, has_error_, auth_plugin_name_,
                 reading, columns, session, history>>

\* The same without a socket: write_packet() throws.
CommandWithoutSocket ==
  /\ pc = "idle"
  /\ ~socket_
  /\ Finish(FALSE)
  /\ sequence_id_' = FirstNumber
  /\ UNCHANGED <<wire, socket_, backslash_escapes_, auth_plugin_name_, cmd, session,
                 spoiled, mixed, disordered, connects>>

AnswerOk(p) ==
  /\ Arrives(p, "answer")
  /\ Is(p, "ok")
  /\ NextNumber
  /\ ApplyOk(p)
  /\ Consume(p)
  /\ Finish(TRUE)
  /\ UNCHANGED <<link, to_server, socket_, auth_plugin_name_, cmd, session,
                 disordered, connects>>

\* An error packet, or one whose first length read_lenenc_int() rejects.
AnswerFails(p) ==
  /\ Arrives(p, "answer")
  /\ p.kind \notin {"ok", "columns", "column"}
  /\ NextNumber
  /\ Consume(p)
  /\ CommandFails

\* The column count the packet is read as.  A column definition begins with
\* the length of "def"; a result set has one column in the model.
Counts(p) == CASE p.kind = "columns" -> {1}
               [] p.kind = "column"  -> {3}
               [] Opaque(p)          -> {1, 3}
               [] OTHER              -> {}

AnswerColumns(p) ==
  /\ Arrives(p, "answer")
  /\ NextNumber
  /\ Consume(p)
  /\ columns' \in Counts(p)
  /\ pc' = "columns"
  /\ reading' = Nothing
  /\ UNCHANGED <<link, to_server, socket_, backslash_escapes_, has_error_,
                 auth_plugin_name_, writing, cmd, session, disordered, connects>>

OneColumnMore == columns = 0

\* The packet just parsed was the last column definition.
LastColumn == columns = 1

\* Nothing but the shape of a packet tells a definition from another packet.
ColumnParsed(p) ==
  /\ Arrives(p, "columns")
  /\ p.kind # "err"
  /\ NextNumber
  /\ Consume(p)
  /\ columns' = columns - 1
  /\ pc' = IF LastColumn THEN "rows" ELSE "columns"
  /\ reading' = Nothing
  /\ UNCHANGED <<link, to_server, socket_, backslash_escapes_, has_error_,
                 auth_plugin_name_, writing, cmd, session, disordered, connects>>

ColumnFails(p) ==
  /\ Arrives(p, "columns")
  /\ p.kind # "column"
  /\ NextNumber
  /\ Consume(p)
  /\ CommandFails

RowParsed(p) ==
  /\ Arrives(p, "rows")
  /\ p.kind \notin {"err", "eof"}
  /\ NextNumber
  /\ Consume(p)
  /\ reading' = Nothing
  /\ UNCHANGED <<link, to_server, socket_, backslash_escapes_, has_error_,
                 auth_plugin_name_, pc, writing, columns, cmd, session, disordered,
                 connects>>

\* An error packet, or a payload that is no row of this result.
RowFails(p) ==
  /\ Arrives(p, "rows")
  /\ p.kind # "eof" /\ (p.kind = "row" => p.cmd # cmd)
  /\ NextNumber
  /\ Consume(p)
  /\ CommandFails

RowsEnd(p) ==
  /\ Arrives(p, "rows")
  /\ p.kind = "eof"
  /\ NextNumber
  /\ ApplyOk(p)
  /\ Consume(p)
  /\ Finish(TRUE)
  /\ UNCHANGED <<link, to_server, socket_, auth_plugin_name_, cmd, session,
                 disordered, connects>>

\* async_read() finds the connection at its end, or async_write() broken.
StreamFails ==
  /\ link = "broken"
  /\ \/ pc \in Reading /\ to_client = <<>>
     \/ pc = "write"
  /\ IF Connecting THEN ConnectFails
                   ELSE CommandFails /\ UNCHANGED <<to_client, spoiled, mixed>>
  /\ UNCHANGED <<sequence_id_, auth_plugin_name_>>

\* The caller's cancellation slot ends the wait with operation_aborted.
Cancelled ==
  /\ pc # "idle"
  /\ IF Connecting
       THEN ConnectFails
       ELSE /\ CommandFails
            /\ spoiled' = IF pc = "write" /\ ~writing.started THEN spoiled
                                                   ELSE spoiled \cup {"cancelled"}
            /\ UNCHANGED <<to_client, mixed>>
  /\ UNCHANGED <<sequence_id_, auth_plugin_name_>>

-----------------------------------------------------------------------------
(* The server and the network                                              *)

Pkt(kind, data) == [kind |-> kind, data |-> data, full |-> FALSE]

\* The frames that carry these packets, numbered from `number' on.
Frames(packets, number, id) ==
  [k \in 1..Len(packets) |->
     [kind |-> packets[k].kind, data |-> packets[k].data, full |-> packets[k].full,
      number |-> (number + k - 1) % Numbers, cmd |-> id]]

Mode(escapes) == IF escapes THEN "escapes" ELSE "no_escapes"

\* async_connect() succeeds: the server greets, or refuses another connection.
ConnectAccepted ==
  /\ pc = "resolve"
  /\ link' = "up"
  /\ pc' = "greeting"
  /\ \E escapes, legacy \in BOOLEAN,
        hello \in {Pkt("greeting", plugin) : plugin \in Plugins} \cup {Pkt("err", "")} :
       /\ session' = [NoSession EXCEPT !.phase = "auth", !.number = 1,
                                       !.escapes = escapes, !.legacy = legacy]
       /\ to_client' = Frames(<<hello>>, 0, 0)
  /\ UNCHANGED <<to_server, members, writing, reading, columns, cmd, history>>

\* What may follow the client's packets of the handshake.
AuthReplies(ask) ==
  IF ask = "public_key" THEN {<<Pkt("key", "")>>, <<Pkt("err", "")>>}
  ELSE {<<Pkt("ok", Mode(session.escapes))>>, <<Pkt("err", "")>>} \cup
       IF ask = "password" THEN {} ELSE
         {<<Pkt("fast_auth", ""), Pkt("ok", Mode(session.escapes))>>,
          <<Pkt("full_auth", "")>>} \cup
         IF session.switched THEN {}
                             ELSE {<<Pkt("switch", plugin)>> : plugin \in Plugins}

\* The terminator of the columns that CLIENT_DEPRECATE_EOF does away with; its
\* status flags are not where parse_ok_packet() looks for them.
LegacyEof == IF session.legacy THEN <<Pkt("eof", "")>> ELSE <<>>

Terminator == IF session.legacy THEN Pkt("eof", "")
                                ELSE Pkt("eof", Mode(session.escapes))

\* A result set of one column: with no row, a row, a row that fills its frame,
\* or an error after a row.
ResultSets ==
  {<<Pkt("columns", ""), Pkt("column", "")>> \o LegacyEof \o rows :
     rows \in {<<Terminator>>,
               <<Pkt("row", ""), Terminator>>,
               <<[Pkt("row", "") EXCEPT !.full = TRUE], Pkt("rest", ""), Terminator>>,
               <<Pkt("row", ""), Pkt("err", "")>>}}

Answers(ask) ==
  CASE ask = "ping"  -> {<<Pkt("ok", Mode(session.escapes))>>}
    [] ask = "query" -> ResultSets \cup {<<Pkt("ok", Mode(session.escapes))>>,
                                          <<Pkt("err", "")>>}
    [] ask = "mode"  -> {<<Pkt("ok", Mode(~session.escapes))>>, <<Pkt("err", "")>>}
    [] ask = "two_statements" ->
         {<<Pkt("ok", Mode(session.escapes))>> \o second :
            second \in ResultSets \cup {<<Pkt("ok", Mode(session.escapes))>>}}

\* Whether the client stops reading before the end of this answer.
Spoils(ask, answer) ==
  (IF ask = "two_statements" THEN {"two_statements"} ELSE {}) \cup
  (IF session.legacy /\ \E k \in DOMAIN answer : answer[k].kind = "columns"
     THEN {"legacy_eof"} ELSE {})

\* A frame arrives whose number is the expected one.
Takes(f) ==
  /\ link = "up" /\ to_server # <<>>
  /\ f = Head(to_server)
  /\ f.number = session.number
  /\ to_server' = Tail(to_server)
  /\ UNCHANGED <<link, members, frame, mixed, disordered, connects>>

\* What the packet that ends with frame f asks: its first frame says.
Asked(f) == IF session.ask = "nothing" THEN f.ask ELSE session.ask

ServerReadsChunk(f) ==
  /\ Takes(f)
  /\ f.full
  /\ session' = [session EXCEPT !.number = Succ(@), !.ask = Asked(f)]
  /\ UNCHANGED <<to_client, spoiled>>

ServerAuthenticates(f) ==
  /\ Takes(f)
  /\ ~f.full /\ session.phase = "auth"
  /\ \E reply \in AuthReplies(Asked(f)) :
       LET accepted == \E k \in DOMAIN reply : reply[k].kind = "ok"
       IN  /\ to_client' = to_client \o Frames(reply, f.number + 1, 0)
           /\ session' = [session EXCEPT
                !.phase = IF accepted THEN "command" ELSE @,
                !.number = IF accepted THEN 0
                                       ELSE (f.number + Len(reply) + 1) % Numbers,
                !.switched = @ \/ reply[1].kind = "switch"]
  /\ UNCHANGED spoiled

ServerAnswers(f) ==
  /\ Takes(f)
  /\ ~f.full /\ session.phase = "command"
  /\ \E answer \in Answers(Asked(f)) :
       /\ to_client' = to_client \o Frames(answer, f.number + 1, f.cmd)
       /\ spoiled' = spoiled \cup Spoils(Asked(f), answer)
       /\ session' = [session EXCEPT !.number = 0, !.ask = "nothing",
            !.escapes = IF Asked(f) = "mode" /\ answer[1].kind = "ok" THEN ~@ ELSE @]

\* Packets out of order: the server hangs up.
ServerHangsUp ==
  /\ link = "up" /\ to_server # <<>>
  /\ Head(to_server).number # session.number
  /\ link' = "broken" /\ to_server' = <<>> /\ session' = NoSession
  /\ disordered' = TRUE
  /\ UNCHANGED <<to_client, members, frame, spoiled, mixed, connects>>

\* The connection breaks, with or without what the server has sent.
LinkBreaks ==
  /\ link = "up"
  /\ link' = "broken" /\ to_server' = <<>> /\ session' = NoSession
  /\ to_client' \in {to_client, <<>>}
  /\ UNCHANGED <<members, frame, history>>

-----------------------------------------------------------------------------
InFlight == IF to_client = <<>> THEN {}
            ELSE {IF reading = Nothing THEN Head(to_client) ELSE reading}

ConnectStep ==
  \/ ConnectRefused
  \/ \E p \in InFlight : \/ Greeting(p) \/ AuthSwitch(p) \/ AuthMoreData(p)
                         \/ AuthKey(p) \/ AuthOk(p) \/ AuthFails(p)

CommandStep ==
  \E p \in InFlight : \/ AnswerOk(p) \/ AnswerFails(p) \/ AnswerColumns(p)
                      \/ ColumnParsed(p) \/ ColumnFails(p)
                      \/ RowParsed(p) \/ RowFails(p) \/ RowsEnd(p)

ClientStep ==
  WriteFrame \/ ReadChunk \/ StreamFails \/ ConnectStep \/ CommandStep

ServerStep ==
  \/ ConnectAccepted \/ ServerHangsUp
  \/ \E f \in {to_server[k] : k \in DOMAIN to_server} :
       ServerReadsChunk(f) \/ ServerAuthenticates(f) \/ ServerAnswers(f)

Ask == ConnectCall \/ Disconnect \/ CommandWithoutSocket
       \/ Command("ping", 1)
       \/ \E ask \in {"query", "mode", "two_statements"}, size \in Sizes :
            Command(ask, size)

Next == Ask \/ ClientStep \/ Cancelled \/ ServerStep \/ LinkBreaks

Spec == Init /\ [][Next]_vars

\* The executor completes every write and every read that can complete, and a
\* server that is connected answers: there is no timeout in the code that
\* could help against one that does not.
FairSpec == Spec /\ WF_vars(ClientStep) /\ WF_vars(ServerStep)

-----------------------------------------------------------------------------
(* Properties                                                              *)

\* Types; sequence numbers are one byte, and an operation waits for no more
\* columns than a result has.
TypeOK ==
  /\ link \in {"none", "up", "broken"}
  /\ \A k \in DOMAIN to_server : to_server[k].number \in 0..Numbers - 1
  /\ \A k \in DOMAIN to_client : to_client[k].number \in 0..Numbers - 1
  /\ socket_ \in BOOLEAN /\ backslash_escapes_ \in BOOLEAN /\ has_error_ \in BOOLEAN
  /\ sequence_id_ \in 0..Numbers - 1
  /\ auth_plugin_name_ \in Plugins
  /\ pc \in {"idle", "resolve", "write"} \cup Reading
  /\ writing.left \in Nat /\ columns \in 0..3 /\ cmd \in 0..MaxCommands
  /\ spoiled \subseteq {"cancelled", "two_statements", "legacy_eof"}

\* A command that has read its answer has read all of it: nothing is left in
\* flight, the server waits for the next command, and the client escapes
\* strings the way the session reads them, however often a statement has
\* switched the mode.  Only a cancelled command,
\* several statements in one text and a server with the old terminator of the
\* columns leave something behind; and the server hangs up over sequence numbers
\* only after a command that was cancelled between two of its frames.
InSync ==
  /\ pc = "idle" /\ link = "up" /\ spoiled = {} =>
       /\ to_server = <<>> /\ to_client = <<>>
       /\ session.phase = "command" /\ session.number = 0 /\ session.ask = "nothing"
       /\ backslash_escapes_ = session.escapes
  /\ disordered => "cancelled" \in spoiled

\* No operation takes the answer to another command for its own, not even the
\* first ones after a connect() that follows a broken connection, except where
\* an answer was left unread on the same connection.
AnswersOwnCommand == mixed => spoiled # {}

\* A socket is kept only by a connect() that was authenticated: every command
\* reaches a session that accepts commands.
CommandsAuthenticated ==
  socket_ /\ ~Connecting /\ link = "up" => session.phase = "command"

\* Every operation ends: the client never waits for a packet that no one sends.
\* With an unread answer before it a command may wait for ever.
OperationEnds == pc # "idle" ~> pc = "idle" \/ spoiled # {}
=============================================================================
