----------------------------- MODULE Transport ------------------------------
(***************************************************************************)
(* The client's end of a connection, byte by byte: proto_send_all,         *)
(* proto_read_line and proto_read_exact over the sockets of Winsock, with  *)
(* the receive buffer of ProtoClient between them, and the server's reads  *)
(* on the other end.                                                       *)
(*                                                                         *)
(* A script is what one session makes the two sides say, in order: lines   *)
(* and bodies, each with its direction.  TCP keeps the bytes in order but  *)
(* cuts them anywhere: recv returns any non-empty prefix of what has       *)
(* arrived, send takes any non-empty prefix of what it is given, a line    *)
(* may arrive without its end, or with the body that follows it.           *)
(***************************************************************************)
EXTENDS Integers, Sequences

CONSTANTS
    Byte,           \* what streams consist of
    CR, LF,         \* the two that end a line
    BufSize,        \* usable bytes of recv_buffer, 1024
    LineCapacity,   \* PROTO_LINE_CAPACITY, with the NUL at the end
    RecvMax,        \* most bytes one recv of a body asks for, 8192
    Scripts,        \* possible sessions
    MaxSessions     \* bound: sessions

Message == [kind : {"line", "body"}, to : {"client", "server"}, data : Seq(Byte)]

ASSUME ConstantsAssumption ==
    /\ CR \in Byte /\ LF \in Byte /\ CR # LF
    /\ BufSize \in Nat \ {0}
    /\ LineCapacity \in 1..BufSize - 1      \* 512, and 1024 of recv_buffer
    /\ RecvMax \in Nat \ {0}
    /\ MaxSessions \in Nat
    /\ Scripts \subseteq Seq(Message)

\* A line has no newline in it, nor a carriage return at its end: both programs
\* format it from keywords, numbers and hexadecimal paths, and a version of an
\* update has no white space (main.rs:1082).
LinesAssumption ==
    \A s \in Scripts : \A i \in 1..Len(s) : s[i].kind = "line" =>
        /\ \A j \in 1..Len(s[i].data) : s[i].data[j] # LF
        /\ s[i].data # <<>> => s[i].data[Len(s[i].data)] # CR
ASSUME LinesAssumption

VARIABLES
    script,         \* the session's messages
    at, srv,        \* the message the client, the server is at
    conn,           \* socket_handle is valid
    link,           \* TCP still works
    toClient,       \* bytes under way
    toServer,
    buf,            \* recv_buffer[0 .. recv_len)
    target,         \* bytes proto_read_exact has copied
    put,            \* bytes of the current message that send has taken
    clientGot, serverGot, \* messages read
    sessions,       \* sessions so far
    sent, taken     \* history: bytes sent to the client, bytes its reads returned

vars == <<script, at, srv, conn, link, toClient, toServer, buf, target, put,
          clientGot, serverGot, sessions, sent, taken>>

Min2(a, b) == IF a < b THEN a ELSE b

Front(s, n) == SubSeq(s, 1, n)
After(s, n) == SubSeq(s, n + 1, Len(s))

HasLine(s) == \E i \in 1..Len(s) : s[i] = LF

\* The first newline, which the loop over recv_buffer stops at.
Newline(s) == CHOOSE i \in 1..Len(s) : s[i] = LF /\ \A j \in 1..(i - 1) : s[j] # LF

\* The line before the newline at i, without the carriage return.
LineAt(s, i) == IF i > 1 /\ s[i - 1] = CR THEN Front(s, i - 2) ELSE Front(s, i - 1)

\* How a message travels.
Encode(m) == IF m.kind = "line" THEN m.data \o <<CR, LF>> ELSE m.data

Init ==
    /\ script = <<>> /\ at = 1 /\ srv = 1
    /\ conn = FALSE /\ link = FALSE
    /\ toClient = <<>> /\ toServer = <<>>
    /\ buf = <<>> /\ target = <<>> /\ put = 0
    /\ clientGot = <<>> /\ serverGot = <<>>
    /\ sessions = 0
    /\ sent = <<>> /\ taken = <<>>

-----------------------------------------------------------------------------
(* The connection.                                                         *)

\* Mistake: recv_len survives the connection.
FlushBufferNot == UNCHANGED buf

\* proto_client_disconnect forgets what the buffer holds.
FlushBuffer == buf' = <<>>

\* proto_connect, which disconnects first.
Connect ==
    /\ ~conn
    /\ sessions < MaxSessions
    /\ script' \in Scripts
    /\ at' = 1 /\ srv' = 1
    /\ conn' = TRUE /\ link' = TRUE
    /\ toClient' = <<>> /\ toServer' = <<>>
    /\ FlushBuffer
    /\ target' = <<>> /\ put' = 0
    /\ clientGot' = <<>> /\ serverGot' = <<>>
    /\ sessions' = sessions + 1
    /\ sent' = <<>> /\ taken' = <<>>

\* Every failed read or send ends the session, and so does its last message.
Hangup ==
    /\ conn' = FALSE
    /\ FlushBuffer
    /\ target' = <<>> /\ put' = 0
    /\ UNCHANGED <<script, at, srv, link, toClient, toServer, clientGot,
                   serverGot, sessions, sent, taken>>

ConnectionLost ==
    /\ link
    /\ link' = FALSE
    /\ UNCHANGED <<script, at, srv, conn, toClient, toServer, buf, target, put,
                   clientGot, serverGot, sessions, sent, taken>>

-----------------------------------------------------------------------------
(* The client.                                                             *)

Current == script[at]
Busy(kind, to) == /\ conn /\ at <= Len(script)
                  /\ Current.kind = kind /\ Current.to = to

\* proto_read_line with a newline in the buffer.
ReadLine ==
    /\ Busy("line", "client") /\ HasLine(buf)
    /\ LET i == Newline(buf) IN
       /\ Len(LineAt(buf, i)) + 1 <= LineCapacity
       /\ clientGot' = Append(clientGot, LineAt(buf, i))
       /\ taken' = taken \o Front(buf, i)
       /\ buf' = After(buf, i)
    /\ at' = at + 1
    /\ UNCHANGED <<script, srv, conn, link, toClient, toServer, target, put,
                   serverGot, sessions, sent>>

\* Mistake: the carriage return counts.
LineTooLongCounted ==
    /\ Busy("line", "client") /\ HasLine(buf)
    /\ Newline(buf) > LineCapacity
    /\ Hangup

LineTooLong ==
    /\ Busy("line", "client") /\ HasLine(buf)
    /\ Len(LineAt(buf, Newline(buf))) + 1 > LineCapacity
    /\ Hangup

\* Mistake: recv may fill the whole buffer behind the bytes it holds.
RecvLineOverruns ==
    /\ Busy("line", "client") /\ ~HasLine(buf) /\ Len(buf) < BufSize
    /\ \E n \in 1..Min2(Len(toClient), BufSize) :
        /\ buf' = buf \o Front(toClient, n)
        /\ toClient' = After(toClient, n)
    /\ UNCHANGED <<script, at, srv, conn, link, toServer, target, put,
                   clientGot, serverGot, sessions, sent, taken>>

\* proto_read_line without one: recv appends to the buffer.
RecvLine ==
    /\ Busy("line", "client") /\ ~HasLine(buf) /\ Len(buf) < BufSize
    /\ \E n \in 1..Min2(Len(toClient), BufSize - Len(buf)) :
        /\ buf' = buf \o Front(toClient, n)
        /\ toClient' = After(toClient, n)
    /\ UNCHANGED <<script, at, srv, conn, link, toServer, target, put,
                   clientGot, serverGot, sessions, sent, taken>>

\* Mistake: a full buffer is not noticed, and recv is asked for no bytes.
BufferFullUnnoticed ==
    /\ Busy("line", "client") /\ ~HasLine(buf) /\ Len(buf) > BufSize
    /\ Hangup

BufferFull ==
    /\ Busy("line", "client") /\ ~HasLine(buf) /\ Len(buf) >= BufSize
    /\ Hangup

Wanted == Len(Current.data) - Len(target)

\* proto_read_exact takes what proto_read_line has left in the buffer, ...
DrainBuffer ==
    /\ Busy("body", "client") /\ Wanted > 0 /\ buf # <<>>
    /\ LET n == Min2(Len(buf), Wanted) IN
       /\ target' = target \o Front(buf, n)
       /\ buf' = After(buf, n)
    /\ UNCHANGED <<script, at, srv, conn, link, toClient, toServer, put,
                   clientGot, serverGot, sessions, sent, taken>>

\* Mistake: it asks for as much as fits, not for what is missing.
RecvBodyGreedy ==
    /\ Busy("body", "client") /\ Wanted > 0 /\ buf = <<>>
    /\ \E n \in 1..Min2(Len(toClient), RecvMax) :
        /\ target' = target \o Front(toClient, n)
        /\ toClient' = After(toClient, n)
    /\ UNCHANGED <<script, at, srv, conn, link, toServer, buf, put,
                   clientGot, serverGot, sessions, sent, taken>>

\* ... and then receives into the caller's memory.
RecvBody ==
    /\ Busy("body", "client") /\ Wanted > 0 /\ buf = <<>>
    /\ \E n \in 1..Min2(Len(toClient), Min2(RecvMax, Wanted)) :
        /\ target' = target \o Front(toClient, n)
        /\ toClient' = After(toClient, n)
    /\ UNCHANGED <<script, at, srv, conn, link, toServer, buf, put,
                   clientGot, serverGot, sessions, sent, taken>>

ReadExact ==
    /\ Busy("body", "client") /\ Wanted <= 0
    /\ clientGot' = Append(clientGot, target)
    /\ taken' = taken \o target
    /\ target' = <<>>
    /\ at' = at + 1
    /\ UNCHANGED <<script, srv, conn, link, toClient, toServer, buf, put,
                   serverGot, sessions, sent>>

\* recv reports the end of the connection instead of bytes.
RecvFails ==
    /\ ~link
    /\ \/ Busy("line", "client") /\ ~HasLine(buf)
       \/ Busy("body", "client") /\ Wanted > 0 /\ buf = <<>>
    /\ Hangup

\* proto_send_all, of a line (proto_send_line) or of a body.
Sending == \E kind \in {"line", "body"} : Busy(kind, "server")

Send ==
    /\ Sending /\ put < Len(Encode(Current))
    /\ \E n \in (put + 1)..Len(Encode(Current)) :
        /\ toServer' = toServer \o SubSeq(Encode(Current), put + 1, n)
        /\ put' = n
    /\ UNCHANGED <<script, at, srv, conn, link, toClient, buf, target,
                   clientGot, serverGot, sessions, sent, taken>>

SendDone ==
    /\ Sending /\ put = Len(Encode(Current))
    /\ at' = at + 1 /\ put' = 0
    /\ UNCHANGED <<script, srv, conn, link, toClient, toServer, buf, target,
                   clientGot, serverGot, sessions, sent, taken>>

SendFails == ~link /\ Sending /\ put < Len(Encode(Current)) /\ Hangup

SessionDone == conn /\ at > Len(script) /\ Hangup

-----------------------------------------------------------------------------
(* The server.                                                             *)

SrvAt(to) == srv <= Len(script) /\ script[srv].to = to

SrvSend ==
    /\ link /\ SrvAt("client")
    /\ toClient' = toClient \o Encode(script[srv])
    /\ sent' = sent \o Encode(script[srv])
    /\ srv' = srv + 1
    /\ UNCHANGED <<script, at, conn, link, toServer, buf, target, put,
                   clientGot, serverGot, sessions, taken>>

\* read_line and copy_exact of the server.
SrvRead ==
    /\ SrvAt("server")
    /\ LET m == script[srv]
           n == IF m.kind = "body" THEN Len(m.data) ELSE Newline(toServer)
       IN /\ IF m.kind = "body" THEN Len(toServer) >= n ELSE HasLine(toServer)
          /\ serverGot' = Append(serverGot, IF m.kind = "body" THEN Front(toServer, n)
                                                               ELSE LineAt(toServer, n))
          /\ toServer' = After(toServer, n)
    /\ srv' = srv + 1
    /\ UNCHANGED <<script, at, conn, link, toClient, buf, target, put,
                   clientGot, sessions, sent, taken>>

CliStep ==
    \/ ReadLine \/ LineTooLong \/ RecvLine \/ BufferFull
    \/ DrainBuffer \/ RecvBody \/ ReadExact \/ RecvFails
    \/ Send \/ SendDone \/ SendFails \/ SessionDone

SrvStep == SrvSend \/ SrvRead

Next == Connect \/ CliStep \/ SrvStep \/ ConnectionLost

Spec == Init /\ [][Next]_vars

\* Both programs run; a recv that has bytes returns.
FairSpec == Spec /\ WF_vars(CliStep) /\ WF_vars(SrvStep)

-----------------------------------------------------------------------------
(* Properties.                                                             *)

\* Types; the buffer never holds more than fits (recv_buffer, proto.h).
TypeInv ==
    /\ script \in Seq(Message)
    /\ at \in Nat \ {0} /\ srv \in Nat \ {0}
    /\ conn \in BOOLEAN /\ link \in BOOLEAN
    /\ toClient \in Seq(Byte) /\ toServer \in Seq(Byte)
    /\ buf \in Seq(Byte) /\ Len(buf) <= BufSize
    /\ target \in Seq(Byte)
    /\ put \in Nat
    /\ clientGot \in Seq(Seq(Byte)) /\ serverGot \in Seq(Seq(Byte))
    /\ sessions \in Nat
    /\ sent \in Seq(Byte) /\ taken \in Seq(Byte)

\* However the stream is cut and whichever of the two readers takes a byte,
\* none is lost, doubled or moved: what reads have returned, what a body read
\* has copied, what the buffer holds and what is under way are, in this
\* order, the bytes that were sent.
Conserved == conn => ((taken \o target) \o buf) \o toClient = sent

\* The parts from the first to the n-th, joined, for each n.
Joined(N, part) ==
    LET joined[n \in 0..N] == IF n = 0 THEN <<>> ELSE joined[n - 1] \o part[n]
    IN  joined

\* What the messages of a script tell one side.
Told(s, to) == Joined(Len(s), [i \in 1..Len(s) |-> IF s[i].to = to THEN <<s[i].data>> ELSE <<>>])
AllTold(s, to) == Told(s, to)[Len(s)]
Rest(s, n)     == SubSeq(s, n + 1, Len(s))

\* Each side gets the messages of the other whole and in order: the code
\* implements MessageStream.
Messages == INSTANCE MessageStream WITH
    Conversations <- {[down |-> AllTold(s, "client"), up |-> AllTold(s, "server")] : s \in Scripts},
    down  <- Rest(AllTold(script, "client"), Len(clientGot)),
    up    <- Rest(AllTold(script, "server"), Len(serverGot)),
    alive <- conn

DeliversMessages == Messages!Spec

\* A session is broken off only for a lost connection or a line that is too
\* long: no way of cutting the stream makes "Empfangspuffer voll" or
\* "Antwort zu lang" out of lines that fit.
Unbroken == conn /\ ~conn' /\ at <= Len(script)
BreaksForCause ==
    [][Unbroken => \/ ~link
                   \/ Current.kind = "line" /\ Len(Current.data) >= LineCapacity]_vars

\* Every session ends: no read waits for bytes that it holds already or has
\* no room for.
SessionEnds == conn ~> ~conn
=============================================================================
