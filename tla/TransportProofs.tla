-------------------------- MODULE TransportProofs ---------------------------
(* No byte of a stream is lost, doubled or moved between the socket, the      *)
(* receive buffer and the two readers, and every line and body arrives whole  *)
(* and in order, for all sessions, all sizes and all ways of cutting.         *)
EXTENDS Transport, Iteration, SequenceTheorems, TLAPS

\* There is a first newline in a sequence that has one.
LEMMA NewlineFirst ==
    ASSUME NEW s \in Seq(Byte), HasLine(s)
    PROVE  /\ Newline(s) \in 1..Len(s) /\ s[Newline(s)] = LF
           /\ \A j \in 1..(Newline(s) - 1) : s[j] # LF
<1> DEFINE T == {i \in 1..Len(s) : s[i] = LF}
<1>1. T \subseteq Nat /\ T # {}
  BY DEF HasLine
<1>2. PICK x \in T : \A y \in T : x <= y
  <2> HIDE DEF T
  <2> QED
    BY <1>1, Smallest
<1>3. ASSUME NEW j \in 1..(x - 1), s[j] = LF
      PROVE  FALSE
  <2>1. Len(s) \in Nat /\ x \in 1..Len(s)
    BY <1>2, LenProperties
  <2>2. j \in T /\ ~ (x <= j)
    BY <1>3, <2>1
  <2> QED
    BY <1>2, <2>2
<1> QED
  BY <1>2, <1>3 DEF Newline

\* A sequence is its first n elements followed by the others.
LEMMA Cut ==
    ASSUME NEW s \in Seq(Byte), NEW n \in 0..Len(s)
    PROVE  /\ Front(s, n) \in Seq(Byte) /\ Len(Front(s, n)) = n
           /\ After(s, n) \in Seq(Byte) /\ Len(After(s, n)) = Len(s) - n
           /\ Front(s, n) \o After(s, n) = s
<1>1. Len(s) \in Nat /\ \A i \in 1..Len(s) : s[i] \in Byte
  BY LenProperties, ElementOfSeq
<1>2. Front(s, n) \in Seq(Byte) /\ Len(Front(s, n)) = n
  BY <1>1, SubSeqProperties DEF Front
<1>3. After(s, n) \in Seq(Byte) /\ Len(After(s, n)) = Len(s) - n
  BY <1>1, SubSeqProperties DEF After
<1>4. Front(s, n) \o After(s, n) = SubSeq(s, 1, Len(s))
  <2>1. 1 \in 1..(Len(s) + 1) /\ n \in (1 - 1)..Len(s) /\ Len(s) \in n..Len(s)
    BY <1>1
  <2>2. SubSeq(s, 1, n) \o SubSeq(s, n + 1, Len(s)) = SubSeq(s, 1, Len(s))
    BY <2>1, ConcatAdjacentSubSeq, Zenon
  <2> QED BY <2>2 DEF Front, After
<1> QED BY <1>2, <1>3, <1>4, SubSeqFull

\* A line is a sequence of bytes.
LEMMA LineType ==
    ASSUME NEW s \in Seq(Byte), NEW i \in 1..Len(s)
    PROVE  LineAt(s, i) \in Seq(Byte)
<1>1. Len(s) \in Nat /\ \A j \in 1..Len(s) : s[j] \in Byte
  BY LenProperties, ElementOfSeq
<1>2. SubSeq(s, 1, i - 1) \in Seq(Byte)
  BY <1>1, SubSeqProperties
<1>3. SubSeq(s, 1, i - 2) \in Seq(Byte)
  BY <1>1, SubSeqProperties
<1> QED BY <1>2, <1>3 DEF LineAt, Front

\* The three parts of a stream that a step moves bytes between, and the rest.
LEMMA Regroup ==
    ASSUME NEW a \in Seq(Byte), NEW b \in Seq(Byte), NEW c \in Seq(Byte)
    PROVE  (a \o b) \o c = a \o (b \o c) /\ a \o b \in Seq(Byte)
           /\ <<>> \in Seq(Byte) /\ a \o <<>> = a /\ <<>> \o a = a
<1>1. (a \o b) \o c = a \o (b \o c)
  BY ConcatAssociative
<1>2. a \o b \in Seq(Byte)
  BY ConcatProperties
<1>3. a \o <<>> = a /\ <<>> \o a = a
  BY ConcatEmptySeq
<1> QED BY <1>1, <1>2, <1>3, EmptySeq

LEMMA Associative ==
    \A a, b, c \in Seq(Byte) : a \o (b \o c) = (a \o b) \o c
BY Regroup, SMTT(30)

\* Bytes may move from one of two neighbours to the other.
LEMMA Move ==
    ASSUME NEW a \in Seq(Byte), NEW s \in Seq(Byte), NEW n \in 0..Len(s)
    PROVE  (a \o Front(s, n)) \o After(s, n) = a \o s
<1> DEFINE f == Front(s, n)
           r == After(s, n)
<1>1. f \in Seq(Byte) /\ r \in Seq(Byte) /\ f \o r = s
  BY Cut
<1> HIDE DEF f, r
<1>2. a \o (f \o r) = (a \o f) \o r
  BY <1>1, Associative, ZenonT(60)
<1> QED BY <1>1, <1>2 DEF f, r

LEMMA EncodeType ==
    ASSUME ConstantsAssumption, NEW m \in Message
    PROVE  Encode(m) \in Seq(Byte) /\ m.data \in Seq(Byte)
<1>1. <<CR, LF>> \in Seq(Byte)
  BY DEF ConstantsAssumption
<1>2. m.data \in Seq(Byte)
  BY DEF Message
<1> QED BY <1>1, <1>2, ConcatProperties DEF Encode

\* The message a side is at is a message.
LEMMA AtMessage ==
    ASSUME TypeInv, NEW i \in Nat \ {0}, i <= Len(script)
    PROVE  script[i] \in Message
BY ElementOfSeq, LenProperties DEF TypeInv

\* While a body is read, the number of bytes still missing is a number.
LEMMA WantedType ==
    ASSUME ConstantsAssumption, TypeInv, Busy("body", "client"), Wanted > 0
    PROVE  Wanted \in Nat
<1>1. Current \in Message
  BY AtMessage DEF Busy, Current, TypeInv
<1>2. Len(Current.data) \in Nat /\ Len(target) \in Nat
  BY <1>1, EncodeType, LenProperties DEF TypeInv
<1> QED BY <1>2 DEF Wanted

\* A recv of a body takes no more than has arrived.
LEMMA BodyBytes ==
    ASSUME NEW l \in Nat, NEW r \in Nat, NEW w \in Nat,
           NEW n \in 1..Min2(l, Min2(r, w))
    PROVE  n \in 0..l
<1>1. Min2(r, w) \in Nat
  BY DEF Min2
<1> QED BY <1>1 DEF Min2

-----------------------------------------------------------------------------
\* The type invariant (recv_buffer of proto.h among it) holds in every state.
THEOREM TransportTypes == ASSUME ConstantsAssumption PROVE Spec => []TypeInv
<1>1. Init => TypeInv
  <2> SUFFICES ASSUME Init PROVE TypeInv
    OBVIOUS
  <2>1. <<>> \in Seq(Byte) /\ <<>> \in Seq(Message) /\ <<>> \in Seq(Seq(Byte)) /\ Len(<<>>) = 0
    BY EmptySeq
  <2>2. Len(buf) <= BufSize
    BY <2>1 DEF Init, ConstantsAssumption
  <2>3. script \in Seq(Message) /\ clientGot \in Seq(Seq(Byte)) /\ serverGot \in Seq(Seq(Byte))
    BY <2>1 DEF Init
  <2>4. /\ toClient \in Seq(Byte) /\ toServer \in Seq(Byte) /\ buf \in Seq(Byte)
        /\ target \in Seq(Byte) /\ sent \in Seq(Byte) /\ taken \in Seq(Byte)
    BY <2>1 DEF Init
  <2>5. at \in Nat \ {0} /\ srv \in Nat \ {0} /\ put \in Nat /\ sessions \in Nat
    BY SMT DEF Init
  <2>6. conn \in BOOLEAN /\ link \in BOOLEAN
    BY Zenon DEF Init
  <2> QED BY <2>2, <2>3, <2>4, <2>5, <2>6 DEF TypeInv
<1>2. TypeInv /\ [Next]_vars => TypeInv'
  <2> SUFFICES ASSUME ConstantsAssumption, TypeInv, [Next]_vars PROVE TypeInv'
    OBVIOUS
  <2>0. /\ Len(buf) \in Nat /\ Len(toClient) \in Nat /\ Len(toServer) \in Nat
        /\ Len(script) \in Nat /\ Len(target) \in Nat
        /\ <<>> \in Seq(Byte) /\ <<>> \in Seq(Seq(Byte)) /\ Len(<<>>) = 0
        /\ BufSize \in Nat /\ RecvMax \in Nat
    BY LenProperties, EmptySeq DEF TypeInv, ConstantsAssumption
  <2>h. ASSUME Hangup PROVE TypeInv'
    <3>1. buf' = <<>> /\ target' = <<>> /\ Len(buf') <= BufSize
      BY <2>h, <2>0 DEF Hangup, FlushBuffer
    <3> QED BY <2>h, <2>0, <3>1 DEF TypeInv, Hangup
  <2>1. CASE Connect
    BY <2>1, <2>0 DEF TypeInv, Connect, FlushBuffer, ConstantsAssumption
  <2>2. CASE ReadLine
    <3>1. HasLine(buf)
      BY <2>2 DEF ReadLine
    <3> DEFINE i == Newline(buf)
    <3>2. i \in 1..Len(buf)
      BY <3>1, NewlineFirst DEF TypeInv
    <3>a. i \in 0..Len(buf) /\ buf \in Seq(Byte)
      BY <2>0, <3>2 DEF TypeInv
    <3>b. LineAt(buf, i) \in Seq(Byte)
      BY <3>2, <3>a, LineType
    <3>3. /\ Front(buf, i) \in Seq(Byte)
          /\ After(buf, i) \in Seq(Byte) /\ Len(After(buf, i)) = Len(buf) - i
          /\ LineAt(buf, i) \in Seq(Byte)
      BY <3>a, <3>b, Cut
    <3>4. taken \o Front(buf, i) \in Seq(Byte)
      BY <3>3, ConcatProperties DEF TypeInv
    <3>5. Append(clientGot, LineAt(buf, i)) \in Seq(Seq(Byte))
      BY <3>3, AppendProperties DEF TypeInv
    <3>6. buf' = After(buf, i) /\ Len(buf') <= BufSize
      <4>1. buf' = After(buf, i)
        BY <2>2 DEF ReadLine
      <4>2. Len(buf) - i \in Nat /\ Len(buf) - i <= BufSize
        BY <2>0, <3>a DEF TypeInv
      <4> QED
        BY <3>3, <4>1, <4>2
    <3> QED BY <2>2, <3>3, <3>4, <3>5, <3>6 DEF ReadLine, TypeInv
  <2>3. CASE LineTooLong
    BY <2>3, <2>h DEF LineTooLong
  <2>4. CASE RecvLine
    <3>1. PICK n \in 1..Min2(Len(toClient), BufSize - Len(buf)) :
            buf' = buf \o Front(toClient, n) /\ toClient' = After(toClient, n)
      BY <2>4 DEF RecvLine
    <3>2. n \in 0..Len(toClient) /\ n <= BufSize - Len(buf)
      BY <2>0, <2>4, <3>1 DEF Min2, RecvLine
    <3>3. /\ Front(toClient, n) \in Seq(Byte) /\ Len(Front(toClient, n)) = n
          /\ After(toClient, n) \in Seq(Byte)
      BY <3>2, Cut DEF TypeInv
    <3>4. buf' \in Seq(Byte) /\ Len(buf') = Len(buf) + n
      BY <3>1, <3>3, ConcatProperties DEF TypeInv
    <3>5. Len(buf') <= BufSize
      BY <2>0, <3>2, <3>4
    <3> QED BY <2>4, <3>1, <3>3, <3>4, <3>5 DEF RecvLine, TypeInv
  <2>5. CASE BufferFull
    BY <2>5, <2>h DEF BufferFull
  <2>6. CASE DrainBuffer
    <3> DEFINE n == Min2(Len(buf), Wanted)
    <3>1. Wanted \in Nat
      BY <2>6, WantedType DEF DrainBuffer
    <3>2. n \in 0..Len(buf)
      BY <2>0, <3>1 DEF Min2
    <3>3. /\ Front(buf, n) \in Seq(Byte)
          /\ After(buf, n) \in Seq(Byte) /\ Len(After(buf, n)) = Len(buf) - n
      BY <3>2, Cut DEF TypeInv
    <3>4. target' = target \o Front(buf, n) /\ buf' = After(buf, n)
      BY <2>6 DEF DrainBuffer
    <3>5. target' \in Seq(Byte)
      BY <3>3, <3>4, ConcatProperties DEF TypeInv
    <3>6. Len(buf') <= BufSize
      BY <2>0, <3>2, <3>3, <3>4, SMTT(30) DEF TypeInv
    <3> QED BY <2>6, <3>3, <3>4, <3>5, <3>6 DEF DrainBuffer, TypeInv
  <2>7. CASE RecvBody
    <3>1. PICK n \in 1..Min2(Len(toClient), Min2(RecvMax, Wanted)) :
            target' = target \o Front(toClient, n) /\ toClient' = After(toClient, n)
      BY <2>7 DEF RecvBody
    <3>2. n \in 0..Len(toClient)
      <4>1. Wanted \in Nat
        BY <2>7, WantedType DEF RecvBody
      <4> QED BY <2>0, <3>1, <4>1, BodyBytes
    <3>3. Front(toClient, n) \in Seq(Byte) /\ After(toClient, n) \in Seq(Byte)
      BY <3>2, Cut DEF TypeInv
    <3>4. target' \in Seq(Byte)
      BY <3>1, <3>3, ConcatProperties DEF TypeInv
    <3> QED BY <2>7, <3>1, <3>3, <3>4 DEF RecvBody, TypeInv
  <2>8. CASE ReadExact
    <3>1. taken \o target \in Seq(Byte) /\ Append(clientGot, target) \in Seq(Seq(Byte))
      BY ConcatProperties, AppendProperties DEF TypeInv
    <3> QED BY <2>8, <2>0, <3>1 DEF ReadExact, TypeInv
  <2>9. CASE RecvFails
    BY <2>9, <2>h DEF RecvFails
  <2>10. CASE Send
    <3>1. Current \in Message
      BY <2>10, AtMessage DEF Send, Sending, Busy, Current, TypeInv
    <3>2. Encode(Current) \in Seq(Byte) /\ Len(Encode(Current)) \in Nat
      BY <3>1, EncodeType, LenProperties
    <3>3. PICK n \in (put + 1)..Len(Encode(Current)) :
            toServer' = toServer \o SubSeq(Encode(Current), put + 1, n) /\ put' = n
      BY <2>10 DEF Send
    <3> DEFINE e == Encode(Current)
    <3>4. put \in Nat /\ n \in Nat /\ \A i \in (put + 1)..n : e[i] \in Byte
      <4>1. e \in Seq(Byte) /\ Len(e) \in Nat /\ n \in (put + 1)..Len(e) /\ put \in Nat
        BY <3>2, <3>3 DEF TypeInv
      <4> HIDE DEF e
      <4>2. \A i \in (put + 1)..n : i \in 1..Len(e)
        BY <4>1
      <4>3. \A i \in 1..Len(e) : e[i] \in Byte
        BY <4>1, ElementOfSeq
      <4> QED BY <4>1, <4>2, <4>3
    <3>5. SubSeq(Encode(Current), put + 1, n) \in Seq(Byte)
      BY <3>4, SubSeqProperties
    <3>6. toServer' \in Seq(Byte)
      BY <3>3, <3>5, ConcatProperties DEF TypeInv
    <3> QED BY <2>10, <3>3, <3>4, <3>6 DEF Send, TypeInv
  <2>11. CASE SendDone
    BY <2>11 DEF SendDone, TypeInv
  <2>12. CASE SendFails
    BY <2>12, <2>h DEF SendFails
  <2>13. CASE SessionDone
    BY <2>13, <2>h DEF SessionDone
  <2>14. CASE SrvSend
    <3>1. Encode(script[srv]) \in Seq(Byte)
      BY <2>14, AtMessage, EncodeType DEF SrvSend, SrvAt, TypeInv
    <3>2. /\ toClient \o Encode(script[srv]) \in Seq(Byte)
          /\ sent \o Encode(script[srv]) \in Seq(Byte)
      BY <3>1, ConcatProperties DEF TypeInv
    <3> QED BY <2>14, <3>2 DEF SrvSend, TypeInv
  <2>15. CASE SrvRead
    <3> DEFINE m == script[srv]
               n == IF m.kind = "body" THEN Len(m.data) ELSE Newline(toServer)
    <3>1. m \in Message
      BY <2>15, AtMessage DEF SrvRead, SrvAt, TypeInv
    <3>2. n \in 0..Len(toServer)
      <4>1. Len(m.data) \in Nat
        BY <3>1, EncodeType, LenProperties
      <4>2. CASE m.kind = "body"
        BY <2>0, <2>15, <4>1, <4>2 DEF SrvRead
      <4>3. CASE m.kind # "body"
        <5>1. HasLine(toServer)
          BY <2>15, <4>3 DEF SrvRead
        <5> QED BY <2>0, <4>3, <5>1, NewlineFirst DEF TypeInv
      <4> QED BY <4>2, <4>3
    <3>3. Front(toServer, n) \in Seq(Byte) /\ After(toServer, n) \in Seq(Byte)
      BY <3>2, Cut DEF TypeInv
    <3>4. m.kind # "body" => LineAt(toServer, n) \in Seq(Byte)
      <4>1. SUFFICES ASSUME m.kind # "body" PROVE n \in 1..Len(toServer)
        BY LineType DEF TypeInv
      <4>2. HasLine(toServer)
        BY <2>15, <4>1 DEF SrvRead
      <4> QED BY <4>1, <4>2, NewlineFirst DEF TypeInv
    <3>5. /\ serverGot' = Append(serverGot, IF m.kind = "body" THEN Front(toServer, n)
                                                              ELSE LineAt(toServer, n))
          /\ toServer' = After(toServer, n)
      BY <2>15 DEF SrvRead
    <3>6. serverGot' \in Seq(Seq(Byte))
      BY <3>3, <3>4, <3>5, AppendProperties DEF TypeInv
    <3> QED BY <2>15, <3>3, <3>5, <3>6 DEF SrvRead, TypeInv
  <2>16. CASE ConnectionLost
    BY <2>16 DEF ConnectionLost, TypeInv
  <2>17. CASE UNCHANGED vars
    BY <2>17 DEF TypeInv, vars
  <2> QED BY <2>1, <2>2, <2>3, <2>4, <2>5, <2>6, <2>7, <2>8, <2>9, <2>10, <2>11,
             <2>12, <2>13, <2>14, <2>15, <2>16, <2>17 DEF Next, CliStep, SrvStep
<1> QED BY <1>1, <1>2, PTL DEF Spec

-----------------------------------------------------------------------------
\* A body read in progress is the only time that bytes are in the caller's
\* memory: what makes Conserved inductive.
TargetOnlyInBody == conn /\ target # <<>> => Busy("body", "client")

\* No step loses, doubles or moves a byte on its way to the client.
THEOREM TransportConserves == ASSUME ConstantsAssumption PROVE Spec => []Conserved
<1> DEFINE IInv == Conserved /\ TargetOnlyInBody
<1>1. Init => IInv
  BY Zenon DEF Init, Conserved, TargetOnlyInBody
<1>2. TypeInv /\ IInv /\ [Next]_vars => IInv'
  <2> SUFFICES ASSUME ConstantsAssumption, TypeInv, Conserved, TargetOnlyInBody, [Next]_vars
               PROVE  Conserved' /\ TargetOnlyInBody'
    OBVIOUS
  <2>0. /\ buf \in Seq(Byte) /\ target \in Seq(Byte) /\ taken \in Seq(Byte)
        /\ toClient \in Seq(Byte) /\ sent \in Seq(Byte) /\ taken \o target \in Seq(Byte)
        /\ (taken \o target) \o buf \in Seq(Byte) /\ <<>> \in Seq(Byte)
    BY Regroup DEF TypeInv
  <2>h. ASSUME Hangup PROVE Conserved' /\ TargetOnlyInBody'
    BY <2>h DEF Hangup, Conserved, TargetOnlyInBody
  <2>1. CASE Connect
    <3>1. /\ taken' = <<>> /\ target' = <<>> /\ buf' = <<>> /\ toClient' = <<>> /\ sent' = <<>>
      BY <2>1 DEF Connect, FlushBuffer
    <3>2. ((<<>> \o <<>>) \o <<>>) \o <<>> = <<>>
      BY <2>0, Regroup
    <3> QED BY <3>1, <3>2 DEF Conserved, TargetOnlyInBody
  <2>2. CASE ReadLine
    <3> DEFINE i == Newline(buf)
    <3>1. i \in 0..Len(buf)
      <4>1. i \in 1..Len(buf)
        BY <2>0, <2>2, NewlineFirst DEF ReadLine
      <4> QED BY <2>0, <4>1, LenProperties
    <3>2. target = <<>> /\ conn
      BY <2>2 DEF ReadLine, Busy, TargetOnlyInBody
    <3>3. /\ taken' = taken \o Front(buf, i) /\ buf' = After(buf, i)
          /\ target' = target /\ toClient' = toClient /\ sent' = sent
      BY <2>2 DEF ReadLine
    <3>4. Front(buf, i) \in Seq(Byte) /\ (taken \o Front(buf, i)) \o After(buf, i) = taken \o buf
      BY <2>0, <3>1, Cut, Move
    <3>5. taken \o target = taken /\ taken' \o target' = taken'
      BY <2>0, <3>2, <3>3, <3>4, Regroup
    <3>6. (taken' \o target') \o buf' = (taken \o target) \o buf
      BY <3>3, <3>4, <3>5
    <3> QED BY <3>2, <3>3, <3>6 DEF Conserved, TargetOnlyInBody
  <2>3. CASE LineTooLong
    BY <2>3, <2>h DEF LineTooLong
  <2>4. CASE RecvLine
    <3>1. PICK n \in 1..Min2(Len(toClient), BufSize - Len(buf)) :
            buf' = buf \o Front(toClient, n) /\ toClient' = After(toClient, n)
      BY <2>4 DEF RecvLine
    <3>2. n \in 0..Len(toClient)
      BY <2>0, <3>1, LenProperties DEF Min2, ConstantsAssumption
    <3>3. Front(toClient, n) \in Seq(Byte) /\ After(toClient, n) \in Seq(Byte)
      BY <2>0, <3>2, Cut
    <3> DEFINE a == taken \o target
               f == Front(toClient, n)
               r == After(toClient, n)
    <3>4. a \o (buf \o f) = (a \o buf) \o f
      <4>1. a \in Seq(Byte) /\ buf \in Seq(Byte) /\ f \in Seq(Byte)
        BY <2>0, <3>3
      <4> HIDE DEF a, f
      <4> QED BY <4>1, Associative, ZenonT(60)
    <3>5. ((a \o buf) \o f) \o r = (a \o buf) \o toClient
      BY <2>0, <3>2, Move
    <3>6. ~ (target # <<>>) /\ conn /\ target' = target /\ taken' = taken /\ sent' = sent
      BY <2>4 DEF RecvLine, Busy, TargetOnlyInBody
    <3> QED BY <3>1, <3>4, <3>5, <3>6 DEF Conserved, TargetOnlyInBody
  <2>5. CASE BufferFull
    BY <2>5, <2>h DEF BufferFull
  <2>b. ASSUME Busy("body", "client"), UNCHANGED <<script, at, conn>>
        PROVE  TargetOnlyInBody'
    BY <2>b DEF Busy, Current, TargetOnlyInBody
  <2>6. CASE DrainBuffer
    <3> DEFINE n == Min2(Len(buf), Wanted)
    <3>1. n \in 0..Len(buf)
      <4>1. Wanted \in Nat
        BY <2>6, WantedType DEF DrainBuffer
      <4> QED BY <2>0, <4>1, LenProperties DEF Min2
    <3>2. target' = target \o Front(buf, n) /\ buf' = After(buf, n)
          /\ taken' = taken /\ toClient' = toClient /\ sent' = sent
          /\ conn /\ TargetOnlyInBody'
      BY <2>6, <2>b DEF DrainBuffer, Busy
    <3>3. Front(buf, n) \in Seq(Byte) /\ After(buf, n) \in Seq(Byte)
      BY <2>0, <3>1, Cut
    <3> DEFINE f == Front(buf, n)
    <3>4. taken \o (target \o f) = (taken \o target) \o f
      <4>1. taken \in Seq(Byte) /\ target \in Seq(Byte) /\ f \in Seq(Byte)
        BY <2>0, <3>3
      <4> HIDE DEF f
      <4> QED BY <4>1, Associative, Zenon
    <3>5. ((taken \o target) \o Front(buf, n)) \o After(buf, n) = (taken \o target) \o buf
      BY <2>0, <3>1, Move
    <3> QED BY <3>2, <3>4, <3>5 DEF Conserved
  <2>7. CASE RecvBody
    <3>1. PICK n \in 1..Min2(Len(toClient), Min2(RecvMax, Wanted)) :
            target' = target \o Front(toClient, n) /\ toClient' = After(toClient, n)
      BY <2>7 DEF RecvBody
    <3>2. n \in 0..Len(toClient)
      <4>1. Wanted \in Nat /\ RecvMax \in Nat
        BY <2>7, WantedType DEF RecvBody, ConstantsAssumption
      <4> QED BY <2>0, <3>1, <4>1, LenProperties, BodyBytes
    <3>3. buf = <<>> /\ buf' = <<>> /\ taken' = taken /\ sent' = sent /\ conn /\ TargetOnlyInBody'
      BY <2>7, <2>b DEF RecvBody, Busy
    <3> DEFINE f == Front(toClient, n)
    <3>4. f \in Seq(Byte)
      BY <2>0, <3>2, Cut
    <3>5. taken \o (target \o f) = (taken \o target) \o f
      <4>1. taken \in Seq(Byte) /\ target \in Seq(Byte) /\ f \in Seq(Byte)
        BY <2>0, <3>4
      <4> HIDE DEF f
      <4> QED BY <4>1, Associative, ZenonT(60)
    <3>6. ((taken \o target) \o f) \o <<>> = (taken \o target) \o f
      BY <2>0, <3>4, Regroup
    <3>7. ((taken \o target) \o f) \o After(toClient, n) = (taken \o target) \o toClient
      BY <2>0, <3>2, Move
    <3>8. (taken \o target) \o buf = taken \o target
      BY <2>0, <3>3, Regroup
    <3> QED BY <3>1, <3>3, <3>5, <3>6, <3>7, <3>8 DEF Conserved
  <2>8. CASE ReadExact
    <3>1. taken' = taken \o target /\ target' = <<>> /\ buf' = buf
          /\ toClient' = toClient /\ sent' = sent /\ conn
      BY <2>8 DEF ReadExact, Busy
    <3>2. (taken \o target) \o <<>> = taken \o target
      BY <2>0, Regroup
    <3> QED BY <3>1, <3>2 DEF Conserved, TargetOnlyInBody
  <2>9. CASE RecvFails
    BY <2>9, <2>h DEF RecvFails
  <2>u. ASSUME UNCHANGED <<script, conn, toClient, buf, target, sent, taken>>,
               at' = at \/ target = <<>>
        PROVE  Conserved' /\ TargetOnlyInBody'
    BY <2>u DEF Conserved, TargetOnlyInBody, Busy, Current
  <2>10. CASE Send
    BY <2>10, <2>u DEF Send
  <2>11. CASE SendDone
    <3>1. target = <<>>
      BY <2>11 DEF SendDone, Sending, Busy, TargetOnlyInBody, TypeInv
    <3> QED BY <2>11, <2>u, <3>1 DEF SendDone
  <2>12. CASE SendFails
    BY <2>12, <2>h DEF SendFails
  <2>13. CASE SessionDone
    BY <2>13, <2>h DEF SessionDone
  <2>14. CASE SrvSend
    <3> DEFINE e == Encode(script[srv])
    <3>1. e \in Seq(Byte)
      BY <2>14, AtMessage, EncodeType DEF SrvSend, SrvAt, TypeInv
    <3> DEFINE a == (taken \o target) \o buf
    <3>2. a \o (toClient \o e) = (a \o toClient) \o e
      <4>1. a \in Seq(Byte) /\ toClient \in Seq(Byte) /\ e \in Seq(Byte)
        BY <2>0, <3>1
      <4> HIDE DEF a, e
      <4> QED BY <4>1, Associative, Zenon
    <3>3. /\ toClient' = toClient \o e /\ sent' = sent \o e
          /\ UNCHANGED <<script, at, conn, buf, target, taken>>
      BY <2>14 DEF SrvSend
    <3> QED BY <3>2, <3>3 DEF Conserved, TargetOnlyInBody, Busy, Current
  <2>15. CASE SrvRead
    BY <2>15, <2>u DEF SrvRead
  <2>16. CASE ConnectionLost
    BY <2>16, <2>u DEF ConnectionLost
  <2>17. CASE UNCHANGED vars
    BY <2>17, <2>u DEF vars
  <2> QED BY <2>1, <2>2, <2>3, <2>4, <2>5, <2>6, <2>7, <2>8, <2>9, <2>10, <2>11,
             <2>12, <2>13, <2>14, <2>15, <2>16, <2>17 DEF Next, CliStep, SrvStep
<1>3. IInv => Conserved
  OBVIOUS
<1> QED BY <1>1, <1>2, <1>3, TransportTypes, PTL DEF Spec

-----------------------------------------------------------------------------
(* Joined parts, and what a script tells and sends.                        *)

\* Every prefix of the parts is joined to the one before it, and the whole
\* begins with each.
LEMMA JoinedTrace ==
    ASSUME NEW A, NEW N \in Nat, NEW part \in [1..N -> Seq(A)]
    PROVE  /\ Joined(N, part) \in [0..N -> Seq(A)] /\ Joined(N, part)[0] = <<>>
           /\ \A n \in 1..N : Joined(N, part)[n] = Joined(N, part)[n - 1] \o part[n]
<1> DEFINE S == Seq(A)
           step == [n \in 1..N |-> [x \in S |-> x \o part[n]]]
           Is(f) == f = [n \in 0..N |-> IF n = 0 THEN <<>> ELSE f[n - 1] \o part[n]]
<1>1. <<>> \in S
  BY EmptySeq
<1>2. \A n \in 1..N, x \in S : x \o part[n] \in S
  BY ConcatProperties
<1> HIDE DEF S
<1>3. step \in [1..N -> [S -> S]]
  BY <1>2
<1>4. \A n \in 1..N, x \in S : step[n][x] = x \o part[n]
  OBVIOUS
<1> HIDE DEF step
<1>5. PICK f \in [0..N -> S] : f[0] = <<>> /\ \A n \in 1..N : f[n] = step[n][f[n - 1]]
  <2>1. \E f \in [0..N -> S] : IsTrace(f, N, <<>>, step)
    BY <1>1, <1>3, Iterates
  <2> QED
    BY <2>1 DEF IsTrace
<1>6. ASSUME NEW n \in 1..N PROVE f[n] = f[n - 1] \o part[n]
  <2>1. n - 1 \in 0..N
    OBVIOUS
  <2>2. f[n - 1] \in S
    BY <2>1
  <2> QED
    BY <1>4, <1>5, <2>2
<1>7. Is(f)
  <2>1. ASSUME NEW n \in 0..N PROVE f[n] = IF n = 0 THEN <<>> ELSE f[n - 1] \o part[n]
    <3>1. CASE n = 0
      BY <1>5, <3>1
    <3>2. CASE n # 0
      <4>1. n \in 1..N
        BY <3>2
      <4>2. f[n] = f[n - 1] \o part[n]
        BY <4>1, <1>6
      <4> QED
        BY <3>2, <4>2
    <3> QED
      BY <3>1, <3>2
  <2> QED
    BY <2>1
<1>8. Joined(N, part) = CHOOSE g : Is(g)
  BY DEF Joined
<1> DEFINE J == Joined(N, part)
<1>9. Is(J)
  <2> HIDE DEF Is
  <2> QED
    BY <1>7, <1>8
<1>10. \A n \in 0..N : J[n] = IF n = 0 THEN <<>> ELSE J[n - 1] \o part[n]
  BY <1>9
<1>11. DOMAIN J = 0..N /\ J = [n \in 0..N |-> J[n]]
  BY <1>9
<1> HIDE DEF J, Is
<1>12. J[0] = <<>> /\ \A n \in 1..N : J[n] = J[n - 1] \o part[n]
  <2>1. 0 \in 0..N
    OBVIOUS
  <2>2. J[0] = <<>>
    BY <1>10, <2>1
  <2>3. ASSUME NEW n \in 1..N PROVE J[n] = J[n - 1] \o part[n]
    <3>1. n \in 0..N /\ ~ (n = 0)
      OBVIOUS
    <3>2. J[n] = IF n = 0 THEN <<>> ELSE J[n - 1] \o part[n]
      BY <1>10, <3>1
    <3> QED
      BY <3>1, <3>2, Zenon
  <2> QED
    BY <2>2, <2>3
<1>13. 0..N \subseteq {n \in 0..N : J[n] \in S}
  <2> DEFINE T == {n \in 0..N : J[n] \in S}
  <2>1. 0 \in T
    BY <1>1, <1>12
  <2>2. ASSUME NEW n \in 0..N, n \in T, n < N PROVE n + 1 \in T
    <3>1. n + 1 \in 1..N /\ (n + 1) - 1 = n
      BY <2>2
    <3>2. J[n + 1] = J[(n + 1) - 1] \o part[n + 1]
      BY <1>12, <3>1
    <3>3. J[n] \o part[n + 1] \in S
      BY <1>2, <2>2, <3>1
    <3>4. n + 1 \in 0..N
      BY <3>1
    <3> QED
      BY <3>1, <3>2, <3>3, <3>4
  <2> HIDE DEF T
  <2>3. 0..N \subseteq T
    BY <2>1, <2>2, UpTo
  <2> QED
    BY <2>3 DEF T
<1>14. J \in [0..N -> S]
  BY <1>11, <1>13
<1> QED
  BY <1>12, <1>14 DEF J, S

\* What is joined up to some part is the beginning of the whole.
Begins(f, A, N, n) == \E z \in Seq(A) : f[N] = f[n] \o z

\* Each of them begins the whole.
LEMMA JoinedGrows ==
    ASSUME NEW A, NEW N \in Nat, NEW part \in [1..N -> Seq(A)], NEW n \in 0..N
    PROVE  Begins(Joined(N, part), A, N, n)
<1> DEFINE J == Joined(N, part)
           Grown(k) == \E z \in Seq(A) : J[k] = J[n] \o z
           S == {k \in 0..N : n <= k => Grown(k)}
<1>1. J \in [0..N -> Seq(A)] /\ \A k \in 1..N : J[k] = J[k - 1] \o part[k]
  BY JoinedTrace
<1> HIDE DEF J
<1>2. Grown(n)
  <2>1. J[n] = J[n] \o <<>> /\ <<>> \in Seq(A)
    BY <1>1, ConcatEmptySeq, EmptySeq
  <2> QED
    BY <2>1
<1>3. ASSUME NEW k \in 0..N, k < N, Grown(k) PROVE Grown(k + 1)
  <2>1. PICK z \in Seq(A) : J[k] = J[n] \o z
    BY <1>3
  <2>2. k + 1 \in 1..N /\ (k + 1) - 1 = k
    BY <1>3
  <2>3. J[k + 1] = J[(k + 1) - 1] \o part[k + 1] /\ part[k + 1] \in Seq(A)
    BY <1>1, <2>2
  <2> DEFINE a == J[n]
             c == part[k + 1]
  <2>4. a \in Seq(A) /\ c \in Seq(A)
    BY <1>1, <2>3
  <2> HIDE DEF a, c
  <2>5. (a \o z) \o c = a \o (z \o c) /\ z \o c \in Seq(A)
    BY <2>4, ConcatAssociative, ConcatProperties, SMTT(30)
  <2>6. J[k + 1] = J[n] \o (z \o c)
    BY <2>1, <2>2, <2>3, <2>5 DEF a, c
  <2> QED
    BY <2>5, <2>6
<1> HIDE DEF Grown
<1>4. 0 \in S
  BY <1>2
<1>5. ASSUME NEW k \in 0..N, k \in S, k < N PROVE k + 1 \in S
  <2>1. CASE n <= k
    BY <1>3, <1>5, <2>1
  <2>2. CASE k + 1 = n
    BY <1>2, <2>2
  <2>3. CASE k + 1 < n
    BY <1>5, <2>3
  <2> QED
    BY <2>1, <2>2, <2>3
<1>6. N \in S
  <2> HIDE DEF S
  <2>1. 0..N \subseteq S
    BY <1>4, <1>5, UpTo
  <2> QED
    BY <2>1
<1>7. Grown(N)
  BY <1>6
<1> QED
  BY <1>7 DEF Begins, Grown, J

IsJoined(f, A, N, part) ==
    /\ f \in [0..N -> Seq(A)] /\ f[0] = <<>>
    /\ \A n \in 1..N : f[n] = f[n - 1] \o part[n]
    /\ \A n \in 0..N : Begins(f, A, N, n)

\* All of this in one.
LEMMA JoinedWhole ==
    ASSUME NEW A, NEW N \in Nat, NEW part \in [1..N -> Seq(A)]
    PROVE  IsJoined(Joined(N, part), A, N, part)
<1>1. /\ Joined(N, part) \in [0..N -> Seq(A)] /\ Joined(N, part)[0] = <<>>
      /\ \A n \in 1..N : Joined(N, part)[n] = Joined(N, part)[n - 1] \o part[n]
  BY JoinedTrace
<1>2. ASSUME NEW n \in 0..N
      PROVE  Begins(Joined(N, part), A, N, n)
  BY JoinedGrows
<1> QED
  BY <1>1, <1>2 DEF IsJoined

\* A script tells a side one message after the other.
LEMMA ToldTrace ==
    ASSUME NEW s \in Seq(Message), NEW to
    PROVE  /\ Len(s) \in Nat
           /\ Told(s, to) \in [0..Len(s) -> Seq(Seq(Byte))] /\ Told(s, to)[0] = <<>>
           /\ \A n \in 1..Len(s) : s[n].to = to => /\ s[n].data \in Seq(Byte)
                  /\ Told(s, to)[n] = Append(Told(s, to)[n - 1], s[n].data)
           /\ \A n \in 1..Len(s) : s[n].to # to => Told(s, to)[n] = Told(s, to)[n - 1]
           /\ AllTold(s, to) = Told(s, to)[Len(s)]
           /\ \A n \in 0..Len(s) : Begins(Told(s, to), Seq(Byte), Len(s), n)
<1> DEFINE N == Len(s)
           part == [i \in 1..N |-> IF s[i].to = to THEN <<s[i].data>> ELSE <<>>]
           J == Joined(N, part)
<1>1. N \in Nat /\ \A i \in 1..N : s[i].data \in Seq(Byte)
  <2>1. N \in Nat /\ \A i \in 1..N : s[i] \in Message
    BY LenProperties, ElementOfSeq
  <2>2. \A m \in Message : m.data \in Seq(Byte)
    BY DEF Message
  <2> QED
    BY <2>1, <2>2
<1>2. \A i \in 1..N : part[i] = IF s[i].to = to THEN <<s[i].data>> ELSE <<>>
  OBVIOUS
<1>3. part \in [1..N -> Seq(Seq(Byte))]
  BY <1>1
<1>4. Told(s, to) = J /\ AllTold(s, to) = J[N]
  BY DEF Told, AllTold
<1> HIDE DEF part
<1> HIDE DEF N
<1>5. IsJoined(J, Seq(Byte), N, part)
  BY <1>1, <1>3, JoinedWhole
<1>6. /\ J \in [0..N -> Seq(Seq(Byte))] /\ J[0] = <<>>
      /\ \A n \in 1..N : J[n] = J[n - 1] \o part[n]
      /\ \A n \in 0..N : Begins(J, Seq(Byte), N, n)
  BY <1>5 DEF IsJoined
<1> HIDE DEF J
<1>7. ASSUME NEW n \in 1..N
      PROVE  IF s[n].to = to THEN J[n] = Append(J[n - 1], s[n].data) ELSE J[n] = J[n - 1]
  <2>1. J[n - 1] \in Seq(Seq(Byte))
    BY <1>1, <1>6
  <2>2. J[n - 1] \o <<>> = J[n - 1]
    BY <2>1, ConcatEmptySeq
  <2>3. Append(J[n - 1], s[n].data) = J[n - 1] \o <<s[n].data>>
    BY <1>1, <2>1, AppendIsConcat
  <2> QED
    BY <1>2, <1>6, <2>2, <2>3
<1> QED
  BY <1>1, <1>4, <1>6, <1>7 DEF N

\* The bytes that the first n messages of a script put on the way to a side.
Bytes(s, to) ==
    Joined(Len(s), [i \in 1..Len(s) |-> IF s[i].to = to THEN Encode(s[i]) ELSE <<>>])

\* They go on from message to message.
LEMMA BytesTrace ==
    ASSUME ConstantsAssumption, NEW s \in Seq(Message), NEW to
    PROVE  /\ Len(s) \in Nat
           /\ Bytes(s, to) \in [0..Len(s) -> Seq(Byte)] /\ Bytes(s, to)[0] = <<>>
           /\ \A n \in 1..Len(s) : s[n].to = to => /\ Encode(s[n]) \in Seq(Byte)
                  /\ Bytes(s, to)[n] = Bytes(s, to)[n - 1] \o Encode(s[n])
           /\ \A n \in 1..Len(s) : s[n].to # to => Bytes(s, to)[n] = Bytes(s, to)[n - 1]
           /\ \A n \in 0..Len(s) : Begins(Bytes(s, to), Byte, Len(s), n)
<1> DEFINE N == Len(s)
           part == [i \in 1..N |-> IF s[i].to = to THEN Encode(s[i]) ELSE <<>>]
           J == Joined(N, part)
<1>1. N \in Nat /\ \A i \in 1..N : s[i] \in Message
  BY LenProperties, ElementOfSeq
<1>2. \A i \in 1..N : part[i] = IF s[i].to = to THEN Encode(s[i]) ELSE <<>>
  OBVIOUS
<1>3. \A i \in 1..N : Encode(s[i]) \in Seq(Byte)
  BY <1>1, EncodeType
<1>4. part \in [1..N -> Seq(Byte)]
  BY <1>3, EmptySeq
<1>5. Bytes(s, to) = J
  BY DEF Bytes
<1> HIDE DEF part
<1> HIDE DEF N
<1>6. IsJoined(J, Byte, N, part)
  BY <1>1, <1>4, JoinedWhole
<1>7. /\ J \in [0..N -> Seq(Byte)] /\ J[0] = <<>>
      /\ \A n \in 1..N : J[n] = J[n - 1] \o part[n]
      /\ \A n \in 0..N : Begins(J, Byte, N, n)
  BY <1>6 DEF IsJoined
<1> HIDE DEF J
<1>8. ASSUME NEW n \in 1..N
      PROVE  IF s[n].to = to THEN J[n] = J[n - 1] \o Encode(s[n]) ELSE J[n] = J[n - 1]
  <2>1. J[n - 1] \in Seq(Byte)
    BY <1>1, <1>7
  <2>2. J[n - 1] \o <<>> = J[n - 1]
    BY <2>1, ConcatEmptySeq
  <2> QED
    BY <1>2, <1>7, <2>2
<1> QED
  BY <1>1, <1>3, <1>5, <1>7, <1>8 DEF N

-----------------------------------------------------------------------------
(* What a reader finds at the front of a stream.                           *)

\* Two ways to see a stream agree where both are known.
LEMMA SameBytes ==
    ASSUME NEW s \in Seq(Byte), NEW r \in Seq(Byte), NEW e \in Seq(Byte), NEW y \in Seq(Byte),
           s \o r = e \o y
    PROVE  /\ Len(s) \in Nat /\ Len(e) \in Nat
           /\ \A i \in 1..Len(s) : i <= Len(e) => s[i] = e[i]
<1> DEFINE a == s \o r
           b == e \o y
<1>1. Len(s) \in Nat /\ Len(e) \in Nat /\ Len(r) \in Nat /\ Len(y) \in Nat
  BY LenProperties
<1>2. \A i \in 1..Len(s) + Len(r) : a[i] = IF i <= Len(s) THEN s[i] ELSE r[i - Len(s)]
  BY ConcatProperties
<1>3. \A i \in 1..Len(e) + Len(y) : b[i] = IF i <= Len(e) THEN e[i] ELSE y[i - Len(e)]
  BY ConcatProperties
<1>4. a = b
  OBVIOUS
<1> HIDE DEF a, b
<1>5. ASSUME NEW i \in 1..Len(s), i <= Len(e) PROVE s[i] = e[i]
  <2>1. a[i] = s[i]
    BY <1>1, <1>2
  <2>2. b[i] = e[i]
    BY <1>1, <1>3, <1>5
  <2> QED
    BY <1>4, <2>1, <2>2
<1> QED
  BY <1>1, <1>5

\* A stream that holds all of what comes first begins with it.
LEMMA WholeFront ==
    ASSUME NEW s \in Seq(Byte), NEW r \in Seq(Byte), NEW e \in Seq(Byte), NEW y \in Seq(Byte),
           s \o r = e \o y, Len(e) <= Len(s)
    PROVE  Front(s, Len(e)) = e
<1>1. /\ Len(s) \in Nat /\ Len(e) \in Nat
      /\ \A i \in 1..Len(s) : i <= Len(e) => s[i] = e[i]
  BY SameBytes
<1>2. \A i \in 1..Len(e) : s[i] = e[i] /\ e[i] \in Byte
  <2>1. \A i \in 1..Len(e) : i \in 1..Len(s) /\ i <= Len(e)
    BY <1>1
  <2>2. \A i \in 1..Len(e) : e[i] \in Byte
    BY ElementOfSeq
  <2> QED
    BY <1>1, <2>1, <2>2
<1> DEFINE f == SubSeq(s, 1, Len(e))
<1>3. /\ f \in Seq(Byte) /\ Len(f) = Len(e)
      /\ \A i \in 1..Len(e) : f[i] = s[i]
  <2>1. Len(e) \in Int /\ 1 \in Int /\ \A i \in 1..Len(e) : s[i] \in Byte
    BY <1>1, <1>2
  <2>2. /\ f \in Seq(Byte) /\ Len(f) = IF 1 <= Len(e) THEN Len(e) - 1 + 1 ELSE 0
        /\ \A i \in 1..Len(e) - 1 + 1 : f[i] = s[1 + i - 1]
    BY <2>1, SubSeqProperties
  <2> QED
    BY <1>1, <2>2
<1> HIDE DEF f
<1>4. f = e
  BY <1>1, <1>2, <1>3, SeqEqual
<1> QED
  BY <1>4 DEF f, Front

\* What follows the same bytes is the same.
BothGo(a, s, r, e, y) ==
    /\ a \in Seq(Byte) /\ s \in Seq(Byte) /\ r \in Seq(Byte) /\ e \in Seq(Byte) /\ y \in Seq(Byte)
    /\ (a \o s) \o r = (a \o e) \o y

\* What is the same behind the same bytes is the same.
LEMMA Remainder ==
    ASSUME NEW a, NEW s, NEW r, NEW e, NEW y, BothGo(a, s, r, e, y)
    PROVE  s \o r = e \o y
<1>0. /\ a \in Seq(Byte) /\ s \in Seq(Byte) /\ r \in Seq(Byte) /\ e \in Seq(Byte) /\ y \in Seq(Byte)
      /\ (a \o s) \o r = (a \o e) \o y
  BY DEF BothGo
<1>a. a \o (s \o r) = (a \o s) \o r
  <2>1. a \in Seq(Byte) /\ s \in Seq(Byte) /\ r \in Seq(Byte)
    BY <1>0
  <2> QED
    BY <2>1, Associative, Zenon
<1>b. a \o (e \o y) = (a \o e) \o y
  <2>1. a \in Seq(Byte) /\ e \in Seq(Byte) /\ y \in Seq(Byte)
    BY <1>0
  <2> QED
    BY <2>1, Associative, Zenon
<1>1. a \o (s \o r) = a \o (e \o y)
  BY <1>0, <1>a, <1>b
<1>2. s \o r \in Seq(Byte) /\ e \o y \in Seq(Byte)
  BY <1>0, ConcatProperties
<1>3. \A t, v \in Seq(Byte) : a \o t = a \o v => t = v
  BY <1>0, ConcatSimplifications
<1> QED
  BY <1>1, <1>2, <1>3

\* A line travels with its two end bytes behind it.
LEMMA EncodeLine ==
    ASSUME ConstantsAssumption, NEW m \in Message, m.kind = "line"
    PROVE  /\ Len(m.data) \in Nat /\ Len(Encode(m)) = Len(m.data) + 2
           /\ \A i \in 1..Len(m.data) : Encode(m)[i] = m.data[i]
           /\ Encode(m)[Len(m.data) + 1] = CR /\ Encode(m)[Len(m.data) + 2] = LF
<1> DEFINE d == m.data
           e == d \o <<CR, LF>>
<1>1. d \in Seq(Byte) /\ <<CR, LF>> \in Seq(Byte)
  BY EncodeType DEF ConstantsAssumption
<1>2. Encode(m) = e
  BY DEF Encode
<1> HIDE DEF d
<1>3. Len(d) \in Nat /\ Len(<<CR, LF>>) = 2 /\ <<CR, LF>>[1] = CR /\ <<CR, LF>>[2] = LF
  BY <1>1, LenProperties
<1>4. /\ Len(e) = Len(d) + Len(<<CR, LF>>)
      /\ \A i \in 1..Len(d) + Len(<<CR, LF>>) :
            e[i] = IF i <= Len(d) THEN d[i] ELSE <<CR, LF>>[i - Len(d)]
  BY <1>1, ConcatProperties
<1> HIDE DEF e
<1>5. /\ Len(d) + 1 \in 1..Len(d) + 2 /\ ~ (Len(d) + 1 <= Len(d)) /\ (Len(d) + 1) - Len(d) = 1
      /\ Len(d) + 2 \in 1..Len(d) + 2 /\ ~ (Len(d) + 2 <= Len(d)) /\ (Len(d) + 2) - Len(d) = 2
      /\ \A i \in 1..Len(d) : i \in 1..Len(d) + 2 /\ i <= Len(d)
  BY <1>3
<1>6. e[Len(d) + 1] = CR /\ e[Len(d) + 2] = LF
  BY <1>3, <1>4, <1>5
<1>7. \A i \in 1..Len(d) : e[i] = d[i]
  BY <1>3, <1>4, <1>5
<1> QED
  BY <1>2, <1>3, <1>4, <1>6, <1>7 DEF d

\* A stream in which a line comes next: its first newline is the end of this
\* line, and without a newline it is shorter than the line.
LEMMA LineNext ==
    ASSUME ConstantsAssumption, NEW m \in Message, m.kind = "line",
           \A j \in 1..Len(m.data) : m.data[j] # LF,
           NEW s \in Seq(Byte), NEW r \in Seq(Byte), NEW y \in Seq(Byte),
           s \o r = Encode(m) \o y
    PROVE  /\ HasLine(s) => /\ Front(s, Newline(s)) = Encode(m)
                            /\ LineAt(s, Newline(s)) = m.data
           /\ ~HasLine(s) => Len(s) <= Len(m.data) + 1
<1> DEFINE e == Encode(m)
           d == m.data
           k == Newline(s)
<1>1. e \in Seq(Byte) /\ d \in Seq(Byte) /\ <<CR, LF>> \in Seq(Byte) /\ e = d \o <<CR, LF>>
  BY EncodeType DEF Encode, ConstantsAssumption
<1>2. /\ Len(d) \in Nat /\ Len(e) = Len(d) + 2 /\ e[Len(d) + 1] = CR /\ e[Len(d) + 2] = LF
      /\ \A i \in 1..Len(d) : e[i] = d[i]
  BY EncodeLine
<1> HIDE DEF e
<1>3. Len(s) \in Nat /\ \A i \in 1..Len(s) : i <= Len(e) => s[i] = e[i]
  BY <1>1, SameBytes, ZenonT(60) DEF e
<1>4. \A i \in 1..Len(d) + 1 : e[i] # LF
  <2>1. CR # LF
    BY DEF ConstantsAssumption
  <2>2. \A i \in 1..Len(d) : e[i] # LF
    BY <1>2
  <2> HIDE DEF d
  <2>3. \A i \in 1..Len(d) + 1 : i \in 1..Len(d) \/ i = Len(d) + 1
    BY <1>2
  <2> QED
    BY <1>2, <2>1, <2>2, <2>3
<1>5. ASSUME ~HasLine(s) PROVE Len(s) <= Len(d) + 1
  <2> SUFFICES ASSUME Len(d) + 2 <= Len(s) PROVE FALSE
    BY <1>2, <1>3
  <2>1. Len(d) + 2 \in 1..Len(s) /\ Len(d) + 2 <= Len(e)
    BY <1>2, <1>3
  <2>2. s[Len(d) + 2] = LF
    BY <1>2, <1>3, <2>1
  <2> QED
    BY <1>5, <2>1, <2>2 DEF HasLine
<1>6. ASSUME HasLine(s) PROVE Front(s, k) = e /\ LineAt(s, k) = d
  <2>1. k \in 1..Len(s) /\ s[k] = LF /\ \A j \in 1..(k - 1) : s[j] # LF
    BY <1>6, NewlineFirst
  <2> HIDE DEF k
  <2>2. ~ (k < Len(d) + 2)
    <3> SUFFICES ASSUME k < Len(d) + 2 PROVE FALSE
      OBVIOUS
    <3>1. k \in 1..Len(d) + 1 /\ k <= Len(e)
      BY <1>2, <1>3, <2>1
    <3> QED
      BY <1>3, <1>4, <2>1, <3>1
  <2>3. ~ (k > Len(d) + 2)
    <3> SUFFICES ASSUME k > Len(d) + 2 PROVE FALSE
      OBVIOUS
    <3>1. Len(d) + 2 \in 1..(k - 1) /\ Len(d) + 2 \in 1..Len(s) /\ Len(d) + 2 <= Len(e)
      BY <1>2, <1>3, <2>1
    <3>2. s[Len(d) + 2] = LF
      BY <1>2, <1>3, <3>1
    <3> QED
      BY <2>1, <3>1, <3>2
  <2>4. k = Len(d) + 2 /\ Len(e) = k /\ k <= Len(s)
    BY <1>2, <1>3, <2>1, <2>2, <2>3
  <2>5. Front(s, k) = e
    <3>0. s \o r = e \o y /\ Len(e) <= Len(s)
      BY <2>4 DEF e
    <3>1. Front(s, Len(e)) = e
      BY <1>1, <3>0, WholeFront
    <3> QED
      BY <2>4, <3>1
  <2>6. Front(s, k - 2) = d
    <3>1. <<CR, LF>> \o y \in Seq(Byte)
      BY <1>1, ConcatProperties
    <3>2. e \o y = d \o (<<CR, LF>> \o y)
      <4> HIDE DEF d
      <4> QED
        BY <1>1, ConcatAssociative
    <3>3. s \o r = d \o (<<CR, LF>> \o y)
      BY <3>2 DEF e
    <3>4. Len(d) <= Len(s) /\ k - 2 = Len(d)
      BY <1>2, <1>3, <2>4
    <3>5. Front(s, Len(d)) = d
      BY <1>1, <3>1, <3>3, <3>4, WholeFront
    <3> QED
      BY <3>4, <3>5
  <2>7. k > 1 /\ s[k - 1] = CR
    <3>1. k - 1 = Len(d) + 1 /\ k - 1 \in 1..Len(s) /\ k - 1 <= Len(e)
      BY <1>2, <1>3, <2>4
    <3>2. s[k - 1] = e[k - 1]
      BY <1>3, <3>1
    <3> QED
      BY <1>2, <2>4, <3>1, <3>2
  <2> QED
    BY <2>5, <2>6, <2>7 DEF LineAt
<1> QED
  BY <1>5, <1>6 DEF e

-----------------------------------------------------------------------------
(* The place of each side in the session.                                  *)

Up(n)   == Bytes(script, "server")[n]
SentNow == IF put = 0 THEN <<>> ELSE Front(Encode(Current), put)

\* Each side is at one message of the session.  It has got all that was for
\* it before, and its bytes are those of the messages before.
InStep ==
    /\ script \in Scripts \union {<<>>}
    /\ at \in 1..Len(script) + 1 /\ srv \in 1..Len(script) + 1
    /\ clientGot = Told(script, "client")[at - 1]
    /\ serverGot = Told(script, "server")[srv - 1]
    /\ taken = Bytes(script, "client")[at - 1]
    /\ sent = Bytes(script, "client")[srv - 1]

\* What a call of the client that is not done yet has moved.
HalfDone ==
    /\ conn /\ target # <<>> => Busy("body", "client") /\ Len(target) <= Len(Current.data)
    /\ conn /\ put > 0 => Sending /\ put <= Len(Encode(Current))

\* What the server has read and what is under way to it is what the client
\* has sent, and the session's messages go on where it ends.
Upward ==
    /\ conn => Up(srv - 1) \o toServer = Up(at - 1) \o SentNow
    /\ \E rest \in Seq(Byte) : (Up(srv - 1) \o toServer) \o rest = Up(Len(script))

StreamInvariant == InStep /\ HalfDone /\ Upward

IsMessage(m) ==
    /\ m \in Message /\ m.kind \in {"line", "body"} /\ m.to \in {"client", "server"}
    /\ m.data \in Seq(Byte)
    /\ m.kind = "line" => \A j \in 1..Len(m.data) : m.data[j] # LF

\* The messages the two sides are at.
LEMMA Places ==
    ASSUME ConstantsAssumption, LinesAssumption, TypeInv, InStep
    PROVE  /\ script \in Seq(Message) /\ Len(script) \in Nat
           /\ at - 1 \in 0..Len(script) /\ srv - 1 \in 0..Len(script)
           /\ at <= Len(script) => at \in 1..Len(script)
           /\ srv <= Len(script) => srv \in 1..Len(script)
           /\ \A n \in 1..Len(script) : IsMessage(script[n])
<1>1. script \in Seq(Message) /\ Len(script) \in Nat
  BY LenProperties DEF TypeInv
<1>2. \A n \in 1..Len(script) : script[n] \in Message
  BY <1>1, ElementOfSeq
<1>3. \A m \in Message : /\ m.kind \in {"line", "body"} /\ m.to \in {"client", "server"}
                        /\ m.data \in Seq(Byte)
  BY DEF Message
<1>4. /\ at - 1 \in 0..Len(script) /\ srv - 1 \in 0..Len(script)
      /\ at <= Len(script) => at \in 1..Len(script)
      /\ srv <= Len(script) => srv \in 1..Len(script)
  BY <1>1 DEF InStep
<1>5. ASSUME NEW n \in 1..Len(script), script[n].kind = "line"
      PROVE  \A j \in 1..Len(script[n].data) : script[n].data[j] # LF
  <2>1. script # <<>>
    BY <1>1, <1>5, EmptySeq
  <2>2. script \in Scripts
    BY <2>1 DEF InStep
  <2> QED
    BY <1>5, <2>2 DEF LinesAssumption
<1>6. ASSUME NEW n \in 1..Len(script) PROVE IsMessage(script[n])
  BY <1>2, <1>3, <1>5 DEF IsMessage
<1> QED
  BY <1>1, <1>4, <1>6

\* The client's copy of a body, its buffer and what is under way begin with
\* the message it is at.
LEMMA ClientNext ==
    ASSUME ConstantsAssumption, LinesAssumption, TypeInv, Conserved, InStep,
           conn, at <= Len(script), Current.to = "client"
    PROVE  \E r, y \in Seq(Byte) : (target \o buf) \o r = Encode(Current) \o y
<1> DEFINE D == Bytes(script, "client")
           e == Encode(Current)
           w == target \o buf
<1>1. script \in Seq(Message) /\ at \in 1..Len(script) /\ srv - 1 \in 0..Len(script)
      /\ at \in 0..Len(script) /\ Current \in Message /\ script[at].to = "client"
  BY Places DEF Current, IsMessage
<1>2. e \in Seq(Byte) /\ D[at] = D[at - 1] \o e /\ e = Encode(script[at])
  BY <1>1, BytesTrace DEF Current
<1>3. PICK z \in Seq(Byte) : D[Len(script)] = D[srv - 1] \o z
  BY <1>1, BytesTrace, ZenonT(60) DEF Begins
<1>4. PICK y \in Seq(Byte) : D[Len(script)] = D[at] \o y
  BY <1>1, BytesTrace DEF Begins
<1>5. taken = D[at - 1] /\ sent = D[srv - 1]
  BY DEF InStep
<1>6. /\ taken \in Seq(Byte) /\ target \in Seq(Byte) /\ buf \in Seq(Byte)
      /\ toClient \in Seq(Byte) /\ sent \in Seq(Byte)
  BY DEF TypeInv
<1>7. (taken \o e) \o y = sent \o z
  BY <1>2, <1>3, <1>4, <1>5
<1> DEFINE q == toClient \o z
           tw == taken \o w
<1>8. w \in Seq(Byte) /\ q \in Seq(Byte) /\ tw \in Seq(Byte)
  BY <1>6, ConcatProperties
<1>9. taken \o (target \o buf) = (taken \o target) \o buf
  <2>1. taken \in Seq(Byte) /\ target \in Seq(Byte) /\ buf \in Seq(Byte)
    BY <1>6
  <2> QED
    BY <2>1, Associative, ZenonT(60)
<1>10. tw \o toClient = sent
  BY <1>9 DEF Conserved
<1> HIDE DEF e, D, w
<1>11. tw \o q = sent \o z
  <2>1. tw \in Seq(Byte) /\ toClient \in Seq(Byte) /\ z \in Seq(Byte)
    BY <1>6, <1>8
  <2> HIDE DEF tw
  <2>2. tw \o (toClient \o z) = (tw \o toClient) \o z
    BY <2>1, Associative, ZenonT(60)
  <2> QED
    BY <1>10, <2>2
<1>12. w \o q = e \o y
  <2>1. (taken \o w) \o q = (taken \o e) \o y
    BY <1>7, <1>11
  <2> HIDE DEF q
  <2>2. BothGo(taken, w, q, e, y)
    BY <1>2, <1>6, <1>8, <2>1 DEF BothGo
  <2> QED
    BY <2>2, Remainder, SMTT(30)
<1> QED
  BY <1>8, <1>12 DEF e, w

\* A read of the client gives the message it is at.
ClientReads ==
    /\ conn /\ at \in 1..Len(script) /\ Current.to = "client" /\ conn' = conn
    /\ clientGot' = Append(clientGot, Current.data)
    /\ taken' = taken \o Encode(Current)
    /\ target' = <<>> /\ at' = at + 1
    /\ UNCHANGED <<script, srv, toServer, put, serverGot, sent>>

\* What the buffer holds while a line is awaited.
LEMMA LineAhead ==
    ASSUME ConstantsAssumption, LinesAssumption, TypeInv, Conserved, StreamInvariant,
           Busy("line", "client")
    PROVE  /\ conn /\ at \in 1..Len(script) /\ Current.to = "client" /\ Current.kind = "line"
           /\ target = <<>> /\ Len(Current.data) \in Nat /\ Len(buf) \in Nat
           /\ HasLine(buf) => /\ Front(buf, Newline(buf)) = Encode(Current)
                              /\ LineAt(buf, Newline(buf)) = Current.data
           /\ ~HasLine(buf) => Len(buf) <= Len(Current.data) + 1
<1>1. conn /\ at <= Len(script) /\ Current.to = "client" /\ Current.kind = "line"
  BY DEF Busy
<1>2. at \in 1..Len(script) /\ Current \in Message
      /\ \A j \in 1..Len(Current.data) : Current.data[j] # LF
  BY <1>1, Places DEF Current, StreamInvariant, IsMessage
<1>3. target = <<>>
  BY <1>1 DEF StreamInvariant, HalfDone, Busy
<1>4. PICK r \in Seq(Byte), y \in Seq(Byte) : (target \o buf) \o r = Encode(Current) \o y
  BY <1>1, ClientNext DEF StreamInvariant
<1>5. buf \in Seq(Byte) /\ target \o buf = buf
  BY <1>3, ConcatEmptySeq DEF TypeInv
<1>6. buf \o r = Encode(Current) \o y
  BY <1>4, <1>5
<1>7. /\ HasLine(buf) => /\ Front(buf, Newline(buf)) = Encode(Current)
                         /\ LineAt(buf, Newline(buf)) = Current.data
      /\ ~HasLine(buf) => Len(buf) <= Len(Current.data) + 1
  BY <1>1, <1>2, <1>5, <1>6, LineNext
<1>8. Len(Current.data) \in Nat /\ Len(buf) \in Nat
  BY <1>2, <1>5, EncodeType, LenProperties
<1> QED
  BY <1>1, <1>2, <1>3, <1>7, <1>8

\* proto_read_line, when the newline is there, ...
LEMMA ReadLineReads ==
    ASSUME ConstantsAssumption, LinesAssumption, TypeInv, Conserved, StreamInvariant, ReadLine
    PROVE  ClientReads
<1>1. Busy("line", "client") /\ HasLine(buf)
  BY DEF ReadLine
<1>2. /\ conn /\ at \in 1..Len(script) /\ Current.to = "client" /\ target = <<>>
      /\ Front(buf, Newline(buf)) = Encode(Current) /\ LineAt(buf, Newline(buf)) = Current.data
  BY <1>1, LineAhead
<1> QED
  BY <1>2 DEF ReadLine, ClientReads

\* ... and proto_read_exact, when the body is, give the current message.
LEMMA ReadExactReads ==
    ASSUME ConstantsAssumption, LinesAssumption, TypeInv, Conserved, StreamInvariant, ReadExact
    PROVE  ClientReads
<1> DEFINE d == Current.data
<1>1. /\ conn /\ at <= Len(script) /\ Current.to = "client" /\ Current.kind = "body"
      /\ Wanted <= 0
  BY DEF ReadExact, Busy
<1>2. at \in 1..Len(script) /\ Current \in Message
  BY <1>1, Places DEF Current, StreamInvariant, IsMessage
<1>3. Encode(Current) = d /\ d \in Seq(Byte) /\ target \in Seq(Byte) /\ buf \in Seq(Byte)
  BY <1>1, <1>2, EncodeType DEF Encode, TypeInv
<1>4. Len(d) \in Nat /\ Len(target) \in Nat /\ Len(<<>>) = 0
  BY <1>3, LenProperties
<1>5. Len(target) = Len(d)
  <2>1. Len(target) <= Len(d)
    BY <1>1, <1>4 DEF StreamInvariant, HalfDone
  <2> QED
    BY <1>1, <1>4, <2>1 DEF Wanted
<1>6. PICK r \in Seq(Byte), y \in Seq(Byte) : (target \o buf) \o r = Encode(Current) \o y
  BY <1>1, ClientNext DEF StreamInvariant
<1>7. target \o (buf \o r) = d \o y /\ buf \o r \in Seq(Byte)
  <2>1. target \o (buf \o r) = (target \o buf) \o r
    BY <1>3, Associative, ZenonT(60)
  <2> QED
    BY <1>3, <1>6, <2>1, ConcatProperties
<1>8. target = d
  <2> DEFINE q == buf \o r
  <2>0. target \o q = d \o y /\ q \in Seq(Byte) /\ Len(d) <= Len(target)
    BY <1>4, <1>5, <1>7
  <2> HIDE DEF d, q
  <2>1. Front(target, Len(d)) = d
    BY <1>3, <2>0, WholeFront
  <2>2. SubSeq(target, 1, Len(target)) = target
    BY <1>3, SubSeqFull
  <2> QED
    BY <1>5, <2>1, <2>2 DEF Front
<1> QED
  BY <1>1, <1>2, <1>3, <1>8 DEF ReadExact, ClientReads

\* Each message is behind the bytes before it, and ahead of the others.
Between(s, to, n) ==
    /\ Encode(s[n]) \in Seq(Byte) /\ Bytes(s, to)[n - 1] \in Seq(Byte)
    /\ Bytes(s, to)[n] = Bytes(s, to)[n - 1] \o Encode(s[n])
    /\ \E y \in Seq(Byte) : Bytes(s, to)[Len(s)] = Bytes(s, to)[n] \o y

LEMMA BytesAt ==
    ASSUME ConstantsAssumption, NEW s \in Seq(Message), NEW to, NEW n \in 1..Len(s), s[n].to = to
    PROVE  Between(s, to, n)
<1>1. Len(s) \in Nat /\ Bytes(s, to) \in [0..Len(s) -> Seq(Byte)]
  BY BytesTrace
<1>2. n - 1 \in 0..Len(s) /\ n \in 0..Len(s)
  BY <1>1
<1>3. Bytes(s, to)[n - 1] \in Seq(Byte)
  BY <1>1, <1>2
<1>4. Bytes(s, to)[n] = Bytes(s, to)[n - 1] \o Encode(s[n]) /\ Encode(s[n]) \in Seq(Byte)
  BY BytesTrace
<1>5. \E y \in Seq(Byte) : Bytes(s, to)[Len(s)] = Bytes(s, to)[n] \o y
  <2>1. Begins(Bytes(s, to), Byte, Len(s), n)
    BY <1>2, BytesTrace
  <2> QED
    BY <2>1 DEF Begins
<1> QED
  BY <1>2, <1>3, <1>4, <1>5 DEF Between

\* A read of the server gives the message it is at.
ServerReads ==
    /\ srv \in 1..Len(script) /\ script[srv].to = "server"
    /\ serverGot' = Append(serverGot, script[srv].data)
    /\ toServer = Encode(script[srv]) \o toServer' /\ toServer' \in Seq(Byte)
    /\ srv' = srv + 1
    /\ UNCHANGED <<script, at, conn, target, put, clientGot, sent, taken>>

\* So do read_line and copy_exact of the server.
LEMMA SrvReadReads ==
    ASSUME ConstantsAssumption, LinesAssumption, TypeInv, StreamInvariant, SrvRead
    PROVE  ServerReads
<1> DEFINE m == script[srv]
           e == Encode(m)
           U == Bytes(script, "server")
<1>0. srv <= Len(script) /\ m.to = "server"
  BY DEF SrvRead, SrvAt
<1>1. /\ srv \in 1..Len(script) /\ m.to = "server" /\ script \in Seq(Message)
      /\ m \in Message /\ m.kind \in {"line", "body"}
      /\ m.kind = "line" => \A j \in 1..Len(m.data) : m.data[j] # LF
  <2>1. srv \in 1..Len(script) /\ script \in Seq(Message)
    BY <1>0, Places DEF StreamInvariant
  <2>2. IsMessage(m)
    BY <2>1, Places DEF StreamInvariant
  <2> QED
    BY <1>0, <2>1, <2>2 DEF IsMessage
<1>2. PICK rest \in Seq(Byte) : (U[srv - 1] \o toServer) \o rest = U[Len(script)]
  BY DEF StreamInvariant, Upward, Up
<1> DEFINE u == U[srv - 1]
<1>3. m.data \in Seq(Byte)
  <2>1. \A x \in Message : x.data \in Seq(Byte)
    BY DEF Message
  <2> QED
    BY <1>1, <2>1
<1>4. /\ e \in Seq(Byte) /\ u \in Seq(Byte) /\ U[srv] = u \o e
      /\ \E y \in Seq(Byte) : U[Len(script)] = U[srv] \o y
  <2>1. Between(script, "server", srv)
    BY <1>1, BytesAt
  <2> QED
    BY <2>1 DEF Between
<1>5. toServer \in Seq(Byte)
  BY DEF TypeInv
<1> HIDE DEF U
<1>6. PICK y \in Seq(Byte) : U[Len(script)] = U[srv] \o y
  BY <1>4
<1>7. toServer \o rest = e \o y
  <2>1. (u \o toServer) \o rest = (u \o e) \o y
    BY <1>2, <1>4, <1>6
  <2> HIDE DEF u, e
  <2>2. BothGo(u, toServer, rest, e, y)
    BY <1>4, <1>5, <2>1 DEF BothGo
  <2> QED
    BY <2>2, Remainder
<1> DEFINE n == IF m.kind = "body" THEN Len(m.data) ELSE Newline(toServer)
<1>8. /\ IF m.kind = "body" THEN Len(toServer) >= n ELSE HasLine(toServer)
      /\ serverGot' = Append(serverGot, IF m.kind = "body" THEN Front(toServer, n)
                                                          ELSE LineAt(toServer, n))
      /\ toServer' = After(toServer, n)
  BY DEF SrvRead
<1>9. Len(toServer) \in Nat /\ Len(m.data) \in Nat
  BY <1>3, <1>5, LenProperties
<1> DEFINE Reads == /\ toServer = e \o toServer' /\ toServer' \in Seq(Byte)
                    /\ serverGot' = Append(serverGot, m.data)
<1>10. ASSUME m.kind = "body" PROVE Reads
  <2>1. e = m.data /\ n = Len(m.data)
    BY <1>10 DEF Encode
  <2> HIDE DEF e, m
  <2>2. n \in 0..Len(toServer) /\ Len(e) <= Len(toServer)
    BY <1>8, <1>9, <1>10, <2>1
  <2>3. Front(toServer, Len(e)) = e
    BY <1>4, <1>5, <1>7, <2>2, WholeFront
  <2>4. serverGot' = Append(serverGot, Front(toServer, n)) /\ Front(toServer, n) = m.data
    BY <1>8, <1>10, <2>1, <2>3
  <2> HIDE DEF n
  <2>5. toServer = Front(toServer, n) \o After(toServer, n) /\ After(toServer, n) \in Seq(Byte)
    BY <1>5, <2>2, Cut
  <2>6. toServer = e \o toServer' /\ toServer' \in Seq(Byte)
    BY <1>8, <2>1, <2>4, <2>5
  <2> QED
    BY <2>4, <2>6
<1>11. ASSUME m.kind = "line" PROVE Reads
  <2>1. n = Newline(toServer) /\ HasLine(toServer)
    BY <1>8, <1>11
  <2>2. toServer \o rest = Encode(m) \o y
    BY <1>7
  <2>3. Front(toServer, Newline(toServer)) = Encode(m) /\ LineAt(toServer, Newline(toServer)) = m.data
    <3> HIDE DEF m
    <3> QED
      BY <1>1, <1>5, <1>11, <2>1, <2>2, LineNext
  <2>4. n \in 0..Len(toServer)
    <3>1. Newline(toServer) \in 1..Len(toServer)
      BY <1>5, <2>1, NewlineFirst
    <3> QED
      BY <1>9, <2>1, <3>1
  <2> HIDE DEF m
  <2>5. serverGot' = Append(serverGot, LineAt(toServer, n)) /\ LineAt(toServer, n) = m.data
    BY <1>8, <1>11, <2>1, <2>3
  <2> HIDE DEF n
  <2>6. toServer = Front(toServer, n) \o After(toServer, n) /\ After(toServer, n) \in Seq(Byte)
    BY <1>5, <2>4, Cut
  <2>7. Front(toServer, n) = e
    BY <2>1, <2>3
  <2>8. toServer = e \o toServer' /\ toServer' \in Seq(Byte)
    BY <1>8, <2>6, <2>7
  <2> QED
    BY <2>5, <2>8
<1>12. Reads
  BY <1>1, <1>10, <1>11
<1>13. srv' = srv + 1 /\ UNCHANGED <<script, at, conn, target, put, clientGot, sent, taken>>
  BY DEF SrvRead
<1> QED
  BY <1>1, <1>12, <1>13 DEF ServerReads

-----------------------------------------------------------------------------
(* Every step keeps the place of each side.                                *)

\* A longer piece of a message is the piece before it and what send took.
LEMMA SentMore ==
    ASSUME NEW e \in Seq(Byte), NEW k \in Nat, NEW n \in (k + 1)..Len(e)
    PROVE  /\ (IF k = 0 THEN <<>> ELSE Front(e, k)) \o SubSeq(e, k + 1, n) = Front(e, n)
           /\ Front(e, n) \in Seq(Byte) /\ n \in 0..Len(e) /\ n > 0
<1>1. Len(e) \in Nat /\ n \in 0..Len(e) /\ n > 0 /\ k \in 0..n /\ k \in 0..Len(e)
  BY LenProperties
<1>2. Front(e, n) \in Seq(Byte)
  BY <1>1, Cut
<1>3. CASE k = 0
  <2>1. <<>> \o Front(e, n) = Front(e, n)
    BY <1>2, ConcatEmptySeq
  <2> QED
    BY <1>1, <1>2, <1>3, <2>1 DEF Front
<1>4. CASE k # 0
  <2>1. 1 \in 1..(Len(e) + 1) /\ k \in (1 - 1)..Len(e) /\ n \in k..Len(e)
    BY <1>1
  <2>2. SubSeq(e, 1, k) \o SubSeq(e, k + 1, n) = SubSeq(e, 1, n)
    BY <2>1, ConcatAdjacentSubSeq, Zenon
  <2> QED
    BY <1>1, <1>2, <1>4, <2>2 DEF Front
<1> QED
  BY <1>3, <1>4

\* A message for one side is none for the other.
OneSided(s, n, to, other) ==
    /\ Told(s, to)[n] = Append(Told(s, to)[n - 1], s[n].data)
    /\ Told(s, other)[n] = Told(s, other)[n - 1]
    /\ Bytes(s, to)[n] = Bytes(s, to)[n - 1] \o Encode(s[n])
    /\ Bytes(s, other)[n] = Bytes(s, other)[n - 1]

LEMMA Sides ==
    ASSUME ConstantsAssumption, NEW s \in Seq(Message), NEW n \in 1..Len(s),
           NEW to, NEW other, s[n].to = to, to # other
    PROVE  OneSided(s, n, to, other)
<1>1. /\ Told(s, to)[n] = Append(Told(s, to)[n - 1], s[n].data)
      /\ Told(s, other)[n] = Told(s, other)[n - 1]
  BY ToldTrace
<1>2. /\ Bytes(s, to)[n] = Bytes(s, to)[n - 1] \o Encode(s[n])
      /\ Bytes(s, other)[n] = Bytes(s, other)[n - 1]
  BY BytesTrace, ZenonT(60)
<1> QED
  BY <1>1, <1>2 DEF OneSided

\* After a read the client is at the next message.
LEMMA ClientReadsKeep ==
    ASSUME ConstantsAssumption, LinesAssumption, TypeInv, StreamInvariant, ClientReads
    PROVE  StreamInvariant'
<1>1. /\ at \in 1..Len(script) /\ script[at].to = "client" /\ conn
      /\ clientGot' = Append(clientGot, script[at].data)
      /\ taken' = taken \o Encode(script[at])
      /\ target' = <<>> /\ at' = at + 1 /\ (at + 1) - 1 = at /\ conn' = conn
      /\ UNCHANGED <<script, srv, toServer, put, serverGot, sent>>
  BY DEF ClientReads, Current
<1>2. script \in Seq(Message) /\ Len(script) \in Nat
  BY Places DEF StreamInvariant
<1>3. /\ Told(script, "client")[at] = Append(Told(script, "client")[at - 1], script[at].data)
      /\ Bytes(script, "client")[at] = Bytes(script, "client")[at - 1] \o Encode(script[at])
      /\ Bytes(script, "server")[at] = Bytes(script, "server")[at - 1]
  <2>1. OneSided(script, at, "client", "server")
    BY <1>1, <1>2, Sides
  <2> QED
    BY <2>1 DEF OneSided
<1>4. put = 0
  BY <1>1 DEF StreamInvariant, HalfDone, Sending, Busy, Current, TypeInv
<1>5. InStep'
  <2>1. at' \in 1..Len(script) + 1 /\ at' - 1 = at
    BY <1>1, <1>2
  <2> QED
    BY <1>1, <1>3, <2>1 DEF StreamInvariant, InStep
<1>6. HalfDone'
  BY <1>1, <1>4 DEF HalfDone
<1>7. Upward'
  BY <1>1, <1>3, <1>4 DEF StreamInvariant, Upward, Up, SentNow
<1> QED
  BY <1>5, <1>6, <1>7 DEF StreamInvariant

\* So is the server.
LEMMA ServerReadsKeep ==
    ASSUME ConstantsAssumption, LinesAssumption, TypeInv, StreamInvariant, ServerReads
    PROVE  StreamInvariant'
<1> DEFINE e == Encode(script[srv])
           u == Bytes(script, "server")[srv - 1]
<1>1. /\ srv \in 1..Len(script) /\ script[srv].to = "server"
      /\ serverGot' = Append(serverGot, script[srv].data)
      /\ toServer = e \o toServer' /\ toServer' \in Seq(Byte)
      /\ srv' = srv + 1 /\ (srv + 1) - 1 = srv
      /\ UNCHANGED <<script, at, conn, target, put, clientGot, sent, taken>>
  BY DEF ServerReads
<1>2. script \in Seq(Message) /\ Len(script) \in Nat
  BY Places DEF StreamInvariant
<1>3. /\ Told(script, "server")[srv] = Append(Told(script, "server")[srv - 1], script[srv].data)
      /\ Bytes(script, "server")[srv] = u \o e
      /\ Bytes(script, "client")[srv] = Bytes(script, "client")[srv - 1]
  <2>1. OneSided(script, srv, "server", "client")
    BY <1>1, <1>2, Sides
  <2> QED
    BY <2>1 DEF OneSided
<1>4. InStep'
  <2>1. srv' \in 1..Len(script) + 1 /\ srv' - 1 = srv
    BY <1>1, <1>2
  <2> QED
    BY <1>1, <1>3, <2>1 DEF StreamInvariant, InStep
<1>5. HalfDone'
  BY <1>1 DEF StreamInvariant, HalfDone, Sending, Busy, Current
<1>6. Bytes(script, "server")[srv] \o toServer' = u \o toServer
  <2>1. e \in Seq(Byte) /\ u \in Seq(Byte) /\ toServer' \in Seq(Byte)
    <3>1. Between(script, "server", srv)
      BY <1>1, <1>2, BytesAt
    <3> QED
      BY <1>1, <3>1 DEF Between
  <2> HIDE DEF e, u
  <2>2. u \o (e \o toServer') = (u \o e) \o toServer'
    BY <2>1, Associative, Zenon
  <2> QED
    BY <1>1, <1>3, <2>2
<1>7. Upward'
  <2>1. Up(srv - 1)' \o toServer' = Up(srv - 1) \o toServer
    BY <1>1, <1>6 DEF Up
  <2>2. Up(at - 1)' = Up(at - 1) /\ SentNow' = SentNow /\ Up(Len(script))' = Up(Len(script))
    BY <1>1 DEF Up, SentNow, Current
  <2> QED
    BY <1>1, <2>1, <2>2 DEF StreamInvariant, Upward
<1> QED
  BY <1>4, <1>5, <1>7 DEF StreamInvariant

\* What the server sends are the bytes of its message.
LEMMA SrvSendKeeps ==
    ASSUME ConstantsAssumption, LinesAssumption, TypeInv, StreamInvariant, SrvSend
    PROVE  StreamInvariant'
<1>1. /\ srv <= Len(script) /\ script[srv].to = "client"
      /\ sent' = sent \o Encode(script[srv]) /\ srv' = srv + 1
      /\ UNCHANGED <<script, at, conn, toServer, target, put, clientGot, serverGot, taken>>
  BY DEF SrvSend, SrvAt
<1>2. script \in Seq(Message) /\ Len(script) \in Nat /\ srv \in 1..Len(script) /\ (srv + 1) - 1 = srv
  BY <1>1, Places DEF StreamInvariant
<1>3. /\ Told(script, "server")[srv] = Told(script, "server")[srv - 1]
      /\ Bytes(script, "client")[srv] = Bytes(script, "client")[srv - 1] \o Encode(script[srv])
      /\ Bytes(script, "server")[srv] = Bytes(script, "server")[srv - 1]
  <2>1. OneSided(script, srv, "client", "server")
    BY <1>1, <1>2, Sides
  <2> QED
    BY <2>1 DEF OneSided
<1>4. InStep'
  <2>1. srv' \in 1..Len(script) + 1 /\ srv' - 1 = srv
    BY <1>1, <1>2
  <2> QED
    BY <1>1, <1>3, <2>1 DEF StreamInvariant, InStep
<1>5. HalfDone'
  BY <1>1 DEF StreamInvariant, HalfDone, Sending, Busy, Current
<1>6. Upward'
  <2>1. Up(srv - 1)' = Up(srv - 1)
    BY <1>1, <1>2, <1>3 DEF Up
  <2>2. Up(at - 1)' = Up(at - 1) /\ SentNow' = SentNow /\ Up(Len(script))' = Up(Len(script))
    BY <1>1 DEF Up, SentNow, Current
  <2> QED
    BY <1>1, <2>1, <2>2 DEF StreamInvariant, Upward
<1> QED
  BY <1>4, <1>5, <1>6 DEF StreamInvariant

\* What send takes is the next piece of the message.
LEMMA SendKeeps ==
    ASSUME ConstantsAssumption, LinesAssumption, TypeInv, StreamInvariant, Send
    PROVE  StreamInvariant'
<1> DEFINE e == Encode(Current)
           U == Bytes(script, "server")
<1>1. PICK n \in (put + 1)..Len(e) :
          toServer' = toServer \o SubSeq(e, put + 1, n) /\ put' = n
  BY DEF Send
<1>2. /\ Sending /\ conn /\ at <= Len(script) /\ script[at].to = "server" /\ target = <<>>
      /\ UNCHANGED <<script, at, srv, conn, target, clientGot, serverGot, sent, taken>>
  BY DEF Send, Sending, Busy, Current, StreamInvariant, HalfDone
<1>3. script \in Seq(Message) /\ at \in 1..Len(script) /\ at - 1 \in 0..Len(script)
      /\ srv - 1 \in 0..Len(script) /\ Len(script) \in Nat
  BY <1>2, Places DEF StreamInvariant
<1>4. /\ e \in Seq(Byte) /\ U[at - 1] \in Seq(Byte) /\ U[at] = U[at - 1] \o e
      /\ \E y \in Seq(Byte) : U[Len(script)] = U[at] \o y
  <2>1. /\ Encode(script[at]) \in Seq(Byte) /\ U[at - 1] \in Seq(Byte)
        /\ U[at] = U[at - 1] \o Encode(script[at])
        /\ \E y \in Seq(Byte) : U[Len(script)] = U[at] \o y
    <3>1. Between(script, "server", at)
      BY <1>2, <1>3, BytesAt
    <3> QED
      BY <3>1 DEF Between
  <2> QED
    BY <2>1 DEF Current
<1>5. PICK y \in Seq(Byte) : U[Len(script)] = U[at] \o y
  BY <1>4
<1>6. U[srv - 1] \in Seq(Byte) /\ toServer \in Seq(Byte) /\ put \in Nat
  BY <1>3, BytesTrace, ZenonT(60) DEF TypeInv
<1>7. U[srv - 1] \o toServer = U[at - 1] \o SentNow
  BY <1>2 DEF StreamInvariant, Upward, Up
<1> DEFINE more == SubSeq(e, put + 1, n)
           f    == Front(e, n)
           w    == U[srv - 1]
           a    == U[at - 1]
<1> HIDE DEF U
<1>8. SentNow \o more = f /\ f \in Seq(Byte) /\ n \in 0..Len(e) /\ n > 0
  <2>1. SentNow = IF put = 0 THEN <<>> ELSE Front(e, put)
    BY DEF SentNow
  <2> HIDE DEF e
  <2> QED
    BY <1>1, <1>4, <1>6, <2>1, SentMore
<1>9. more \in Seq(Byte) /\ SentNow \in Seq(Byte)
  <2> HIDE DEF e
  <2>1. Len(e) \in Nat /\ n \in Int /\ put + 1 \in Int /\ \A i \in 1..Len(e) : e[i] \in Byte
    BY <1>1, <1>4, <1>6, LenProperties, ElementOfSeq
  <2>2. \A i \in (put + 1)..n : e[i] \in Byte
    BY <1>1, <1>6, <2>1
  <2>3. more \in Seq(Byte)
    BY <2>1, <2>2, SubSeqProperties
  <2>4. SentNow = IF put = 0 THEN <<>> ELSE Front(e, put)
    BY DEF SentNow, e
  <2>5. put \in 0..Len(e)
    BY <1>1, <1>6, <2>1
  <2>6. Front(e, put) \in Seq(Byte) /\ <<>> \in Seq(Byte)
    BY <1>4, <2>5, Cut, EmptySeq
  <2> QED
    BY <2>3, <2>4, <2>6
<1>10. w \o toServer' = a \o f
  <2>1. w \in Seq(Byte) /\ toServer \in Seq(Byte) /\ more \in Seq(Byte)
    BY <1>6, <1>9
  <2>2. a \in Seq(Byte) /\ SentNow \in Seq(Byte) /\ more \in Seq(Byte)
    BY <1>4, <1>9
  <2>3. toServer' = toServer \o more
    BY <1>1
  <2>4. w \o toServer = a \o SentNow
    BY <1>7
  <2>5. SentNow \o more = f
    BY <1>8
  <2> HIDE DEF w, a, more, f
  <2>6. w \o (toServer \o more) = (w \o toServer) \o more
    BY <2>1, Associative, ZenonT(60)
  <2>7. a \o (SentNow \o more) = (a \o SentNow) \o more
    BY <2>2, Associative, ZenonT(60)
  <2> QED
    BY <2>3, <2>4, <2>5, <2>6, <2>7
<1>11. PICK rest \in Seq(Byte) : (w \o toServer') \o rest = U[Len(script)]
  <2> DEFINE g == After(e, n)
  <2>1. g \in Seq(Byte) /\ f \o g = e
    <3> HIDE DEF e
    <3> QED
      BY <1>4, <1>8, Cut
  <2>2. a \in Seq(Byte) /\ f \in Seq(Byte)
    BY <1>4, <1>8
  <2>3. (a \o e) \o y = U[Len(script)]
    BY <1>4, <1>5
  <2> HIDE DEF a, f, g
  <2>4. a \o (f \o g) = (a \o f) \o g
    BY <2>1, <2>2, Associative, ZenonT(60)
  <2> DEFINE af == a \o f
  <2>5. af \in Seq(Byte) /\ g \o y \in Seq(Byte)
    BY <2>1, <2>2, ConcatProperties
  <2>6. (af \o g) \o y = U[Len(script)]
    BY <2>1, <2>3, <2>4
  <2>7. af \o (g \o y) = (af \o g) \o y
    <3> HIDE DEF af
    <3> QED
      BY <2>1, <2>5, Associative, ZenonT(60)
  <2> QED
    BY <1>10, <2>5, <2>6, <2>7
<1>12. InStep'
  BY <1>2 DEF StreamInvariant, InStep
<1>13. HalfDone'
  BY <1>1, <1>2, <1>8 DEF HalfDone, Sending, Busy, Current
<1>14. Upward'
  <2>1. SentNow' = f
    BY <1>1, <1>2, <1>8 DEF SentNow, Current
  <2>2. Up(srv - 1)' = w /\ Up(at - 1)' = a /\ Up(Len(script))' = U[Len(script)]
    BY <1>2 DEF Up, U
  <2> QED
    BY <1>10, <1>11, <2>1, <2>2 DEF Upward
<1> QED
  BY <1>12, <1>13, <1>14 DEF StreamInvariant

\* When all of it is taken, the client is at the next message.
LEMMA SendDoneKeeps ==
    ASSUME ConstantsAssumption, LinesAssumption, TypeInv, StreamInvariant, SendDone
    PROVE  StreamInvariant'
<1> DEFINE e == Encode(Current)
           U == Bytes(script, "server")
<1>1. /\ conn /\ at <= Len(script) /\ script[at].to = "server" /\ target = <<>>
      /\ put = Len(e) /\ at' = at + 1 /\ put' = 0 /\ (at + 1) - 1 = at
      /\ UNCHANGED <<script, srv, conn, toServer, target, clientGot, serverGot, sent, taken>>
  BY DEF SendDone, Sending, Busy, Current, StreamInvariant, HalfDone, TypeInv
<1>2. script \in Seq(Message) /\ at \in 1..Len(script) /\ Len(script) \in Nat
  BY <1>1, Places DEF StreamInvariant
<1>3. e \in Seq(Byte) /\ U[at] = U[at - 1] \o e /\ Told(script, "client")[at] = Told(script, "client")[at - 1]
      /\ Bytes(script, "client")[at] = Bytes(script, "client")[at - 1]
  <2>1. e \in Seq(Byte)
    <3>1. Between(script, "server", at)
      BY <1>1, <1>2, BytesAt
    <3> QED
      BY <3>1 DEF Between, Current
  <2>2. OneSided(script, at, "server", "client")
    BY <1>1, <1>2, Sides
  <2> QED
    BY <2>1, <2>2 DEF OneSided, Current
<1>4. SentNow = e
  <2>1. SentNow = IF put = 0 THEN <<>> ELSE Front(e, put)
    BY DEF SentNow
  <2> HIDE DEF e
  <2>2. SubSeq(e, 1, Len(e)) = e /\ (Len(e) = 0 => e = <<>>)
    BY <1>3, SubSeqFull, EmptySeq
  <2> QED
    BY <1>1, <2>1, <2>2 DEF Front
<1>5. InStep'
  <2>1. at' \in 1..Len(script) + 1 /\ at' - 1 = at
    BY <1>1, <1>2
  <2> QED
    BY <1>1, <1>3, <2>1 DEF StreamInvariant, InStep
<1>6. HalfDone'
  BY <1>1 DEF HalfDone
<1>7. Upward'
  <2>1. Up(srv - 1)' = Up(srv - 1) /\ Up(Len(script))' = Up(Len(script)) /\ SentNow' = <<>>
    BY <1>1 DEF Up, SentNow
  <2>2. Up(at - 1)' \o <<>> = U[at]
    <3>1. Up(at - 1)' = U[at]
      BY <1>1 DEF Up
    <3>2. U[at] \in Seq(Byte)
      <4>1. at \in 0..Len(script)
        BY <1>2
      <4> QED
        BY <1>2, <4>1, BytesTrace
    <3> HIDE DEF U
    <3> QED
      BY <3>1, <3>2, ConcatEmptySeq
  <2>3. Up(srv - 1) \o toServer = U[at]
    BY <1>1, <1>3, <1>4 DEF StreamInvariant, Upward, Up
  <2> QED
    BY <1>1, <2>1, <2>2, <2>3 DEF StreamInvariant, Upward
<1> QED
  BY <1>5, <1>6, <1>7 DEF StreamInvariant

\* Both sides begin at the first message.
LEMMA ConnectKeeps ==
    ASSUME ConstantsAssumption, LinesAssumption, Connect
    PROVE  StreamInvariant'
<1>1. /\ script' \in Scripts /\ at' = 1 /\ srv' = 1 /\ toServer' = <<>> /\ target' = <<>> /\ put' = 0
      /\ clientGot' = <<>> /\ serverGot' = <<>> /\ sent' = <<>> /\ taken' = <<>> /\ 1 - 1 = 0
  BY DEF Connect
<1>2. PICK s \in Seq(Message) : s = script'
  BY <1>1 DEF ConstantsAssumption
<1>3. /\ Len(s) \in Nat
      /\ Told(s, "client")[0] = <<>> /\ Told(s, "server")[0] = <<>>
      /\ Bytes(s, "client")[0] = <<>> /\ Bytes(s, "server")[0] = <<>>
  BY ToldTrace, BytesTrace
<1>4. InStep'
  <2>1. at' - 1 = 0 /\ srv' - 1 = 0 /\ at' \in 1..Len(s) + 1 /\ srv' \in 1..Len(s) + 1
    BY <1>1, <1>3
  <2> QED
    BY <1>1, <1>2, <1>3, <2>1 DEF InStep
<1>5. HalfDone'
  BY <1>1 DEF HalfDone
<1>6. Upward'
  <2> DEFINE all == Bytes(s, "server")[Len(s)]
  <2>1. all \in Seq(Byte)
    <3>1. Len(s) \in 0..Len(s)
      BY <1>3
    <3> QED
      BY <3>1, BytesTrace
  <2>2. Up(srv - 1)' = <<>> /\ Up(at - 1)' = <<>> /\ SentNow' = <<>> /\ Up(Len(script))' = all
    BY <1>1, <1>2, <1>3 DEF Up, SentNow
  <2> HIDE DEF all
  <2>3. (<<>> \o <<>>) \o all = all
    BY <2>1, ConcatEmptySeq, EmptySeq
  <2> QED
    BY <1>1, <2>1, <2>2, <2>3 DEF Upward
<1> QED
  BY <1>4, <1>5, <1>6 DEF StreamInvariant

\* What does not touch the messages, the calls or the way up keeps it all.
LEMMA QuietKeeps ==
    ASSUME StreamInvariant, HalfDone', conn' => conn,
           UNCHANGED <<script, at, srv, toServer, put, clientGot, serverGot, sent, taken>>
    PROVE  StreamInvariant'
<1>1. InStep'
  BY DEF StreamInvariant, InStep
<1>2. Upward'
  BY DEF StreamInvariant, Upward, Up, SentNow, Current
<1> QED
  BY <1>1, <1>2 DEF StreamInvariant

\* Hanging up forgets what only the client's end holds.
LEMMA HangupKeeps ==
    ASSUME StreamInvariant, Hangup
    PROVE  StreamInvariant'
<1>1. /\ conn' = FALSE
      /\ UNCHANGED <<script, at, srv, toServer, clientGot, serverGot, sent, taken>>
  BY DEF Hangup
<1>2. InStep'
  BY <1>1 DEF StreamInvariant, InStep
<1>3. HalfDone'
  BY <1>1 DEF HalfDone
<1>4. Upward'
  BY <1>1 DEF StreamInvariant, Upward, Up
<1> QED
  BY <1>2, <1>3, <1>4 DEF StreamInvariant

\* A body read never copies more than the body.
LEMMA DrainKeeps ==
    ASSUME ConstantsAssumption, LinesAssumption, TypeInv, StreamInvariant, DrainBuffer \/ RecvBody
    PROVE  StreamInvariant'
<1>1. /\ Busy("body", "client") /\ Wanted > 0
      /\ UNCHANGED <<script, at, srv, conn, toServer, put, clientGot, serverGot, sent, taken>>
  BY DEF DrainBuffer, RecvBody
<1>2. Wanted \in Nat /\ Len(Current.data) \in Nat /\ Len(target) \in Nat
  <2>1. Current \in Message
    BY <1>1, AtMessage DEF Busy, Current, TypeInv
  <2> QED
    BY <1>1, <2>1, WantedType, EncodeType, LenProperties DEF TypeInv
<1>3. PICK f \in Seq(Byte) : target' = target \o f /\ Len(f) <= Wanted
  <2>1. CASE DrainBuffer
    <3> DEFINE n == Min2(Len(buf), Wanted)
    <3>1. buf \in Seq(Byte) /\ Len(buf) \in Nat
      BY LenProperties DEF TypeInv
    <3>2. n \in 0..Len(buf) /\ n <= Wanted
      BY <1>2, <3>1 DEF Min2
    <3>3. Front(buf, n) \in Seq(Byte) /\ Len(Front(buf, n)) = n
      BY <3>1, <3>2, Cut
    <3>4. target' = target \o Front(buf, n)
      BY <2>1 DEF DrainBuffer
    <3> QED
      BY <3>2, <3>3, <3>4
  <2>2. CASE RecvBody
    <3>1. PICK n \in 1..Min2(Len(toClient), Min2(RecvMax, Wanted)) :
              target' = target \o Front(toClient, n)
      BY <2>2 DEF RecvBody
    <3>2. toClient \in Seq(Byte) /\ Len(toClient) \in Nat /\ RecvMax \in Nat
      BY LenProperties DEF TypeInv, ConstantsAssumption
    <3>3. n \in 0..Len(toClient)
      BY <1>2, <3>1, <3>2, BodyBytes
    <3>4. n <= Wanted
      BY <1>2, <3>1, <3>2 DEF Min2
    <3>5. Front(toClient, n) \in Seq(Byte) /\ Len(Front(toClient, n)) = n
      BY <3>2, <3>3, Cut
    <3> QED
      BY <3>1, <3>4, <3>5
  <2> QED
    BY <2>1, <2>2
<1>4. Len(target') = Len(target) + Len(f) /\ Len(f) \in Nat
  <2>1. target \in Seq(Byte)
    BY DEF TypeInv
  <2> QED
    BY <1>3, <2>1, ConcatProperties, LenProperties
<1>5. Len(target') <= Len(Current.data)
  BY <1>2, <1>3, <1>4 DEF Wanted
<1>6. HalfDone'
  BY <1>1, <1>5 DEF StreamInvariant, HalfDone, Sending, Busy, Current
<1> QED
  BY <1>1, <1>6, QuietKeeps

\* Every step is one of these.
LEMMA StreamStep ==
    ASSUME ConstantsAssumption, LinesAssumption, TypeInv, Conserved, StreamInvariant, [Next]_vars
    PROVE  StreamInvariant'
<1>1. CASE Connect
  BY <1>1, ConnectKeeps
<1>2. CASE ReadLine \/ ReadExact
  BY <1>2, ReadLineReads, ReadExactReads, ClientReadsKeep
<1>3. CASE LineTooLong \/ BufferFull \/ RecvFails \/ SendFails \/ SessionDone
  BY <1>3, HangupKeeps DEF LineTooLong, BufferFull, RecvFails, SendFails, SessionDone
<1>4. CASE DrainBuffer \/ RecvBody
  BY <1>4, DrainKeeps
<1>5. CASE Send
  BY <1>5, SendKeeps
<1>6. CASE SendDone
  BY <1>6, SendDoneKeeps
<1>7. CASE SrvSend
  BY <1>7, SrvSendKeeps
<1>8. CASE SrvRead
  BY <1>8, SrvReadReads, ServerReadsKeep
<1>9. CASE RecvLine \/ ConnectionLost \/ UNCHANGED vars
  <2>1. UNCHANGED <<script, at, srv, conn, toServer, target, put, clientGot, serverGot, sent, taken>>
    BY <1>9 DEF RecvLine, ConnectionLost, vars
  <2>2. HalfDone'
    BY <2>1 DEF StreamInvariant, HalfDone, Sending, Busy, Current
  <2> QED
    BY <2>1, <2>2, QuietKeeps
<1> QED
  BY <1>1, <1>2, <1>3, <1>4, <1>5, <1>6, <1>7, <1>8, <1>9 DEF Next, CliStep, SrvStep

\* Before the first session there is nothing to say.
LEMMA StreamInit ==
    ASSUME ConstantsAssumption, Init
    PROVE  StreamInvariant
<1>1. /\ script = <<>> /\ at = 1 /\ srv = 1 /\ toServer = <<>> /\ ~conn
      /\ clientGot = <<>> /\ serverGot = <<>> /\ sent = <<>> /\ taken = <<>> /\ 1 - 1 = 0
  BY DEF Init
<1>2. script \in Seq(Message) /\ Len(script) = 0
  BY <1>1, EmptySeq
<1>3. /\ Told(script, "client")[0] = <<>> /\ Told(script, "server")[0] = <<>>
      /\ Bytes(script, "client")[0] = <<>> /\ Bytes(script, "server")[0] = <<>>
  BY <1>2, ToldTrace, BytesTrace, ZenonT(60)
<1>4. InStep
  <2>1. at - 1 = 0 /\ srv - 1 = 0 /\ at \in 1..Len(script) + 1 /\ srv \in 1..Len(script) + 1
    BY <1>1, <1>2
  <2> QED
    BY <1>1, <1>3, <2>1 DEF InStep
<1>5. HalfDone
  BY <1>1 DEF HalfDone
<1>6. Upward
  <2>1. <<>> \in Seq(Byte) /\ (<<>> \o <<>>) \o <<>> = <<>>
    BY EmptySeq, ConcatEmptySeq
  <2> QED
    BY <1>1, <1>2, <1>3, <2>1 DEF Upward, Up
<1> QED
  BY <1>4, <1>5, <1>6 DEF StreamInvariant

\* In every state each side is where the other's bytes have brought it: the
\* invariant that the two properties of the stream follow from.
THEOREM StreamsInStep ==
    ASSUME ConstantsAssumption, LinesAssumption PROVE Spec => []StreamInvariant
<1>1. Init => StreamInvariant
  BY StreamInit
<1>2. TypeInv /\ Conserved /\ StreamInvariant /\ [Next]_vars => StreamInvariant'
  BY StreamStep
<1> QED
  BY <1>1, <1>2, TransportTypes, TransportConserves, PTL DEF Spec

-----------------------------------------------------------------------------
(* What the stream promises.                                               *)

\* The steps that end a session, each with its cause.
LEMMA CausesStep ==
    ASSUME ConstantsAssumption, LinesAssumption, TypeInv, Conserved, StreamInvariant,
           [Next]_vars, Unbroken
    PROVE  ~link \/ (Current.kind = "line" /\ Len(Current.data) >= LineCapacity)
<1>1. conn /\ ~conn' /\ at <= Len(script)
  BY DEF Unbroken
<1>2. BufSize \in Nat /\ LineCapacity \in Nat /\ LineCapacity + 1 <= BufSize
  BY DEF ConstantsAssumption
<1>3. CASE LineTooLong
  <2>1. Busy("line", "client") /\ HasLine(buf) /\ Len(LineAt(buf, Newline(buf))) + 1 > LineCapacity
    BY <1>3 DEF LineTooLong
  <2>2. /\ Current.kind = "line" /\ Len(Current.data) \in Nat
        /\ LineAt(buf, Newline(buf)) = Current.data
    BY <2>1, LineAhead
  <2>3. Len(Current.data) + 1 > LineCapacity
    BY <2>1, <2>2
  <2> QED
    BY <1>2, <2>2, <2>3
<1>4. CASE BufferFull
  <2>1. Busy("line", "client") /\ ~HasLine(buf) /\ Len(buf) >= BufSize
    BY <1>4 DEF BufferFull
  <2>2. /\ Current.kind = "line" /\ Len(Current.data) \in Nat /\ Len(buf) \in Nat
        /\ Len(buf) <= Len(Current.data) + 1
    BY <2>1, LineAhead
  <2> QED
    BY <1>2, <2>1, <2>2
<1>5. CASE RecvFails \/ SendFails \/ SessionDone
  <2>1. Len(script) \in Nat /\ at \in Nat
    BY LenProperties DEF TypeInv
  <2> QED
    BY <1>1, <1>5, <2>1 DEF RecvFails, SendFails, SessionDone
<1>6. CASE Connect \/ ReadLine \/ RecvLine \/ DrainBuffer \/ RecvBody \/ ReadExact \/ Send
           \/ SendDone \/ SrvSend \/ SrvRead \/ ConnectionLost \/ UNCHANGED vars
  BY <1>1, <1>6
     DEF Connect, ReadLine, RecvLine, DrainBuffer, RecvBody, ReadExact, Send, SendDone, SrvSend,
         SrvRead, ConnectionLost, vars
<1> QED
  BY <1>3, <1>4, <1>5, <1>6 DEF Next, CliStep, SrvStep

\* A session is broken off only for a lost connection or a line that does not
\* fit: no way of cutting the stream makes the client's messages "Antwort zu
\* lang" or "Empfangspuffer voll" out of lines that do.
THEOREM BreaksOnlyForCause ==
    ASSUME ConstantsAssumption, LinesAssumption PROVE Spec => BreaksForCause
<1>1. /\ TypeInv /\ Conserved /\ StreamInvariant /\ [Next]_vars
      => [Unbroken => \/ ~link
                      \/ Current.kind = "line" /\ Len(Current.data) >= LineCapacity]_vars
  BY CausesStep
<1> QED
  BY <1>1, TransportTypes, TransportConserves, StreamsInStep, PTL DEF Spec, BreaksForCause

\* The next of the messages still to come is the one that is added.
ComesNext(t, g, d) ==
    /\ Rest(t, Len(g)) # <<>> /\ Head(Rest(t, Len(g))) = d
    /\ Tail(Rest(t, Len(g))) = Rest(t, Len(Append(g, d)))

LEMMA NextToCome ==
    ASSUME NEW A, NEW g \in Seq(A), NEW d \in A, NEW t \in Seq(A), NEW z \in Seq(A),
           t = Append(g, d) \o z
    PROVE  ComesNext(t, g, d)
<1> DEFINE h == Append(g, d)
<1>1. Len(g) \in Nat /\ h \in Seq(A) /\ Len(h) = Len(g) + 1 /\ h[Len(g) + 1] = d /\ Len(z) \in Nat
  BY AppendProperties, LenProperties
<1> HIDE DEF h
<1>2. Len(t) = Len(g) + 1 + Len(z) /\ t[Len(g) + 1] = d
  BY <1>1, ConcatProperties DEF h
<1>3. Len(g) + 1 \in 1..Len(t) /\ Len(t) \in (Len(g) + 1)..Len(t)
  BY <1>1, <1>2
<1>4. /\ SubSeq(t, Len(g) + 1, Len(t)) # <<>>
      /\ Head(SubSeq(t, Len(g) + 1, Len(t))) = t[Len(g) + 1]
      /\ Tail(SubSeq(t, Len(g) + 1, Len(t))) = SubSeq(t, (Len(g) + 1) + 1, Len(t))
  <2>1. \A i \in (Len(g) + 1)..Len(t) : t[i] \in A
    <3>1. \A i \in 1..Len(t) : t[i] \in A
      BY ElementOfSeq
    <3> QED
      BY <1>1, <3>1
  <2>2. Len(SubSeq(t, Len(g) + 1, Len(t))) # 0 /\ Len(<<>>) = 0
    BY <1>1, <1>2, <1>3, <2>1, SubSeqProperties
  <2>3. \A m \in 1..Len(t) : \A n \in m..Len(t) :
            /\ Head(SubSeq(t, m, n)) = t[m]
            /\ Tail(SubSeq(t, m, n)) = SubSeq(t, m + 1, n)
    BY HeadTailOfSubSeq
  <2> QED
    BY <1>3, <2>2, <2>3
<1> QED
  BY <1>1, <1>2, <1>4 DEF ComesNext, Rest, h

\* Each side's next read is the next message of MessageStream.
LEMMA ReadsRefine ==
    ASSUME ConstantsAssumption, LinesAssumption, TypeInv, StreamInvariant
    PROVE  /\ ClientReads /\ UNCHANGED <<serverGot, conn>> => Messages!ToClient
           /\ ServerReads => Messages!ToServer
<1> DEFINE C == Told(script, "client")
           S == Told(script, "server")
<1>1. /\ script \in Seq(Message) /\ Len(script) \in Nat
      /\ clientGot = C[at - 1] /\ serverGot = S[srv - 1]
      /\ clientGot \in Seq(Seq(Byte)) /\ serverGot \in Seq(Seq(Byte))
  BY Places DEF StreamInvariant, InStep, TypeInv
<1>2. ASSUME NEW to, NEW g \in Seq(Seq(Byte)), NEW n \in 1..Len(script), script[n].to = to,
             g = Told(script, to)[n - 1]
      PROVE  /\ Rest(AllTold(script, to), Len(g)) # <<>>
             /\ Head(Rest(AllTold(script, to), Len(g))) = script[n].data
             /\ Tail(Rest(AllTold(script, to), Len(g)))
                  = Rest(AllTold(script, to), Len(Append(g, script[n].data)))
  <2> DEFINE t == AllTold(script, to)
             d == script[n].data
  <2>1. /\ Told(script, to) \in [0..Len(script) -> Seq(Seq(Byte))]
        /\ d \in Seq(Byte) /\ Told(script, to)[n] = Append(g, d)
        /\ t = Told(script, to)[Len(script)]
    BY <1>1, <1>2, ToldTrace, SMTT(30)
  <2>2. Begins(Told(script, to), Seq(Byte), Len(script), n)
    <3>1. n \in 0..Len(script)
      BY <1>1
    <3> QED
      BY <1>1, <3>1, ToldTrace
  <2>3. PICK z \in Seq(Seq(Byte)) : t = Append(g, d) \o z
    BY <2>1, <2>2 DEF Begins
  <2>4. t \in Seq(Seq(Byte))
    <3>1. Len(script) \in 0..Len(script)
      BY <1>1
    <3> QED
      BY <2>1, <3>1
  <2> HIDE DEF t, d
  <2>5. ComesNext(t, g, d)
    BY <2>1, <2>3, <2>4, NextToCome
  <2> QED
    BY <2>5 DEF ComesNext, t, d
<1>3. ASSUME ClientReads, UNCHANGED <<serverGot, conn>> PROVE Messages!ToClient
  <2>1. /\ conn /\ at \in 1..Len(script) /\ script[at].to = "client"
        /\ clientGot' = Append(clientGot, script[at].data) /\ script' = script
    BY <1>3 DEF ClientReads, Current
  <2>2. /\ Rest(AllTold(script, "client"), Len(clientGot)) # <<>>
        /\ Head(Rest(AllTold(script, "client"), Len(clientGot))) = script[at].data
        /\ Tail(Rest(AllTold(script, "client"), Len(clientGot)))
             = Rest(AllTold(script, "client"), Len(clientGot'))
    BY <1>1, <1>2, <2>1
  <2> QED
    BY <1>3, <2>1, <2>2 DEF Messages!ToClient
<1>4. ASSUME ServerReads PROVE Messages!ToServer
  <2>1. /\ srv \in 1..Len(script) /\ script[srv].to = "server"
        /\ serverGot' = Append(serverGot, script[srv].data)
        /\ UNCHANGED <<script, conn, clientGot>>
    BY <1>4 DEF ServerReads
  <2>2. /\ Rest(AllTold(script, "server"), Len(serverGot)) # <<>>
        /\ Head(Rest(AllTold(script, "server"), Len(serverGot))) = script[srv].data
        /\ Tail(Rest(AllTold(script, "server"), Len(serverGot)))
             = Rest(AllTold(script, "server"), Len(serverGot'))
    BY <1>1, <1>2, <2>1
  <2> QED
    BY <2>1, <2>2 DEF Messages!ToServer
<1> QED
  BY <1>3, <1>4

\* A connection opens with all of a conversation to come.
LEMMA ConnectRefines ==
    ASSUME ConstantsAssumption, Connect
    PROVE  Messages!Open
<1>1. /\ ~conn /\ conn' = TRUE /\ script' \in Scripts /\ clientGot' = <<>> /\ serverGot' = <<>>
  BY DEF Connect
<1>2. PICK s \in Scripts : s = script' /\ s \in Seq(Message)
  BY <1>1 DEF ConstantsAssumption
<1>3. ASSUME NEW to PROVE Rest(AllTold(s, to), Len(<<>>)) = AllTold(s, to)
  <2>1. AllTold(s, to) \in Seq(Seq(Byte))
    <3>1. Len(s) \in 0..Len(s)
      BY <1>2, LenProperties
    <3> QED
      BY <1>2, <3>1, ToldTrace
  <2>2. SubSeq(AllTold(s, to), 1, Len(AllTold(s, to))) = AllTold(s, to)
    BY <2>1, SubSeqFull
  <2>3. Len(<<>>) + 1 = 1
    OBVIOUS
  <2> QED
    BY <2>2, <2>3 DEF Rest
<1>4. /\ Rest(AllTold(script, "client"), Len(clientGot))' = AllTold(s, "client")
      /\ Rest(AllTold(script, "server"), Len(serverGot))' = AllTold(s, "server")
  BY <1>1, <1>2, <1>3
<1> DEFINE c == [down |-> AllTold(s, "client"), up |-> AllTold(s, "server")]
<1>5. c \in {[down |-> AllTold(x, "client"), up |-> AllTold(x, "server")] : x \in Scripts}
      /\ c.down = AllTold(s, "client") /\ c.up = AllTold(s, "server")
  BY <1>2
<1> HIDE DEF c
<1> QED
  BY <1>1, <1>4, <1>5 DEF Messages!Open

\* Every step is one of MessageStream's, or none.
LEMMA RefinesStep ==
    ASSUME ConstantsAssumption, LinesAssumption, TypeInv, Conserved, StreamInvariant, [Next]_vars
    PROVE  [Messages!Next]_Messages!vars
<1>1. CASE Connect
  BY <1>1, ConnectRefines DEF Messages!Next
<1>2. CASE ReadLine \/ ReadExact
  <2>1. ClientReads
    BY <1>2, ReadLineReads, ReadExactReads
  <2>2. UNCHANGED <<serverGot, conn>>
    BY <1>2 DEF ReadLine, ReadExact
  <2> QED
    BY <2>1, <2>2, ReadsRefine DEF Messages!Next
<1>3. CASE SrvRead
  <2>1. ServerReads
    BY <1>3, SrvReadReads
  <2> QED
    BY <2>1, ReadsRefine DEF Messages!Next
<1>4. CASE LineTooLong \/ BufferFull \/ RecvFails \/ SendFails \/ SessionDone
  <2>1. Hangup /\ conn
    BY <1>4 DEF LineTooLong, BufferFull, RecvFails, SendFails, SessionDone, Sending, Busy
  <2>2. conn' = FALSE /\ UNCHANGED <<script, clientGot, serverGot>>
    BY <2>1 DEF Hangup
  <2> QED
    BY <2>1, <2>2 DEF Messages!Next, Messages!Close
<1>5. CASE RecvLine \/ DrainBuffer \/ RecvBody \/ Send \/ SendDone \/ SrvSend \/ ConnectionLost
           \/ UNCHANGED vars
  <2>1. UNCHANGED <<script, conn, clientGot, serverGot>>
    BY <1>5 DEF RecvLine, DrainBuffer, RecvBody, Send, SendDone, SrvSend, ConnectionLost, vars
  <2> QED
    BY <2>1 DEF Messages!vars
<1> QED
  BY <1>1, <1>2, <1>3, <1>4, <1>5 DEF Next, CliStep, SrvStep

\* Without a session nothing is to come.
LEMMA RefinesInit ==
    ASSUME ConstantsAssumption, Init
    PROVE  Messages!Init
<1>1. script = <<>> /\ clientGot = <<>> /\ serverGot = <<>> /\ conn = FALSE
  BY DEF Init
<1>2. <<>> \in Seq(Message) /\ Len(<<>>) = 0
  BY EmptySeq
<1>3. AllTold(<<>>, "client") = <<>> /\ AllTold(<<>>, "server") = <<>>
  BY <1>2, ToldTrace, ZenonT(60)
<1>4. Rest(<<>>, 0) = <<>>
  BY <1>2, SubSeqEmpty DEF Rest
<1> QED
  BY <1>1, <1>2, <1>3, <1>4 DEF Messages!Init

\* However the streams are cut and wherever the connection is lost, the code
\* implements MessageStream: every line and body is read whole, unchanged, in
\* order and once.
THEOREM Delivers ==
    ASSUME ConstantsAssumption, LinesAssumption PROVE Spec => DeliversMessages
<1>1. Init => Messages!Init
  BY RefinesInit
<1>2. TypeInv /\ Conserved /\ StreamInvariant /\ [Next]_vars => [Messages!Next]_Messages!vars
  BY RefinesStep
<1> QED
  BY <1>1, <1>2, TransportTypes, TransportConserves, StreamsInStep, PTL
     DEF Spec, DeliversMessages, Messages!Spec
=============================================================================
