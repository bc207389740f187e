---------------------------- MODULE FramingProofs ----------------------------
(***************************************************************************)
(* Framing, for every header size, payload limit and number of packets:    *)
(* only whole packets are accepted, and packet by packet the connection is *)
(* PacketStream.  The argument is where things lie in the stream: packets  *)
(* do not overlap, and a receive that has read a header right has the rest *)
(* of that packet before it.  And on top of it the loops of FramedExchange.*)
(***************************************************************************)
EXTENDS FramedExchange, SequenceTheorems, FiniteSetTheorems, TLAPS

Header == [start: Nat, size: Nat]

\* Packets lie behind one another, and all but one that was broken off have been
\* written to the end.
LaidOut ==
  /\ \A i, k \in DOMAIN headers : i < k => endOf(i) <= headers[k].start
  /\ \A k \in DOMAIN headers : headers[k].start <= written
  /\ ~ended => \A k \in DOMAIN headers : endOf(k) <= written

\* Reading a header, the receiver stops HeaderSize bytes after it began; reading
\* a payload, at the end of the packet whose header it read.
ReadingInv ==
  /\ reading.part # "none" => reading.start <= consumed
  /\ reading.part = "header" => consumed + reading.missing = reading.start + HeaderSize
  /\ reading.part = "payload" =>
       \E k \in DOMAIN headers : /\ headers[k].start = reading.start
                                 /\ consumed + reading.missing = endOf(k)

FrameInv == FrameTypeOK /\ LaidOut /\ ReadingInv /\ AcceptedWhole

\* Positions in the stream are numbers.
LEMMA HeaderType ==
  ASSUME FrameTypeOK, NEW k \in DOMAIN headers
  PROVE  /\ k \in Nat
         /\ headers[k].start \in Nat
         /\ headers[k].size \in Nat
         /\ endOf(k) \in Nat
         /\ headers[k].start + HeaderSize <= endOf(k)
<1>1. headers \in Seq(Header)
  BY DEF FrameTypeOK, Header
<1>2. DOMAIN headers = 1 .. Len(headers) /\ Len(headers) \in Nat
  BY <1>1, LenProperties
<1>3. headers[k] \in Header /\ k \in Nat
  BY <1>1, <1>2, ElementOfSeq
<1>4. headers[k].start \in Nat /\ headers[k].size \in Nat
  BY <1>3 DEF Header
<1> QED
  BY <1>3, <1>4, SizeAssumption DEF endOf

\* Two packets do not begin at the same place.
LEMMA StartsDiffer ==
  ASSUME FrameTypeOK, LaidOut, NEW i \in DOMAIN headers, NEW k \in DOMAIN headers,
         headers[i].start = headers[k].start
  PROVE  i = k
<1>1. \A a, b \in DOMAIN headers : a < b => headers[a].start < headers[b].start
  <2> SUFFICES ASSUME NEW a \in DOMAIN headers, NEW b \in DOMAIN headers, a < b
               PROVE  headers[a].start < headers[b].start
    OBVIOUS
  <2>1. endOf(a) <= headers[b].start
    BY DEF LaidOut
  <2>2. /\ headers[a].start \in Nat
        /\ endOf(a) \in Nat
        /\ headers[b].start \in Nat
        /\ headers[a].start + HeaderSize <= endOf(a)
    BY HeaderType
  <2> QED
    BY <2>1, <2>2, SizeAssumption
<1>2. i \in Nat /\ k \in Nat /\ headers[i].start \in Nat /\ headers[k].start \in Nat
  BY HeaderType
<1> QED
  BY <1>1, <1>2

(***************************************************************************)
(* The sender's steps.                                                     *)
(***************************************************************************)
\* A packet begun where the last one ended changes nothing about the others.
LEMMA NewHeader ==
  ASSUME FrameTypeOK, NEW payloadSize \in Nat,
         headers' = Append(headers, [start |-> written, size |-> payloadSize])
  PROVE  LET n == Len(headers)
         IN  /\ n \in Nat
             /\ DOMAIN headers = 1 .. n
             /\ DOMAIN headers' = 1 .. n + 1
             /\ headers' \in Seq(Header)
             /\ \A k \in 1 .. n : headers'[k] = headers[k] /\ endOf(k)' = endOf(k)
             /\ \A k \in DOMAIN headers' :
                  k = n + 1 => /\ headers'[k].start = written
                               /\ endOf(k)' = written + HeaderSize + payloadSize
<1> DEFINE n == Len(headers)
           header == [start |-> written, size |-> payloadSize]
<1>1. header \in Header /\ headers \in Seq(Header)
  BY DEF FrameTypeOK, Header
<1>2. /\ n \in Nat
      /\ DOMAIN headers = 1 .. n
      /\ DOMAIN headers' = 1 .. n + 1
      /\ headers' \in Seq(Header)
      /\ \A k \in 1 .. n : headers'[k] = headers[k]
      /\ headers'[n + 1] = header
  BY <1>1, AppendProperties, LenProperties
<1>3. header.start = written /\ header.size = payloadSize
  OBVIOUS
<1> HIDE DEF n, header
<1>4. /\ \A k \in 1 .. n : endOf(k)' = endOf(k)
      /\ \A k \in DOMAIN headers' :
           k = n + 1 => /\ headers'[k].start = written
                        /\ endOf(k)' = written + HeaderSize + payloadSize
  BY <1>2, <1>3 DEF endOf
<1> QED
  BY <1>2, <1>4 DEF n

\* Sending, whole or broken off, leaves the stream in order.
LEMMA SenderStep ==
  ASSUME FrameInv, Sender
  PROVE  FrameInv'
<1> USE DEF FrameInv
<1>1. ASSUME NEW payloadSize \in PayloadSize, NEW some \in Nat,
             some <= HeaderSize + payloadSize, ~ended,
             headers' = Append(headers, [start |-> written, size |-> payloadSize]),
             written' = written + some,
             ended' \in BOOLEAN, ~ended' => some = HeaderSize + payloadSize,
             UNCHANGED receiverVars
      PROVE  FrameInv'
  <2> DEFINE n == Len(headers)
  <2>1. payloadSize \in Nat
    BY <1>1, SizeAssumption
  <2>2. /\ n \in Nat
        /\ DOMAIN headers = 1 .. n
        /\ DOMAIN headers' = 1 .. n + 1
        /\ headers' \in Seq(Header)
        /\ \A k \in 1 .. n : headers'[k] = headers[k] /\ endOf(k)' = endOf(k)
        /\ \A k \in DOMAIN headers' :
             k = n + 1 => /\ headers'[k].start = written
                          /\ endOf(k)' = written + HeaderSize + payloadSize
    BY <1>1, <2>1, NewHeader
  <2> HIDE DEF n
  <2>3. FrameTypeOK'
    BY <1>1, <2>2 DEF FrameTypeOK, Header, receiverVars
  <2>4. \A k \in 1 .. n : /\ endOf(k) \in Nat
                          /\ headers[k].start \in Nat
                          /\ endOf(k) <= written
                          /\ headers[k].start <= written
    BY <1>1, <2>2, HeaderType DEF LaidOut
  <2>5. LaidOut'
    <3>1. \A i, k \in 1 .. n + 1 : i < k => endOf(i)' <= headers'[k].start
      <4> SUFFICES ASSUME NEW i \in 1 .. n + 1, NEW k \in 1 .. n + 1, i < k
                   PROVE  endOf(i)' <= headers'[k].start
        OBVIOUS
      <4>1. i \in 1 .. n
        BY <2>2
      <4>2. CASE k = n + 1
        BY <2>2, <2>4, <4>1, <4>2
      <4>3. CASE k \in 1 .. n
        BY <2>2, <4>1, <4>3 DEF LaidOut
      <4> QED
        BY <2>2, <4>2, <4>3
    <3>2. written \in Nat /\ written <= written'
      BY <1>1 DEF FrameTypeOK
    <3>3. written' \in Nat /\ (~ended' => written' = written + HeaderSize + payloadSize)
      BY <1>1, <2>1, SizeAssumption DEF FrameTypeOK
    <3>4. ASSUME NEW k \in 1 .. n + 1
          PROVE  /\ headers'[k].start <= written'
                 /\ ~ended' => endOf(k)' <= written'
      <4>1. CASE k = n + 1
        <5>1. headers'[k].start = written /\ endOf(k)' = written + HeaderSize + payloadSize
          BY <2>2, <4>1
        <5> QED
          BY <3>2, <3>3, <5>1
      <4>2. CASE k \in 1 .. n
        <5>1. /\ headers'[k].start = headers[k].start
              /\ endOf(k)' = endOf(k)
          BY <2>2, <4>2
        <5> QED
          BY <2>4, <3>2, <3>3, <4>2, <5>1
      <4> QED
        BY <2>2, <4>1, <4>2
    <3> QED
      BY <2>2, <3>1, <3>4 DEF LaidOut
  <2>6. ReadingInv'
    BY <1>1, <2>2 DEF ReadingInv, receiverVars
  <2>7. AcceptedWhole'
    BY <1>1, <2>2 DEF AcceptedWhole, receiverVars
  <2> QED
    BY <2>3, <2>5, <2>6, <2>7
<1>2. ASSUME NEW payloadSize \in PayloadSize, SendPacket(payloadSize), UNCHANGED receiverVars
      PROVE  FrameInv'
  <2>1. PICK some \in Nat : some = HeaderSize + payloadSize
    BY SizeAssumption
  <2>2. written' = written + some
    BY <1>2, <2>1, SizeAssumption DEF FrameTypeOK, SendPacket
  <2>3. some <= HeaderSize + payloadSize
    BY <2>1
  <2>4. ~ended' /\ ended' \in BOOLEAN
    BY <1>2 DEF SendPacket, FrameTypeOK
  <2> QED
    BY <1>1, <1>2, <2>1, <2>2, <2>3, <2>4 DEF SendPacket
<1>3. ASSUME NEW payloadSize \in PayloadSize, SendBreaksOff(payloadSize),
             UNCHANGED receiverVars
      PROVE  FrameInv'
  <2>1. PICK some \in 0 .. HeaderSize + payloadSize - 1 : written' = written + some
    BY <1>3 DEF SendBreaksOff
  <2>2. some \in Nat /\ some <= HeaderSize + payloadSize
    BY <1>3, SizeAssumption
  <2> QED
    BY <1>1, <1>3, <2>1, <2>2 DEF SendBreaksOff
<1>4. CASE CloseSender /\ UNCHANGED receiverVars
  BY <1>4 DEF CloseSender, receiverVars, FrameTypeOK, LaidOut, ReadingInv, AcceptedWhole, endOf
<1> QED
  BY <1>2, <1>3, <1>4 DEF Sender

(***************************************************************************)
(* The receiver's steps.                                                   *)
(***************************************************************************)
\* receiveAll, receivePacket and every way they end keep to the stream.
LEMMA ReceiverStep ==
  ASSUME FrameInv, Receiver
  PROVE  FrameInv'
<1> USE DEF FrameInv
<1>1. /\ headers \in Seq(Header)
      /\ consumed \in Nat
      /\ written \in Nat
      /\ consumed <= written
      /\ reading \in [part: {"none", "header", "payload"}, start: Nat, missing: Nat]
      /\ accepted \in Seq(Nat)
      /\ HeaderSize \in Nat
  BY SizeAssumption DEF FrameTypeOK, Header
<1>2. LaidOut' /\ UNCHANGED senderVars /\ \A k : endOf(k)' = endOf(k)
  BY DEF Receiver, senderVars, LaidOut, endOf
<1>3. \A k \in DOMAIN headers : endOf(k) \in Nat /\ headers[k].start \in Nat
  BY HeaderType
<1> HIDE DEF FrameInv
<1>4. ASSUME UNCHANGED accepted, consumed' \in Nat, consumed <= consumed'
      PROVE  AcceptedWhole'
  BY <1>1, <1>2, <1>3, <1>4 DEF AcceptedWhole, senderVars, FrameInv
\* A packet whose last byte has just been read is accepted.
<1>5. ASSUME NEW k \in DOMAIN headers, Accept(k), consumed' = endOf(k), RecvRest
      PROVE  FrameInv'
  <2>1. consumed' = consumed + reading.missing /\ consumed' <= written
    BY <1>5 DEF RecvRest
  <2>2. k \in Nat /\ accepted' \in Seq(Nat)
    BY <1>1, <1>5, HeaderType, AppendProperties DEF Accept, FrameInv
  <2>3. FrameTypeOK'
    BY <1>1, <1>2, <1>5, <2>1, <2>2 DEF FrameTypeOK, Accept, NotReading, senderVars, FrameInv
  <2>4. ReadingInv'
    BY <1>5 DEF ReadingInv, Accept, NotReading
  <2>5. AcceptedWhole'
    <3>1. /\ Len(accepted) \in Nat
          /\ DOMAIN accepted = 1 .. Len(accepted)
          /\ DOMAIN accepted' = 1 .. Len(accepted) + 1
          /\ \A j \in 1 .. Len(accepted) : accepted'[j] = accepted[j]
          /\ accepted'[Len(accepted) + 1] = k
      BY <1>1, <1>5, <2>2, AppendProperties, LenProperties DEF Accept
    <3>2. \A j \in DOMAIN accepted' :
            \/ accepted'[j] = k
            \/ j \in DOMAIN accepted /\ accepted'[j] = accepted[j]
      BY <3>1
    <3>3. consumed <= consumed'
      BY <1>1, <2>1
    <3> QED
      BY <1>1, <1>2, <1>3, <1>5, <3>2, <3>3 DEF AcceptedWhole, senderVars, FrameInv
  <2> QED
    BY <1>2, <2>3, <2>4, <2>5 DEF FrameInv
<1>6. CASE CallReceivePacket
  <2>1. FrameTypeOK' /\ ReadingInv'
    BY <1>1, <1>2, <1>6 DEF CallReceivePacket, FrameTypeOK, ReadingInv, senderVars, FrameInv
  <2> QED
    BY <1>1, <1>2, <1>4, <1>6, <2>1 DEF CallReceivePacket, FrameInv
<1>7. ASSUME NEW count \in 1 .. written - consumed, RecvSome(count)
      PROVE  FrameInv'
  <2>1. /\ count \in Nat
        /\ reading.missing - count \in Nat
        /\ consumed' = consumed + count
        /\ consumed' <= written
        /\ reading' = [reading EXCEPT !.missing = reading.missing - count]
    BY <1>1, <1>7 DEF RecvSome
  <2>2. /\ reading'.part = reading.part
        /\ reading'.start = reading.start
        /\ reading'.missing = reading.missing - count
        /\ reading' \in [part: {"none", "header", "payload"}, start: Nat, missing: Nat]
    BY <1>1, <2>1
  <2>3. FrameTypeOK'
    BY <1>1, <1>2, <1>7, <2>1, <2>2 DEF RecvSome, FrameTypeOK, senderVars, FrameInv
  <2>4. ReadingInv'
    <3>1. consumed' + reading'.missing = consumed + reading.missing /\ consumed <= consumed'
      BY <1>1, <2>1, <2>2
    <3>2. reading.part # "none" => reading.start <= consumed'
      BY <1>1, <2>1 DEF ReadingInv, FrameInv
    <3> QED
      BY <1>2, <2>2, <3>1, <3>2 DEF ReadingInv, senderVars, FrameInv
  <2> QED
    BY <1>1, <1>2, <1>4, <1>7, <2>1, <2>3, <2>4 DEF RecvSome, FrameInv
<1>8. CASE HeaderOfPayload
  <2>1. PICK k \in DOMAIN headers :
          /\ ReadsHeaderOf(k)
          /\ reading' = [reading EXCEPT !.part = "payload", !.missing = headers[k].size]
    BY <1>8 DEF HeaderOfPayload
  <2>2. /\ consumed' = consumed + reading.missing
        /\ consumed' <= written
        /\ consumed' = reading.start + HeaderSize
    BY <1>8 DEF HeaderOfPayload, RecvRest, ReadingInv, FrameInv
  <2>3. headers[k].size \in Nat
    BY HeaderType DEF FrameInv
  <2>4. FrameTypeOK'
    <3>1. /\ consumed' \in 0 .. written
          /\ reading' \in [part: {"none", "header", "payload"}, start: Nat, missing: Nat]
      <4>1. reading' = [part |-> "payload", start |-> reading.start,
                        missing |-> headers[k].size]
        BY <1>1, <2>1
      <4>2. reading.missing \in Nat
        BY <1>1
      <4> QED
        BY <1>1, <2>2, <2>3, <4>1, <4>2
    <3> QED
      BY <1>2, <1>8, <3>1 DEF HeaderOfPayload, FrameTypeOK, senderVars, FrameInv
  <2>5. ReadingInv'
    <3>1. /\ reading'.part = "payload"
          /\ reading'.start = reading.start
          /\ reading'.start <= consumed'
          /\ headers[k].start = reading'.start
          /\ consumed' + reading'.missing = endOf(k)
      BY <1>1, <2>1, <2>2, <2>3 DEF ReadsHeaderOf, endOf
    <3> QED
      BY <1>2, <3>1 DEF ReadingInv, senderVars
  <2> QED
    BY <1>1, <1>2, <1>4, <1>8, <2>2, <2>4, <2>5 DEF HeaderOfPayload, FrameInv
<1>9. CASE AcceptEmpty
  <2>1. PICK k \in DOMAIN headers : ReadsHeaderOf(k) /\ headers[k].size = 0 /\ Accept(k)
    BY <1>9 DEF AcceptEmpty
  <2>2. consumed' = endOf(k)
    BY <1>1, <1>3, <1>9, <2>1
       DEF AcceptEmpty, RecvRest, ReadingInv, ReadsHeaderOf, endOf, FrameInv
  <2> QED
    BY <1>5, <1>9, <2>1, <2>2 DEF AcceptEmpty
<1>10. CASE AcceptPayload
  <2>1. PICK k \in DOMAIN headers : ReadsHeaderOf(k) /\ Accept(k)
    BY <1>10 DEF AcceptPayload
  <2>2. PICK i \in DOMAIN headers : /\ headers[i].start = reading.start
                                    /\ consumed + reading.missing = endOf(i)
    BY <1>10 DEF AcceptPayload, ReadingInv, FrameInv
  <2>3. i = k
    BY <2>1, <2>2, StartsDiffer DEF ReadsHeaderOf, FrameInv
  <2>4. consumed' = endOf(k)
    BY <1>10, <2>2, <2>3 DEF AcceptPayload, RecvRest
  <2> QED
    BY <1>5, <1>10, <2>1, <2>4 DEF AcceptPayload
<1>11. CASE Misread \/ RecvFails
  <2>1. /\ consumed' \in Nat
        /\ consumed <= consumed'
        /\ consumed' <= written
        /\ reading' = NotReading
        /\ UNCHANGED accepted
    BY <1>1, <1>11 DEF Misread, RecvFails, RecvRest
  <2>2. FrameTypeOK' /\ ReadingInv'
    BY <1>1, <1>2, <2>1 DEF FrameTypeOK, ReadingInv, NotReading, senderVars, FrameInv
  <2> QED
    BY <1>2, <1>4, <2>1, <2>2 DEF FrameInv
<1> QED
  BY <1>6, <1>7, <1>8, <1>9, <1>10, <1>11 DEF Receiver, AcceptPacket

\* FrameInv is inductive.
LEMMA FrameInductive ==
  /\ FrameInit => FrameInv
  /\ FrameInv /\ [FrameNext]_frameVars => FrameInv'
<1>1. FrameInit => FrameInv
  <2> SUFFICES ASSUME FrameInit
               PROVE  FrameInv
    OBVIOUS
  <2>1. headers \in Seq(Header) /\ accepted \in Seq(Nat)
    BY EmptySeq DEF FrameInit
  <2>2. DOMAIN headers = {} /\ DOMAIN accepted = {}
    BY DEF FrameInit
  <2>3. NotReading \in [part: {"none", "header", "payload"}, start: Nat, missing: Nat]
    BY DEF NotReading
  <2>4. written \in Nat /\ consumed \in 0 .. written
    BY DEF FrameInit
  <2>5. ended \in BOOLEAN
    BY DEF FrameInit
  <2>6. FrameTypeOK
    BY <2>1, <2>3, <2>4, <2>5 DEF FrameInit, FrameTypeOK, Header
  <2> QED
    BY <2>2, <2>6 DEF FrameInit, FrameInv, LaidOut, ReadingInv, AcceptedWhole, NotReading
<1>2. ASSUME FrameInv, [FrameNext]_frameVars
      PROVE  FrameInv'
  <2>1. CASE UNCHANGED frameVars
    BY <1>2, <2>1 DEF frameVars, senderVars, receiverVars, FrameInv, FrameTypeOK, LaidOut,
                      ReadingInv, AcceptedWhole, endOf
  <2> QED
    BY <1>2, <2>1, SenderStep, ReceiverStep DEF FrameNext
<1> QED
  BY <1>1, <1>2

\* What receiveAll counts and what receivePacket waits for stay within what has
\* been written.
THEOREM FrameTypeCorrect == FrameSpec => []FrameTypeOK
<1>1. FrameInv => FrameTypeOK
  BY DEF FrameInv
<1> QED
  BY <1>1, FrameInductive, PTL DEF FrameSpec

\* A packet that is handed to the program was written to its last byte, and all
\* of its bytes have been read, wherever sends and receives broke off before.
THEOREM OnlyWholePackets == FrameSpec => []AcceptedWhole
<1>1. FrameInv => AcceptedWhole
  BY DEF FrameInv
<1> QED
  BY <1>1, FrameInductive, PTL DEF FrameSpec

(***************************************************************************)
(* Packet by packet.                                                       *)
(***************************************************************************)
UsedUpPackets   == {k \in WholePackets : headers[k].start < position}
ReceivedPackets == {accepted[j] : j \in DOMAIN accepted}

\* What the three state variables of PacketStream stand for, and the shapes its
\* steps take.
LEMMA StreamSteps ==
  ASSUME FrameInv
  PROVE  /\ /\ UNCHANGED <<WholePackets, UsedUpPackets, ReceivedPackets>>
            => UNCHANGED Stream!streamVars
         /\ \A k :
              /\ k \notin WholePackets
              /\ WholePackets' = WholePackets \cup {k}
              /\ UNCHANGED <<UsedUpPackets, ReceivedPackets>>
              => Stream!Send
         /\ \A k :
              /\ k \in WholePackets \ UsedUpPackets
              /\ UsedUpPackets' = UsedUpPackets \cup {k}
              /\ UNCHANGED <<WholePackets, ReceivedPackets>>
              => Stream!Spoil
         /\ \A k \in Nat :
              /\ k \in WholePackets
              /\ UsedUpPackets = 1 .. k - 1
              /\ k > 0
              /\ UsedUpPackets' = UsedUpPackets \cup {k}
              /\ ReceivedPackets' = ReceivedPackets \cup {k}
              /\ UNCHANGED WholePackets
              => Stream!Receive
<1>1. IsFiniteSet(WholePackets)
  <2>1. DOMAIN headers = 1 .. Len(headers) /\ Len(headers) \in Nat
    BY LenProperties DEF FrameInv, FrameTypeOK
  <2>2. IsFiniteSet(DOMAIN headers)
    BY <2>1, FS_Interval
  <2> QED
    BY <2>2, FS_Subset DEF WholePackets
<1>2. UsedUpPackets \subseteq WholePackets /\ IsFiniteSet(UsedUpPackets)
  BY <1>1, FS_Subset DEF UsedUpPackets
<1>3. /\ Cardinality(WholePackets) \in Nat
      /\ Cardinality(UsedUpPackets) \in Nat
      /\ UsedUpPackets # WholePackets => Cardinality(UsedUpPackets) < Cardinality(WholePackets)
  <2>1. Cardinality(WholePackets) \in Nat /\ Cardinality(UsedUpPackets) \in Nat
    BY <1>1, <1>2, FS_CardinalityType
  <2>2. /\ Cardinality(UsedUpPackets) <= Cardinality(WholePackets)
        /\ Cardinality(WholePackets) = Cardinality(UsedUpPackets)
             => WholePackets = UsedUpPackets
    BY <1>1, <1>2, FS_Subset
  <2> QED
    BY <2>1, <2>2
<1>4. \A k : k \notin WholePackets
               => Cardinality(WholePackets \cup {k}) = Cardinality(WholePackets) + 1
  BY <1>1, FS_AddElement
<1>5. \A k : k \notin UsedUpPackets
               => Cardinality(UsedUpPackets \cup {k}) = Cardinality(UsedUpPackets) + 1
  BY <1>2, FS_AddElement
<1>6. UNCHANGED <<WholePackets, UsedUpPackets, ReceivedPackets>>
        => UNCHANGED Stream!streamVars
  BY DEF Stream!streamVars, UsedUpPackets, ReceivedPackets
<1>7. ASSUME NEW k, k \notin WholePackets, WholePackets' = WholePackets \cup {k},
             UNCHANGED <<UsedUpPackets, ReceivedPackets>>
      PROVE  Stream!Send
  BY <1>4, <1>7 DEF Stream!Send, UsedUpPackets, ReceivedPackets
<1>8. ASSUME NEW k, k \in WholePackets \ UsedUpPackets,
             UsedUpPackets' = UsedUpPackets \cup {k},
             UNCHANGED <<WholePackets, ReceivedPackets>>
      PROVE  Stream!Spoil
  <2>1. /\ Cardinality(UsedUpPackets) < Cardinality(WholePackets)
        /\ Cardinality(UsedUpPackets') = Cardinality(UsedUpPackets) + 1
    BY <1>3, <1>5, <1>8
  <2> QED
    BY <1>8, <2>1 DEF Stream!Spoil, UsedUpPackets, ReceivedPackets
<1>9. ASSUME NEW k \in Nat, k \in WholePackets, UsedUpPackets = 1 .. k - 1, k > 0,
             UsedUpPackets' = UsedUpPackets \cup {k},
             ReceivedPackets' = ReceivedPackets \cup {k}, UNCHANGED WholePackets
      PROVE  Stream!Receive
  <2>1. Cardinality(1 .. k - 1) = k - 1
    BY <1>9, FS_Interval
  <2>2. k \notin UsedUpPackets /\ Cardinality(UsedUpPackets) + 1 = k
    BY <1>9, <2>1
  <2>3. /\ Cardinality(UsedUpPackets) < Cardinality(WholePackets)
        /\ Cardinality(UsedUpPackets') = Cardinality(UsedUpPackets) + 1
    BY <1>3, <1>5, <1>9, <2>2
  <2> QED
    BY <1>9, <2>2, <2>3 DEF Stream!Receive, UsedUpPackets, ReceivedPackets
<1> QED
  BY <1>6, <1>7, <1>8, <1>9

\* A packet written to its end is a packet sent; nothing else the sender does is
\* seen.
LEMMA SenderRefines ==
  ASSUME FrameInv, Sender
  PROVE  [Stream!Next]_Stream!streamVars
<1>1. ReceivedPackets' = ReceivedPackets /\ position' = position
  BY DEF Sender, receiverVars, ReceivedPackets, position
<1>2. /\ position \in Nat
      /\ consumed \in Nat
      /\ written \in Nat
      /\ position <= consumed
      /\ consumed <= written
  BY DEF FrameInv, FrameTypeOK, ReadingInv, position
<1>3. ASSUME NEW payloadSize \in PayloadSize, ~ended,
             headers' = Append(headers, [start |-> written, size |-> payloadSize]),
             written' \in Nat, written <= written'
      PROVE  LET last == Len(headers) + 1
             IN  /\ last \notin WholePackets
                 /\ WholePackets' = IF written + HeaderSize + payloadSize <= written'
                                    THEN WholePackets \cup {last} ELSE WholePackets
                 /\ UsedUpPackets' = UsedUpPackets
  <2> DEFINE n == Len(headers)
  <2>1. payloadSize \in Nat
    BY <1>3, SizeAssumption
  <2>2. /\ n \in Nat
        /\ DOMAIN headers = 1 .. n
        /\ DOMAIN headers' = 1 .. n + 1
        /\ \A k \in 1 .. n : headers'[k] = headers[k] /\ endOf(k)' = endOf(k)
        /\ \A k \in DOMAIN headers' :
             k = n + 1 => /\ headers'[k].start = written
                          /\ endOf(k)' = written + HeaderSize + payloadSize
    BY <1>3, <2>1, NewHeader DEF FrameInv
  <2>3. \A k \in 1 .. n : endOf(k) \in Nat /\ endOf(k) <= written
    BY <1>3, <2>2, HeaderType DEF FrameInv, LaidOut
  <2> HIDE DEF n
  <2>4. WholePackets = 1 .. n
    BY <2>2, <2>3 DEF WholePackets
  <2>5. WholePackets' = {k \in 1 .. n + 1 : endOf(k)' <= written'}
    BY <2>2 DEF WholePackets
  <2>6. \A k \in 1 .. n : endOf(k)' <= written'
    BY <1>2, <1>3, <2>2, <2>3
  <2>7. \A k \in 1 .. n + 1 : k \in 1 .. n \/ k = n + 1
    BY <2>2
  <2>8. WholePackets' = IF written + HeaderSize + payloadSize <= written'
                        THEN 1 .. n + 1 ELSE 1 .. n
    BY <2>2, <2>5, <2>6, <2>7
  <2>9. UsedUpPackets' = UsedUpPackets
    <3>1. ASSUME NEW k \in 1 .. n + 1, k = n + 1
          PROVE  ~(headers'[k].start < position')
      <4>1. headers'[k].start = written
        BY <2>2, <3>1
      <4>2. ~(written < position)
        BY <1>2
      <4> QED
        BY <1>1, <4>1, <4>2
    <3>2. UsedUpPackets' = {k \in 1 .. n : headers'[k].start < position'}
      BY <2>2, <2>7, <2>8, <3>1 DEF UsedUpPackets
    <3> QED
      BY <1>1, <2>2, <2>4, <3>2 DEF UsedUpPackets
  <2>10. n + 1 \notin 1 .. n /\ 1 .. n + 1 = (1 .. n) \cup {n + 1}
    BY <2>2
  <2> QED
    BY <2>4, <2>8, <2>9, <2>10 DEF n
<1>4. ASSUME NEW payloadSize \in PayloadSize, SendPacket(payloadSize)
      PROVE  Stream!Next
  <2>1. payloadSize \in Nat /\ HeaderSize \in Nat
    BY SizeAssumption
  <2>2. /\ written' = written + HeaderSize + payloadSize
        /\ written' \in Nat
        /\ written <= written'
    BY <1>2, <1>4, <2>1 DEF SendPacket
  <2>3. /\ Len(headers) + 1 \notin WholePackets
        /\ WholePackets' = WholePackets \cup {Len(headers) + 1}
        /\ UsedUpPackets' = UsedUpPackets
    BY <1>3, <1>4, <2>2 DEF SendPacket
  <2> QED
    BY <1>1, <2>3, StreamSteps DEF Stream!Next
<1>5. ASSUME NEW payloadSize \in PayloadSize, SendBreaksOff(payloadSize)
      PROVE  UNCHANGED Stream!streamVars
  <2>1. payloadSize \in Nat /\ HeaderSize \in Nat
    BY SizeAssumption
  <2>2. PICK some \in 0 .. HeaderSize + payloadSize - 1 : written' = written + some
    BY <1>5 DEF SendBreaksOff
  <2>3. /\ ~(written + HeaderSize + payloadSize <= written')
        /\ written' \in Nat
        /\ written <= written'
    BY <1>2, <2>1, <2>2
  <2>4. WholePackets' = WholePackets /\ UsedUpPackets' = UsedUpPackets
    BY <1>3, <1>5, <2>3 DEF SendBreaksOff
  <2> QED
    BY <1>1, <2>4, StreamSteps
<1>6. CASE CloseSender
  <2>1. WholePackets' = WholePackets /\ UsedUpPackets' = UsedUpPackets
    BY <1>1, <1>6 DEF CloseSender, WholePackets, UsedUpPackets, endOf
  <2> QED
    BY <1>1, <2>1, StreamSteps
<1> QED
  BY <1>4, <1>5, <1>6 DEF Sender

\* A packet is received from its first byte to its last.
LEMMA AcceptedToItsEnd ==
  ASSUME FrameInv, AcceptPacket
  PROVE  \E k \in DOMAIN headers :
           ReadsHeaderOf(k) /\ Accept(k) /\ consumed' = endOf(k) /\ consumed' <= written
<1>1. PICK k \in DOMAIN headers : ReadsHeaderOf(k) /\ Accept(k)
                                  /\ (reading.part = "header" => headers[k].size = 0)
  BY DEF AcceptPacket, AcceptEmpty, AcceptPayload
<1>2. /\ reading.part = "header" \/ reading.part = "payload"
      /\ consumed' = consumed + reading.missing
      /\ consumed' <= written
  BY DEF AcceptPacket, AcceptEmpty, AcceptPayload, RecvRest
<1>3. CASE reading.part = "header"
  <2>1. consumed' = headers[k].start + HeaderSize
    BY <1>1, <1>2, <1>3 DEF FrameInv, ReadingInv, ReadsHeaderOf
  <2>2. headers[k].start \in Nat /\ headers[k].size = 0 /\ HeaderSize \in Nat
    BY <1>1, <1>3, HeaderType, SizeAssumption DEF FrameInv
  <2> QED
    BY <1>1, <1>2, <2>1, <2>2 DEF endOf
<1>4. CASE reading.part = "payload"
  <2>1. PICK i \in DOMAIN headers : /\ headers[i].start = reading.start
                                    /\ consumed + reading.missing = endOf(i)
    BY <1>4 DEF FrameInv, ReadingInv
  <2>2. i = k
    BY <1>1, <2>1, StartsDiffer DEF ReadsHeaderOf, FrameInv
  <2> QED
    BY <1>1, <1>2, <2>1, <2>2
<1> QED
  BY <1>2, <1>3, <1>4

\* A packet is used up by the receivePacket that has read into it, whether it
\* returns it or gives up; no call reads into two.
LEMMA ReceiverRefines ==
  ASSUME FrameInv, Receiver
  PROVE  [Stream!Next]_Stream!streamVars
<1>1. /\ UNCHANGED senderVars
      /\ UNCHANGED WholePackets
      /\ \A k : endOf(k)' = endOf(k)
  BY DEF Receiver, senderVars, WholePackets, endOf
<1>2. /\ consumed \in Nat
      /\ written \in Nat
      /\ consumed <= written
      /\ reading \in [part: {"none", "header", "payload"}, start: Nat, missing: Nat]
      /\ HeaderSize \in Nat \ {0}
      /\ position \in Nat
      /\ position <= consumed
  BY SizeAssumption DEF FrameInv, FrameTypeOK, ReadingInv, position
<1>3. \A k \in DOMAIN headers : /\ k \in Nat
                                /\ endOf(k) \in Nat
                                /\ headers[k].start \in Nat
                                /\ headers[k].start + HeaderSize <= endOf(k)
  BY HeaderType DEF FrameInv
<1>4. \A i, k \in DOMAIN headers : i < k => endOf(i) <= headers[k].start
  BY DEF FrameInv, LaidOut
<1>5. DOMAIN headers = 1 .. Len(headers) /\ Len(headers) \in Nat
  BY LenProperties DEF FrameInv, FrameTypeOK
<1>6. ASSUME position' = position, UNCHANGED accepted
      PROVE  UNCHANGED Stream!streamVars
  <2>1. UNCHANGED <<WholePackets, UsedUpPackets, ReceivedPackets>>
    BY <1>1, <1>6 DEF senderVars, UsedUpPackets, ReceivedPackets
  <2> QED
    BY <2>1, StreamSteps
\* The receivePacket that ends has read the header of packet k right.
<1>7. ASSUME NEW k \in DOMAIN headers, headers[k].start = position,
             position' = endOf(k), endOf(k) <= written, Accept(k)
      PROVE  Stream!Next
  <2>1. k \in WholePackets /\ k \in Nat /\ k > 0
    BY <1>3, <1>5, <1>7 DEF WholePackets
  <2>2. \A i \in DOMAIN headers : /\ headers[i].start < position <=> i < k
                                  /\ headers[i].start < position' <=> i <= k
    <3> TAKE i \in DOMAIN headers
    <3>1. CASE i < k
      <4>1. endOf(i) <= headers[k].start
        BY <1>4, <3>1
      <4> QED
        BY <1>2, <1>3, <1>7, <3>1, <4>1
    <3>2. CASE i = k
      BY <1>2, <1>3, <1>7, <3>2
    <3>3. CASE k < i
      <4>1. endOf(k) <= headers[i].start
        BY <1>4, <3>3
      <4> QED
        BY <1>2, <1>3, <1>7, <3>3, <4>1
    <3> QED
      BY <1>3, <3>1, <3>2, <3>3
  <2>3. \A i \in DOMAIN headers : i < k => i \in WholePackets
    <3> SUFFICES ASSUME NEW i \in DOMAIN headers, i < k
                 PROVE  endOf(i) <= written
      BY DEF WholePackets
    <3>1. endOf(i) <= headers[k].start
      BY <1>4
    <3> QED
      BY <1>2, <1>3, <1>7, <3>1
  <2>4. UsedUpPackets = 1 .. k - 1
    BY <1>3, <1>5, <2>1, <2>2, <2>3 DEF UsedUpPackets, WholePackets
  <2>5. UsedUpPackets' = UsedUpPackets \cup {k}
    <3>1. UsedUpPackets' = {i \in WholePackets : headers[i].start < position'}
      BY <1>1 DEF UsedUpPackets, senderVars
    <3> QED
      BY <1>3, <2>1, <2>2, <3>1 DEF UsedUpPackets, WholePackets
  <2>6. ReceivedPackets' = ReceivedPackets \cup {k}
    <3>1. accepted \in Seq(Nat) /\ accepted' = Append(accepted, k)
      BY <1>7 DEF Accept, FrameInv, FrameTypeOK
    <3>2. /\ Len(accepted) \in Nat
          /\ DOMAIN accepted = 1 .. Len(accepted)
          /\ DOMAIN accepted' = 1 .. Len(accepted) + 1
          /\ \A j \in 1 .. Len(accepted) : accepted'[j] = accepted[j]
          /\ accepted'[Len(accepted) + 1] = k
      BY <2>1, <3>1, AppendProperties, LenProperties
    <3>3. DOMAIN accepted' = DOMAIN accepted \cup {Len(accepted) + 1}
      BY <3>2
    <3>4. \A i : i \in ReceivedPackets' <=> \E j \in DOMAIN accepted' : i = accepted'[j]
      BY DEF ReceivedPackets
    <3>5. \A i : i \in ReceivedPackets <=> \E j \in DOMAIN accepted : i = accepted[j]
      BY DEF ReceivedPackets
    <3>6. \A i : i \in ReceivedPackets' <=> i \in ReceivedPackets \/ i = k
      BY <3>2, <3>3, <3>4, <3>5
    <3> QED
      BY <3>6
  <2> QED
    BY <1>1, <2>1, <2>4, <2>5, <2>6, StreamSteps DEF Stream!Next
\* The receivePacket that ends returns false, having read into one packet at
\* most.
<1>8. ASSUME UNCHANGED accepted, position' \in Nat, position <= position',
             \A i, k \in DOMAIN headers :
               /\ position <= headers[i].start /\ headers[i].start < position'
               /\ position <= headers[k].start /\ headers[k].start < position'
               => i = k
      PROVE  [Stream!Next]_Stream!streamVars
  <2>1. ReceivedPackets' = ReceivedPackets
    BY <1>8 DEF ReceivedPackets
  <2>2. UsedUpPackets' = {i \in WholePackets : headers[i].start < position'}
    BY <1>1 DEF UsedUpPackets, senderVars
  <2>3. UsedUpPackets \subseteq UsedUpPackets'
    BY <1>2, <1>3, <1>8, <2>2 DEF UsedUpPackets, WholePackets
  <2>4. \A i, k \in UsedUpPackets' \ UsedUpPackets : i = k
    BY <1>2, <1>3, <1>8, <2>2 DEF UsedUpPackets, WholePackets
  <2>5. CASE UsedUpPackets' = UsedUpPackets
    BY <1>1, <2>1, <2>5, StreamSteps
  <2>6. CASE UsedUpPackets' # UsedUpPackets
    <3>1. PICK k : k \in UsedUpPackets' \ UsedUpPackets
      BY <2>3, <2>6
    <3>2. /\ k \in WholePackets \ UsedUpPackets
          /\ UsedUpPackets' = UsedUpPackets \cup {k}
      BY <2>2, <2>3, <2>4, <3>1
    <3> QED
      BY <1>1, <2>1, <3>2, StreamSteps DEF Stream!Next
  <2> QED
    BY <2>5, <2>6
<1>9. CASE CallReceivePacket
  BY <1>6, <1>9 DEF CallReceivePacket, position, NotReading
<1>10. ASSUME NEW count \in 1 .. written - consumed, RecvSome(count)
       PROVE  UNCHANGED Stream!streamVars
  <2>1. reading'.part = reading.part /\ reading'.start = reading.start
    BY <1>2, <1>10 DEF RecvSome
  <2> QED
    BY <1>6, <1>10, <2>1 DEF RecvSome, position
<1>11. CASE HeaderOfPayload
  <2>1. reading'.part = "payload" /\ reading'.start = reading.start
    BY <1>2, <1>11 DEF HeaderOfPayload
  <2> QED
    BY <1>6, <1>11, <2>1 DEF HeaderOfPayload, position
<1>12. CASE AcceptPacket
  <2>1. PICK k \in DOMAIN headers : ReadsHeaderOf(k) /\ Accept(k) /\ consumed' = endOf(k)
                                    /\ consumed' <= written
    BY <1>12, AcceptedToItsEnd
  <2>2. reading.part # "none"
    BY <1>12 DEF AcceptPacket, AcceptEmpty, AcceptPayload
  <2>3. headers[k].start = position /\ position' = consumed'
    BY <2>1, <2>2 DEF ReadsHeaderOf, position, Accept, NotReading
  <2> QED
    BY <1>7, <2>1, <2>3
<1>13. CASE Misread \/ RecvFails
  <2>1. /\ UNCHANGED accepted
        /\ reading.part # "none"
        /\ position = reading.start
        /\ position' = consumed'
    BY <1>13 DEF Misread, RecvFails, RecvRest, position, NotReading
  <2>2. /\ consumed' \in Nat
        /\ consumed <= consumed'
        /\ consumed' <= consumed + reading.missing
    BY <1>2, <1>13 DEF Misread, RecvFails, RecvRest
  <2>3. ASSUME NEW i \in DOMAIN headers, NEW k \in DOMAIN headers,
               position <= headers[i].start, headers[i].start < position',
               position <= headers[k].start, headers[k].start < position',
               i < k
        PROVE  FALSE
    <3>1. endOf(i) <= headers[k].start
      BY <1>4, <2>3
    <3>2. position + HeaderSize < position'
      BY <1>2, <1>3, <2>1, <2>2, <2>3, <3>1
    <3>3. CASE reading.part = "header"
      BY <1>2, <2>1, <2>2, <3>2, <3>3 DEF FrameInv, ReadingInv
    <3>4. CASE reading.part = "payload"
      <4>1. PICK j \in DOMAIN headers : /\ headers[j].start = reading.start
                                        /\ consumed + reading.missing = endOf(j)
        BY <3>4 DEF FrameInv, ReadingInv
      <4>2. headers[k].start < endOf(j) /\ headers[j].start < headers[k].start
        BY <1>2, <1>3, <2>1, <2>2, <2>3, <3>1, <4>1
      <4>3. CASE j < k
        BY <1>3, <1>4, <4>2, <4>3
      <4>4. CASE k < j
        <5>1. endOf(k) <= headers[j].start
          BY <1>4, <4>4
        <5> QED
          BY <1>2, <1>3, <4>2, <5>1
      <4>5. CASE j = k
        BY <1>3, <4>2, <4>5
      <4> QED
        BY <1>3, <4>3, <4>4, <4>5
    <3> QED
      BY <1>2, <2>1, <3>3, <3>4
  <2>4. \A i, k \in DOMAIN headers :
          /\ position <= headers[i].start /\ headers[i].start < position'
          /\ position <= headers[k].start /\ headers[k].start < position'
          => i = k
    BY <1>3, <2>3
  <2> QED
    BY <1>2, <1>8, <2>1, <2>2, <2>4
<1> QED
  BY <1>9, <1>10, <1>11, <1>12, <1>13 DEF Receiver

\* Whatever TCP does to the bytes, receivePacket yields packets in the order they
\* were sent, each at most once, and a call that fails spoils at most one packet:
\* the packet-by-packet view that the models of the session build on.
THEOREM FramingImplementsPacketStream == FrameSpec => ImplementsPacketStream
<1>1. FrameInit => Stream!Init
  <2> SUFFICES ASSUME FrameInit
               PROVE  Stream!Init
    OBVIOUS
  <2>1. DOMAIN headers = {} /\ DOMAIN accepted = {}
    BY DEF FrameInit
  <2>2. WholePackets = {}
    BY <2>1 DEF WholePackets
  <2>3. UsedUpPackets = {} /\ ReceivedPackets = {}
    BY <2>1, <2>2 DEF UsedUpPackets, ReceivedPackets
  <2> QED
    BY <2>2, <2>3, FS_EmptySet DEF Stream!Init, UsedUpPackets, ReceivedPackets
<1>2. FrameInv /\ [FrameNext]_frameVars => [Stream!Next]_Stream!streamVars
  <2> SUFFICES ASSUME FrameInv, [FrameNext]_frameVars
               PROVE  [Stream!Next]_Stream!streamVars
    OBVIOUS
  <2>1. CASE UNCHANGED frameVars
    <3>1. UNCHANGED <<WholePackets, UsedUpPackets, ReceivedPackets>>
      BY <2>1 DEF frameVars, senderVars, receiverVars, WholePackets, UsedUpPackets,
                  ReceivedPackets, position, endOf
    <3> QED
      BY <3>1, StreamSteps
  <2> QED
    BY <2>1, SenderRefines, ReceiverRefines DEF FrameNext
<1> QED
  BY <1>1, <1>2, FrameInductive, PTL DEF FrameSpec, ImplementsPacketStream, Stream!Spec

(***************************************************************************)
(* The active session over this stream.                                    *)
(***************************************************************************)
\* FramedExchange moves the stream by steps of Framing.
LEMMA ExchangeStepsFrame ==
  ASSUME [ExchangeNext]_exchangeVars
  PROVE  [FrameNext]_frameVars
<1>1. ASSUME NEW kind, Writes(kind) \/ BreaksOff(kind), UNCHANGED receiverVars
      PROVE  FrameNext
  BY <1>1, ExchangeAssumption DEF Writes, BreaksOff, sizeOf, Sender, FrameNext
<1>2. ASSUME CloseSender, UNCHANGED receiverVars
      PROVE  FrameNext
  BY <1>2 DEF Sender, FrameNext
<1>3. CASE AnswerTelemetry \/ RefuseAnswer \/ SendRequest
  BY <1>1, <1>3 DEF AnswerTelemetry, RefuseAnswer, SendRequest
<1>4. CASE ServerFails
  BY <1>1, <1>2, <1>4 DEF ServerFails
<1>5. CASE MissAnswer
  BY <1>2, <1>5 DEF MissAnswer, NextRequest, frameVars
<1>6. CASE Reading \/ ReceiveAck \/ DropRequest \/ MisreadAck \/ MissAck
           \/ AnswerRequest \/ IgnorePacket \/ WindowFails
  <2>1. Receiver
    BY <1>6 DEF Reading, ReceiveAck, DropRequest, MisreadAck, MissAck, AnswerRequest,
                IgnorePacket, WindowFails, Takes, Receiver
  <2> QED
    BY <2>1 DEF FrameNext
<1>7. CASE ReceiveAnswer \/ SendTelemetry \/ TelemetrySendFails \/ SeeSilence \/ Finished
           \/ UNCHANGED exchangeVars
  BY <1>7 DEF ReceiveAnswer, SendTelemetry, TelemetrySendFails, SeeSilence, Finished,
              exchangeVars
<1> QED
  BY <1>3, <1>4, <1>5, <1>6, <1>7 DEF ExchangeNext

\* The three parts of ExchangeTypeOK beside the stream's: what is under way between
\* the two programs, the server's loops, and the client's.
PacketsTyped ==
  /\ kinds \in Seq(ServerKind) /\ Len(kinds) = Len(headers)
  /\ toServer \in Seq(ClientKind)

ServerTyped ==
  /\ telemetryCount \in Nat
  /\ exchange \in Exchange
  /\ requestAttempt \in 1 .. requestLimit
  /\ awaitAttempt \in 0 .. awaitLimit

\* The client sends and waits while samples are left.
ClientTyped ==
  /\ point \in {"send", "receive", "window", "done", "failed", "lost"}
  /\ sendAttempt \in 1 .. MaxRetransmissions
  /\ recvAttempt \in 1 .. MaxRetransmissions
  /\ sample \in 0 .. NumSamples
  /\ stalls \in Nat
  /\ point \in {"send", "receive"} => sample < NumSamples

ExchangeInv == FrameInv /\ PacketsTyped /\ ServerTyped /\ ClientTyped

\* The session starts with nothing sent.
LEMMA ExchangeInvInit == ExchangeInit => ExchangeInv
<1> SUFFICES ASSUME ExchangeInit
             PROVE  ExchangeInv
  OBVIOUS
<1>1. FrameInv
  BY FrameInductive DEF ExchangeInit
<1>2. PacketsTyped
  BY EmptySeq DEF ExchangeInit, FrameInit, PacketsTyped
<1>3. ServerTyped
  BY RetriesAssumption
     DEF ExchangeInit, ServerTyped, Exchange, requestLimit, awaitLimit
<1>4. ClientTyped
  BY RetriesAssumption, ClientAssumption DEF ExchangeInit, ClientTyped
<1> QED
  BY <1>1, <1>2, <1>3, <1>4 DEF ExchangeInv

\* A packet the server begins is the next one in the stream and in kinds.
LEMMA NextKind ==
  ASSUME FrameTypeOK, PacketsTyped, NEW kind \in ServerKind, Writes(kind) \/ BreaksOff(kind)
  PROVE  kinds' \in Seq(ServerKind) /\ Len(kinds') = Len(headers')
<1>1. headers \in Seq(Header)
  BY DEF FrameTypeOK, Header
<1>2. PICK size : headers' = Append(headers, [start |-> written, size |-> size])
  BY DEF Writes, BreaksOff, SendPacket, SendBreaksOff
<1>3. kinds' = Append(kinds, kind)
  BY DEF Writes, BreaksOff
<1>4. Len(headers') = Len(headers) + 1
  BY <1>1, <1>2
<1>5. kinds' \in Seq(ServerKind) /\ Len(kinds') = Len(kinds) + 1
  BY <1>3, AppendProperties DEF PacketsTyped
<1> QED
  BY <1>4, <1>5 DEF PacketsTyped

\* What is under way stays typed.
LEMMA PacketsTypedStep ==
  ASSUME FrameTypeOK, PacketsTyped, ServerTyped, [ExchangeNext]_exchangeVars
  PROVE  PacketsTyped'
<1> USE DEF PacketsTyped
<1>1. toServer # <<>> => Tail(toServer) \in Seq(ClientKind)
  BY HeadTailProperties
<1>2. \A kind \in ClientKind : Append(toServer, kind) \in Seq(ClientKind)
  BY AppendProperties
<1>3. InExchange => request \in ServerKind
  BY DEF InExchange, ServerTyped, Exchange, request, ServerKind
<1>4. CASE AnswerTelemetry \/ RefuseAnswer
  BY <1>1, <1>4, NextKind DEF AnswerTelemetry, RefuseAnswer, ServerKind
<1>5. CASE SendRequest
  BY <1>3, <1>5, NextKind DEF SendRequest
<1>6. CASE ServerFails
  BY <1>3, <1>6, NextKind DEF ServerFails, CloseSender, ServerKind
<1>7. CASE ReceiveAnswer
  BY <1>1, <1>7 DEF ReceiveAnswer, frameVars, senderVars
<1>8. CASE MissAnswer
  BY <1>1, <1>8 DEF MissAnswer, NextRequest, CloseSender, senderVars
<1>9. CASE SendTelemetry
  BY <1>2, <1>9 DEF SendTelemetry, ClientKind, frameVars, senderVars
<1>10. CASE AnswerRequest
  BY <1>2, <1>10 DEF AnswerRequest, ClientKind, senderVars
<1>11. CASE TelemetrySendFails \/ SeeSilence \/ Finished \/ UNCHANGED exchangeVars
  BY <1>11 DEF TelemetrySendFails, SeeSilence, Finished, exchangeVars, frameVars, senderVars
<1>12. CASE Reading \/ ReceiveAck \/ DropRequest \/ MisreadAck \/ MissAck
            \/ IgnorePacket \/ WindowFails
  BY <1>12 DEF Reading, ReceiveAck, DropRequest, MisreadAck, MissAck, IgnorePacket,
               WindowFails, senderVars
<1> QED
  BY <1>4, <1>5, <1>6, <1>7, <1>8, <1>9, <1>10, <1>11, <1>12 DEF ExchangeNext

\* The loops of the server's exchanges stay within the limits of the exchange.
LEMMA ServerTypedStep ==
  ASSUME ServerTyped, [ExchangeNext]_exchangeVars
  PROVE  ServerTyped'
<1> USE RetriesAssumption DEF ServerTyped, requestLimit, awaitLimit
<1>1. ASSUME NEW next \in Exchange, GoesTo(next), telemetryCount' \in Nat
      PROVE  ServerTyped'
  BY <1>1 DEF GoesTo
<1>2. CASE AnswerTelemetry
  <2>1. triggered(telemetryCount + 1) \in Exchange
    BY DEF triggered, Exchange
  <2>2. telemetryCount' \in Nat /\ GoesTo(triggered(telemetryCount + 1))
    BY <1>2 DEF AnswerTelemetry
  <2> HIDE DEF ServerTyped
  <2> QED
    BY <1>1, <2>1, <2>2
<1>3. CASE RefuseAnswer
  BY <1>1, <1>3 DEF RefuseAnswer, Exchange
<1>4. CASE SendRequest
  BY <1>4 DEF SendRequest
<1>5. CASE ReceiveAnswer
  BY <1>1, <1>5 DEF ReceiveAnswer, Exchange
<1>6. CASE MissAnswer
  BY <1>6 DEF MissAnswer, NextRequest
<1>7. CASE \/ ServerFails \/ SendTelemetry \/ TelemetrySendFails \/ Reading \/ ReceiveAck
           \/ DropRequest \/ MisreadAck \/ MissAck \/ SeeSilence \/ AnswerRequest
           \/ IgnorePacket \/ WindowFails \/ Finished \/ UNCHANGED exchangeVars
  <2>1. UNCHANGED requestVars
    BY <1>7 DEF ServerFails, SendTelemetry, TelemetrySendFails, Reading, ReceiveAck,
                DropRequest, MisreadAck, MissAck, SeeSilence, AnswerRequest, IgnorePacket,
                WindowFails, Finished, exchangeVars
  <2> QED
    BY <2>1 DEF requestVars
<1> QED
  BY <1>2, <1>3, <1>4, <1>5, <1>6, <1>7 DEF ExchangeNext

\* The client's nested loops stay within their limits.
LEMMA ClientTypedStep ==
  ASSUME ClientTyped, [ExchangeNext]_exchangeVars
  PROVE  ClientTyped'
<1> USE RetriesAssumption, ClientAssumption DEF ClientTyped, attemptVars
<1>1. CASE SendTelemetry
  BY <1>1 DEF SendTelemetry
<1>2. CASE TelemetrySendFails
  BY <1>2 DEF TelemetrySendFails, NextSend
<1>3. CASE Reading
  BY <1>3 DEF Reading, loopVars
<1>4. CASE ReceiveAck
  BY <1>4 DEF ReceiveAck
<1>5. CASE DropRequest \/ MisreadAck \/ MissAck
  <2>1. point = "receive" /\ NextAttempt /\ stalls' \in Nat
    BY <1>5 DEF DropRequest, MisreadAck, MissAck
  <2> QED
    BY <2>1 DEF NextAttempt, NextSend
<1>6. CASE SeeSilence \/ AnswerRequest \/ IgnorePacket
  <2>1. WindowCloses
    BY <1>6 DEF SeeSilence, AnswerRequest, IgnorePacket
  <2> QED
    BY <2>1 DEF WindowCloses
<1>7. CASE WindowFails
  BY <1>7 DEF WindowFails
<1>8. CASE \/ AnswerTelemetry \/ RefuseAnswer \/ SendRequest \/ ReceiveAnswer \/ MissAnswer
           \/ ServerFails \/ Finished \/ UNCHANGED exchangeVars
  <2>1. UNCHANGED loopVars
    BY <1>8 DEF AnswerTelemetry, RefuseAnswer, SendRequest, ReceiveAnswer, MissAnswer,
                ServerFails, Finished, exchangeVars
  <2> QED
    BY <2>1 DEF loopVars
<1> QED
  BY <1>1, <1>2, <1>3, <1>4, <1>5, <1>6, <1>7, <1>8 DEF ExchangeNext

\* The active session over the bytes of the connection: neither the retry loops of
\* the client nor those of any exchange run past their limits, wherever receives
\* give up and whatever they drop.
THEOREM ExchangeTypeCorrect == ExchangeSpec => []ExchangeTypeOK
<1>1. ExchangeInv => ExchangeTypeOK
  BY DEF ExchangeInv, FrameInv, PacketsTyped, ServerTyped, ClientTyped, ExchangeTypeOK
<1>2. ExchangeInv /\ [ExchangeNext]_exchangeVars => ExchangeInv'
  <2> SUFFICES ASSUME ExchangeInv, [ExchangeNext]_exchangeVars
               PROVE  ExchangeInv'
    OBVIOUS
  <2>1. FrameInv'
    BY ExchangeStepsFrame, FrameInductive DEF ExchangeInv
  <2>2. PacketsTyped' /\ ServerTyped' /\ ClientTyped'
    BY PacketsTypedStep, ServerTypedStep, ClientTypedStep DEF ExchangeInv, FrameInv
  <2> QED
    BY <2>1, <2>2 DEF ExchangeInv
<1> QED
  BY <1>1, <1>2, ExchangeInvInit, PTL DEF ExchangeSpec
=============================================================================
