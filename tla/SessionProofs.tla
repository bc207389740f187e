---------------------------- MODULE SessionProofs ----------------------------
(***************************************************************************)
(* The whole session, for every value of the constants: type correctness   *)
(* of both processes and the connection, what the server guarantees        *)
(* against any peer, for this client, that no sample is acknowledged       *)
(* before it is counted, and that the large payload arrives intact.        *)
(***************************************************************************)
EXTENDS Session, ProcessProofs

(***************************************************************************)
(* Type correctness.                                                       *)
(***************************************************************************)
SessionInv == NetTypeOK /\ ServerTypeOK /\ ClientInv

\* The link takes packets away, and nothing else.
LEMMA LinkTypeStep ==
  ASSUME NetTypeOK, ConnectionReset
  PROVE  NetTypeOK'
  BY EmptySeq DEF NetTypeOK, ConnectionReset

\* The server keeps its types while another process takes a step.
LEMMA ServerUnchanged == ServerTypeOK /\ UNCHANGED serverVars => ServerTypeOK'
  BY DEF ServerTypeOK, serverVars, telemetryVars, exchangeVars, loopVars

\* The whole session starts well typed.
LEMMA SessionInvInit == Init => SessionInv
<1>1. NetInit => NetTypeOK
  BY EmptySeq DEF NetInit, NetTypeOK
<1> QED
  BY <1>1, ServerInitType, ClientInitType DEF Init, SessionInv

\* SessionInv is inductive.
LEMMA SessionInvStep == SessionInv /\ [Next]_vars => SessionInv'
<1> SUFFICES ASSUME SessionInv, [Next]_vars
             PROVE  SessionInv'
  OBVIOUS
<1> USE DEF SessionInv
<1>1. CASE ServerStep
  BY <1>1, ServerTypeStep, ClientUnchanged DEF ServerStep
<1>2. CASE ClientStep
  BY <1>2, ClientTypeStep, ServerUnchanged DEF ClientStep
<1>3. CASE LinkStep
  BY <1>3, LinkTypeStep, ServerUnchanged, ClientUnchanged DEF LinkStep
<1>4. CASE Terminated \/ UNCHANGED vars
  <2>1. UNCHANGED netVars /\ UNCHANGED serverVars /\ UNCHANGED clientVars
    BY <1>4 DEF Terminated, vars
  <2> QED
    BY <2>1, NetUnchangedType, ServerUnchanged, ClientUnchanged
<1> QED
  BY <1>1, <1>2, <1>3, <1>4 DEF Next

\* Both processes and the connection keep their types: no retry loop and no
\* window loop of either side runs past its limit.
THEOREM SessionTypeCorrect == Spec => []TypeOK
<1>1. SessionInv => TypeOK
  BY DEF SessionInv, ClientInv, TypeOK
<1> QED
  BY <1>1, SessionInvInit, SessionInvStep, PTL DEF Spec

(***************************************************************************)
(* The server's guarantees, in the session.                                *)
(***************************************************************************)
\* Only the server moves in its state table.
LEMMA SessionStateStep ==
  ASSUME StateAtPoint, SessionInv, [Next]_vars
  PROVE  StateAtPoint' /\ [isValidTransition(sState, sState')]_sState
<1>1. CASE ServerStep
  BY <1>1, TransitionStep DEF ServerStep, SessionInv
<1>2. CASE UNCHANGED serverVars
  BY <1>2 DEF serverVars, StateAtPoint
<1> QED
  BY <1>1, <1>2 DEF Next, ClientStep, LinkStep, Terminated, vars

\* And it starts in the state of its first point.
LEMMA SessionStateInit == Init => StateAtPoint
  BY StatesAtRows DEF Init, ServerInit, StateAtPoint

\* Every change of the server's state, direct assignments included, is one
\* that isValidTransition would have accepted.
THEOREM SessionTransitionsLegal == Spec => LegalTransitions
<1>1. StateAtPoint /\ SessionInv /\ [Next]_vars
        => StateAtPoint' /\ [isValidTransition(sState, sState')]_sState
  BY SessionStateStep
<1> QED
  BY <1>1, SessionStateInit, SessionInvInit, SessionInvStep, PTL DEF Spec, LegalTransitions

\* Packets in flight to the client have numbers that never go back, and the
\* same number only if they are the same packet, resent.
THEOREM SessionNumbersInOrder == Spec => []NumbersIdentifyPackets
<1>1. Init => NumbersInv
  BY DEF Init, NetInit, NumbersInv, NumbersUsed, Ordered
<1>2. NumbersInv /\ SessionInv /\ [Next]_vars => NumbersInv'
  <2> SUFFICES ASSUME NumbersInv, SessionInv, [Next]_vars
               PROVE  NumbersInv'
    OBVIOUS
  <2>1. CASE ServerStep
    BY <2>1, NumbersStep DEF ServerStep, SessionInv
  <2>2. CASE ClientStep \/ LinkStep \/ Terminated \/ UNCHANGED vars
    <3>1. UNCHANGED serverVars
      BY <2>2 DEF ClientStep, LinkStep, Terminated, vars
    <3>2. Shortened(toClient, toClient')
      BY <2>2, ClientStepQueue DEF ClientStep, LinkStep, ConnectionReset, Terminated, vars,
                                   netVars, Shortened
    <3> QED
      BY <3>1, <3>2, ShorterQueueNumbers DEF SessionInv
  <2> QED
    BY <2>1, <2>2 DEF Next
<1>3. NumbersInv => NumbersIdentifyPackets
  BY DEF NumbersInv, Ordered, NumbersIdentifyPackets
<1> QED
  BY <1>1, <1>2, <1>3, SessionInvInit, SessionInvStep, PTL DEF Spec

(***************************************************************************)
(* Samples acknowledged and counted.                                       *)
(***************************************************************************)
acksInFlight == CountOf(toClient, "TELEMETRY_ACK")

acksToSend == IF sPc = "telemetryAck" THEN 1 ELSE 0

\* Every sample counted has at most one acknowledgement: taken by the client, on
\* its way, or about to be sent.  The inductive invariant behind
\* AcknowledgedWithinCount.
AcksInv == samplesAcknowledged + acksInFlight + acksToSend <= telemetryCount

\* The three parts of the sum are numbers.
LEMMA AcksType ==
  ASSUME SessionInv
  PROVE  /\ samplesAcknowledged \in Nat
         /\ acksInFlight \in Nat
         /\ acksToSend \in Nat
         /\ telemetryCount \in Nat
  BY CountType, ClientAssumption
     DEF SessionInv, NetTypeOK, ClientInv, ClientTypeOK, ServerTypeOK, samplesAcknowledged,
         acksInFlight, acksToSend

\* A sample is counted before its acknowledgement is sent, and acknowledged by
\* taking one from the connection, which never makes more of them.
LEMMA AcksStep ==
  ASSUME SessionInv, AcksInv, [Next]_vars
  PROVE  AcksInv'
<1>a. /\ samplesAcknowledged \in Nat
      /\ acksInFlight \in Nat
      /\ acksToSend \in Nat
      /\ telemetryCount \in Nat
  BY AcksType
<1>b. /\ samplesAcknowledged' \in Nat
      /\ acksInFlight' \in Nat
      /\ acksToSend' \in Nat
      /\ telemetryCount' \in Nat
  <2>1. NetTypeOK' /\ ServerTypeOK' /\ ClientInv'
    BY SessionInvStep DEF SessionInv
  <2>2. telemetryCount' \in Nat /\ index' \in Nat /\ toClient' \in Seq(Packet)
    BY <2>1, ClientAssumption DEF NetTypeOK, ServerTypeOK, ClientInv, ClientTypeOK
  <2>3. acksInFlight' \in Nat
    BY <2>2, CountType DEF acksInFlight
  <2>4. samplesAcknowledged' \in Nat
    <3>1. PICK i1 \in Nat : i1 = index'
      BY <2>2
    <3>2. samplesAcknowledged' = i1 \/ samplesAcknowledged' = i1 + 1
      BY <3>1 DEF samplesAcknowledged
    <3>3. i1 + 1 \in Nat
      OBVIOUS
    <3> QED
      BY <3>2, <3>3
  <2>5. acksToSend' \in Nat
    BY DEF acksToSend
  <2> QED
    BY <2>2, <2>3, <2>4, <2>5
<1>c. PICK a1 \in Nat, f1 \in Nat, s1 \in Nat, t1 \in Nat :
             /\ a1 = samplesAcknowledged'
             /\ f1 = acksInFlight'
             /\ s1 = acksToSend'
             /\ t1 = telemetryCount'
  BY <1>b
<1>d. samplesAcknowledged + acksInFlight + acksToSend <= telemetryCount
  BY DEF AcksInv
<1>e. SUFFICES a1 + f1 + s1 <= t1
  BY <1>c DEF AcksInv
<1>1. ASSUME UNCHANGED serverVars,
             a1 + f1 <= samplesAcknowledged + acksInFlight
      PROVE  a1 + f1 + s1 <= t1
  <2>1. s1 = acksToSend /\ t1 = telemetryCount
    BY <1>c, <1>1 DEF serverVars, telemetryVars, acksToSend
  <2> QED
    BY <1>a, <1>d, <1>1, <2>1
<1>2. ASSUME \/ UNCHANGED toClient
             \/ toClient # <<>> /\ toClient' = Tail(toClient)
             \/ toClient' = <<>>
      PROVE  f1 <= acksInFlight
  <2>1. CASE UNCHANGED toClient
    <3>1. f1 = acksInFlight
      BY <1>c, <2>1 DEF acksInFlight
    <3> QED
      BY <1>a, <3>1
  <2>2. CASE toClient # <<>> /\ toClient' = Tail(toClient)
    <3>1. toClient \in Seq(Packet)
      BY DEF SessionInv, NetTypeOK
    <3>2. \/ f1 = acksInFlight
          \/ f1 = acksInFlight - 1
      BY <1>c, <2>2, <3>1, TailCount DEF acksInFlight
    <3> QED
      BY <1>a, <3>2
  <2>3. CASE toClient' = <<>>
    <3>1. f1 = 0
      BY <1>c, <2>3, EmptyCount DEF acksInFlight
    <3> QED
      BY <1>a, <3>1
  <2> QED
    BY <1>2, <2>1, <2>2, <2>3
<1>3. CASE ServerStep
  <2>1. a1 = samplesAcknowledged
    BY <1>c, <1>3 DEF ServerStep, clientVars, windowVars, samplesAcknowledged, WindowPoint
  <2>2. ASSUME NEW packet \in Packet,
               toClient' = Append(toClient, packet),
               UNCHANGED telemetryCount,
               packet.type = "TELEMETRY_ACK" => sPc = "telemetryAck",
               sPc' # "telemetryAck"
        PROVE  a1 + f1 + s1 <= t1
    <3>1. f1 = IF packet.type = "TELEMETRY_ACK" THEN acksInFlight + 1 ELSE acksInFlight
      BY <1>c, <2>2, AppendedCount DEF acksInFlight, SessionInv, NetTypeOK
    <3>2. s1 = 0 /\ (packet.type = "TELEMETRY_ACK" => acksToSend = 1)
      BY <1>c, <2>2 DEF acksToSend
    <3>3. t1 = telemetryCount
      BY <1>c, <2>2
    <3> QED
      BY <1>a, <1>d, <2>1, <3>1, <3>2, <3>3
  <2>3. CASE /\ UNCHANGED <<toClient, telemetryCount>>
             /\ sPc' = "telemetryAck" => sPc = "telemetryAck"
    <3>1. f1 = acksInFlight /\ t1 = telemetryCount
      BY <1>c, <2>3 DEF acksInFlight
    <3>2. s1 = 0 \/ s1 = acksToSend
      BY <1>c, <2>3 DEF acksToSend
    <3> QED
      BY <1>a, <1>d, <2>1, <3>1, <3>2
  <2>4. CASE /\ UNCHANGED toClient
             /\ telemetryCount' = telemetryCount + 1
             /\ sPc # "telemetryAck"
    <3>1. f1 = acksInFlight /\ t1 = telemetryCount + 1
      BY <1>c, <2>4 DEF acksInFlight
    <3>2. acksToSend = 0 /\ (s1 = 0 \/ s1 = 1)
      BY <1>c, <2>4 DEF acksToSend
    <3> QED
      BY <1>a, <1>d, <2>1, <3>1, <3>2
  <2> QED
    BY <1>3, <2>2, <2>3, <2>4, ServerAckStep DEF ServerStep, SessionInv
<1>4. CASE ClientStep
  <2>1. CASE samplesAcknowledged' <= samplesAcknowledged
    <3>1. f1 <= acksInFlight
      BY <1>2, <1>4, ClientStepQueue DEF ClientStep, SessionInv
    <3>2. a1 <= samplesAcknowledged
      BY <1>c, <2>1
    <3>3. a1 + f1 <= samplesAcknowledged + acksInFlight
      BY <1>a, <3>1, <3>2
    <3> QED
      BY <1>1, <1>4, <3>3 DEF ClientStep
  <2>2. CASE /\ toClient # <<>>
             /\ toClient' = Tail(toClient)
             /\ Head(toClient).type = "TELEMETRY_ACK"
             /\ samplesAcknowledged' <= samplesAcknowledged + 1
    <3>1. f1 = acksInFlight - 1
      BY <1>c, <2>2, TailCount DEF acksInFlight, SessionInv, NetTypeOK
    <3>2. a1 <= samplesAcknowledged + 1
      BY <1>c, <2>2
    <3>3. a1 + f1 <= samplesAcknowledged + acksInFlight
      BY <1>a, <3>1, <3>2
    <3> QED
      BY <1>1, <1>4, <3>3 DEF ClientStep
  <2> QED
    BY <1>4, <2>1, <2>2, ClientAckStep DEF ClientStep, SessionInv
<1>5. CASE LinkStep \/ Terminated \/ UNCHANGED vars
  <2>1. UNCHANGED serverVars /\ UNCHANGED clientVars
    BY <1>5 DEF LinkStep, Terminated, vars
  <2>2. a1 = samplesAcknowledged
    BY <1>c, <2>1 DEF clientVars, windowVars, samplesAcknowledged, WindowPoint
  <2>3. f1 <= acksInFlight
    BY <1>2, <1>5 DEF LinkStep, ConnectionReset, Terminated, vars, netVars
  <2>4. a1 + f1 <= samplesAcknowledged + acksInFlight
    BY <1>a, <2>2, <2>3
  <2> QED
    BY <1>1, <2>1, <2>4
<1> QED
  BY <1>3, <1>4, <1>5 DEF Next

\* Nothing has been counted or acknowledged at first.
LEMMA AcksInit == Init => AcksInv
  BY EmptyCount, ClientAssumption
     DEF Init, NetInit, ServerInit, ClientInit, AcksInv, samplesAcknowledged, acksInFlight,
         acksToSend, WindowPoint

\* No more samples have been acknowledged than counted.
LEMMA AcknowledgedCounted ==
  ASSUME SessionInv, AcksInv
  PROVE  samplesAcknowledged <= telemetryCount
  BY AcksType DEF AcksInv

\* The client never takes a sample as acknowledged that the server has not
\* counted, however acknowledgements are delayed, lost or left over.
THEOREM SessionAcknowledgedWithinCount == Spec => []AcknowledgedWithinCount
<1>1. Init => AcksInv
  BY AcksInit
<1>2. AcksInv /\ SessionInv /\ [Next]_vars => AcksInv'
  BY AcksStep
<1>3. AcksInv /\ SessionInv => AcknowledgedWithinCount
  <2> SUFFICES ASSUME AcksInv, SessionInv
               PROVE  AcknowledgedWithinCount
    OBVIOUS
  <2>1. samplesAcknowledged <= telemetryCount
    BY AcknowledgedCounted
  <2>2. index \in Nat
    BY ClientAssumption DEF SessionInv, ClientInv, ClientTypeOK
  <2> QED
    BY <2>1, <2>2, AcksType DEF samplesAcknowledged, WindowPoint, AcknowledgedWithinCount
<1> QED
  BY <1>1, <1>2, <1>3, SessionInvInit, SessionInvStep, PTL DEF Spec

(***************************************************************************)
(* The large transfer.                                                     *)
(***************************************************************************)
\* What the client has received: the first chunks in order, all of them once it
\* stops asking for more.
BufferInv ==
  /\ Len(fileBuffer) <= TotalChunks
  /\ \A k \in DOMAIN fileBuffer : fileBuffer[k] = k - 1
  /\ cPc = "chunk" => expectedChunks = TotalChunks /\ Len(fileBuffer) < TotalChunks
  /\ cPc \in {"end", "transferStatus"} \/ largeTransferCompleted
       => Len(fileBuffer) = TotalChunks
  /\ Receiving => ~largeTransferCompleted

\* What is on its way: the session's one START comes before the client receives
\* anything, and the chunks behind it are in order.
PipeInv ==
  /\ ChunksInOrder(toClient, TotalChunks)
  /\ NotBegun \/ Contains(toClient, "LARGE_DATA_START")
       => ~Receiving /\ ~largeTransferCompleted
  /\ NotBegun => ~Contains(toClient, "LARGE_DATA_START")

\* The chunk the client takes next, on its way or still to be sent, is the first
\* one it does not have.
NextForClient ==
  cPc = "chunk" /\ ~reset =>
    IF toClient = <<>>
    THEN sPc = "sendChunk" => chunkIndex = Len(fileBuffer)
    ELSE Head(toClient).type = "LARGE_DATA_CHUNK" => Head(toClient).arg = Len(fileBuffer)

\* The chunk the server sends next continues the last packet it sent, if that
\* has not been taken yet.
NextFromServer ==
  sPc = "sendChunk" /\ toClient # <<>> =>
    LET last == toClient[Len(toClient)]
    IN  \/ last.type = "LARGE_DATA_START" /\ chunkIndex = 0
        \/ last.type = "LARGE_DATA_CHUNK" /\ chunkIndex = last.arg + 1

\* The inductive invariant behind TransferIntact.
TransferInv ==
  /\ FirstTransfer
  /\ FromFirstChunk
  /\ BufferInv
  /\ PipeInv
  /\ NextForClient
  /\ NextFromServer

\* Steps that are not the client's leave what it has received.
LEMMA BufferUnchanged == BufferInv /\ UNCHANGED clientVars => BufferInv'
  BY DEF BufferInv, Receiving, clientVars, transferVars

\* The server appends to the transfer in order, and at its own index.
LEMMA ServerKeepsTransfer ==
  ASSUME SessionInv, TransferInv, ServerNext, UNCHANGED clientVars
  PROVE  TransferInv'
<1>a. /\ toClient \in Seq(Packet)
      /\ chunkIndex \in Nat
      /\ responseSequence \in Nat
  BY DEF SessionInv, NetTypeOK, ServerTypeOK
<1>b. FirstTransfer' /\ BufferInv'
  BY FirstTransferStep, BufferUnchanged DEF TransferInv, SessionInv
<1>c. UNCHANGED <<cPc, fileBuffer, largeTransferCompleted>> /\ Receiving' = Receiving
  BY DEF clientVars, transferVars, Receiving
<1>1. CASE SendStart
  <2>1. PICK packet \in Packet :
          packet = makePacket("LARGE_DATA_START", responseSequence, TotalChunks)
    BY <1>a, PacketType, TotalChunksNat DEF MessageType
  <2>2. packet.type = "LARGE_DATA_START" /\ packet.arg = TotalChunks
    BY <2>1 DEF makePacket
  <2>3. /\ toClient' = Append(toClient, packet)
        /\ sPc = "sendStart" /\ sPc' = "sendChunk"
        /\ UNCHANGED <<chunkIndex, reset>>
    BY <1>1, <2>1 DEF SendStart, ServerSends, ServerGoto, Ends, exchangeVars, loopVars
  <2>4. NotBegun /\ ~NotBegun' /\ chunkIndex = 0
    BY <2>3 DEF TransferInv, FirstTransfer, TransferUnderWay, NotBegun, FromFirstChunk
  <2>5. /\ ~Contains(toClient, "LARGE_DATA_START")
        /\ ~Receiving
        /\ ~largeTransferCompleted
    BY <2>4 DEF TransferInv, PipeInv
  <2>6. ChunksInOrder(toClient', TotalChunks)
    BY <1>a, <2>2, <2>3, <2>5, AppendedChunks DEF TransferInv, PipeInv
  <2>7. toClient'[Len(toClient')] = packet
    BY <1>a, <2>3, AppendedEnds
  <2>8. PipeInv'
    BY <1>c, <2>4, <2>5, <2>6 DEF PipeInv
  <2>9. NextForClient'
    BY <1>c, <2>5 DEF NextForClient, Receiving
  <2>10. NextFromServer'
    BY <2>2, <2>3, <2>4, <2>7 DEF NextFromServer
  <2>11. FromFirstChunk'
    BY <2>3 DEF FromFirstChunk
  <2> QED
    BY <1>b, <2>8, <2>9, <2>10, <2>11 DEF TransferInv
<1>2. CASE SendChunk
  <2>1. PICK packet \in Packet :
          packet = makePacket("LARGE_DATA_CHUNK", responseSequence, chunkIndex)
    BY <1>a, PacketType DEF MessageType
  <2>2. packet.type = "LARGE_DATA_CHUNK" /\ packet.arg = chunkIndex
    BY <2>1 DEF makePacket
  <2>3. /\ toClient' = Append(toClient, packet)
        /\ sPc = "sendChunk" /\ sPc' \in {"sendChunk", "sendEnd"}
        /\ chunkIndex' = chunkIndex + 1
        /\ UNCHANGED reset
    BY <1>2, <2>1 DEF SendChunk, ServerSendsBulk, ServerSends, ServerGoto, Ends
  <2>4. toClient = <<>> \/ Continues(packet, toClient[Len(toClient)])
    BY <2>2, <2>3 DEF TransferInv, NextFromServer, Continues
  <2>5. ChunksInOrder(toClient', TotalChunks)
    BY <1>a, <2>2, <2>3, <2>4, AppendedChunks DEF TransferInv, PipeInv
  <2>6. /\ toClient' # <<>>
        /\ toClient'[Len(toClient')] = packet
        /\ Head(toClient') = IF toClient = <<>> THEN packet ELSE Head(toClient)
        /\ Contains(toClient', "LARGE_DATA_START") <=> Contains(toClient, "LARGE_DATA_START")
    BY <1>a, <2>2, <2>3, AppendedEnds
  <2>7. ~NotBegun'
    BY <2>3 DEF NotBegun
  <2>8. PipeInv'
    BY <1>c, <2>5, <2>6, <2>7 DEF TransferInv, PipeInv
  <2>9. NextForClient'
    BY <1>c, <2>2, <2>3, <2>6 DEF TransferInv, NextForClient
  <2>10. NextFromServer'
    BY <2>2, <2>3, <2>6 DEF NextFromServer
  <2>11. FromFirstChunk'
    BY <2>3 DEF FromFirstChunk
  <2> QED
    BY <1>b, <2>8, <2>9, <2>10, <2>11 DEF TransferInv
<1>3. CASE /\ sPc' \notin {"sendChunk", "sendEnd"} /\ chunkIndex' = 0
           /\ NotBegun' => NotBegun
           /\ reset => reset'
           /\ \/ UNCHANGED toClient
              \/ \E packet \in Packet :
                   /\ toClient' = Append(toClient, packet)
                   /\ packet.type \notin {"LARGE_DATA_START", "LARGE_DATA_CHUNK"}
  <2>1. FromFirstChunk' /\ NextFromServer'
    BY <1>3 DEF FromFirstChunk, NextFromServer
  <2>2. CASE UNCHANGED toClient
    <3>1. PipeInv'
      BY <1>3, <1>c, <2>2 DEF TransferInv, PipeInv
    <3>2. NextForClient'
      BY <1>3, <1>c, <2>2 DEF TransferInv, NextForClient
    <3> QED
      BY <1>b, <2>1, <3>1, <3>2 DEF TransferInv
  <2>3. ASSUME NEW packet \in Packet,
               toClient' = Append(toClient, packet),
               packet.type \notin {"LARGE_DATA_START", "LARGE_DATA_CHUNK"}
        PROVE  TransferInv'
    <3>1. ChunksInOrder(toClient', TotalChunks)
      BY <1>a, <2>3, AppendedChunks DEF TransferInv, PipeInv
    <3>2. /\ toClient' # <<>>
          /\ Head(toClient') = IF toClient = <<>> THEN packet ELSE Head(toClient)
          /\ Contains(toClient', "LARGE_DATA_START")
               <=> Contains(toClient, "LARGE_DATA_START")
      BY <1>a, <2>3, AppendedEnds
    <3>3. PipeInv'
      BY <1>3, <1>c, <3>1, <3>2 DEF TransferInv, PipeInv
    <3>4. NextForClient'
      BY <1>3, <1>c, <2>3, <3>2 DEF TransferInv, NextForClient
    <3> QED
      BY <1>b, <2>1, <3>3, <3>4 DEF TransferInv
  <2> QED
    BY <1>3, <2>2, <2>3
<1> QED
  BY <1>1, <1>2, <1>3, ServerTransferStep DEF SessionInv, TransferInv

\* The client appends to its buffer what comes, which is what is due.
LEMMA ClientKeepsTransfer ==
  ASSUME SessionInv, TransferInv, ClientNext, UNCHANGED serverVars
  PROVE  TransferInv'
<1>a. toClient \in Seq(Packet) /\ fileBuffer \in Seq(Nat)
  BY DEF SessionInv, NetTypeOK, ClientInv, ClientTypeOK
<1>b. /\ UNCHANGED <<sPc, chunkIndex>>
      /\ NotBegun' = NotBegun
      /\ FirstTransfer'
      /\ FromFirstChunk'
  BY DEF serverVars, exchangeVars, loopVars, TransferInv, NotBegun, FirstTransfer,
         TransferUnderWay, FromFirstChunk
\* A packet taken off the queue: what the transfer knows of the rest.
<1>c. ASSUME toClient # <<>>, toClient' = Tail(toClient)
      PROVE  /\ ChunksInOrder(toClient', TotalChunks)
             /\ Contains(toClient', "LARGE_DATA_START")
                  => Contains(toClient, "LARGE_DATA_START")
             /\ Head(toClient).type = "LARGE_DATA_START" =>
                  /\ Head(toClient).arg = TotalChunks
                  /\ Contains(toClient, "LARGE_DATA_START")
                  /\ ~Contains(toClient', "LARGE_DATA_START")
             /\ toClient' # <<>> /\ Head(toClient').type = "LARGE_DATA_CHUNK" =>
                  Continues(Head(toClient'), Head(toClient))
             /\ toClient' # <<>> => toClient'[Len(toClient')] = toClient[Len(toClient)]
             /\ toClient' = <<>> => Head(toClient) = toClient[Len(toClient)]
  BY <1>a, <1>c, TailChunks, Zenon DEF TransferInv, PipeInv
<1>d. ASSUME UNCHANGED toClient \/ (toClient # <<>> /\ toClient' = Tail(toClient))
      PROVE  NextFromServer'
  <2>1. CASE UNCHANGED toClient
    BY <1>b, <2>1 DEF TransferInv, NextFromServer
  <2>2. CASE toClient # <<>> /\ toClient' = Tail(toClient)
    BY <1>b, <1>c, <2>2 DEF TransferInv, NextFromServer
  <2> QED
    BY <1>d, <2>1, <2>2
<1>e. NextFromServer'
  BY <1>d, ClientStepQueue
<1>1. CASE ReceiveStart
  <2>1. /\ toClient # <<>> /\ toClient' = Tail(toClient)
        /\ Head(toClient).type = "LARGE_DATA_START"
        /\ cPc' = IF Head(toClient).arg > 0 THEN "chunk" ELSE "end"
        /\ expectedChunks' = Head(toClient).arg
        /\ fileBuffer' = <<>>
        /\ UNCHANGED largeTransferCompleted
    BY <1>1 DEF ReceiveStart, ClientGets, ClientReceives, clientIncoming
  <2>2. /\ ~largeTransferCompleted /\ ~largeTransferCompleted'
        /\ ~NotBegun'
        /\ ~Contains(toClient', "LARGE_DATA_START")
        /\ Head(toClient).arg = TotalChunks
    BY <1>b, <1>c, <2>1 DEF TransferInv, PipeInv
  <2>3. TotalChunks \in Nat /\ TotalChunks > 0
    BY SomeChunks
  <2>4. PipeInv'
    BY <1>c, <2>1, <2>2 DEF PipeInv
  <2>5. Len(fileBuffer') = 0 /\ DOMAIN fileBuffer' = {}
    BY <2>1, EmptySeq
  <2>6. BufferInv'
    BY <2>1, <2>2, <2>3, <2>5 DEF BufferInv, Receiving
  <2>7. NextForClient'
    <3>1. CASE toClient' = <<>>
      BY <1>b, <1>c, <2>1, <2>5, <3>1 DEF TransferInv, NextForClient, NextFromServer
    <3>2. CASE toClient' # <<>>
      BY <1>c, <2>1, <2>5, <3>2 DEF NextForClient, Continues
    <3> QED
      BY <3>1, <3>2
  <2> QED
    BY <1>b, <1>e, <2>4, <2>6, <2>7 DEF TransferInv
<1>2. CASE ReceiveChunk
  <2>1. /\ toClient # <<>> /\ toClient' = Tail(toClient)
        /\ Head(toClient).type = "LARGE_DATA_CHUNK"
        /\ cPc = "chunk" /\ ~reset
        /\ cPc' = IF Len(fileBuffer) + 1 < expectedChunks THEN "chunk" ELSE "end"
        /\ fileBuffer' = Append(fileBuffer, Head(toClient).arg)
        /\ UNCHANGED <<expectedChunks, largeTransferCompleted>>
    BY <1>2 DEF ReceiveChunk, ClientGets, ClientReceives, clientIncoming
  <2>2. PICK n \in Nat : n = Len(fileBuffer)
    BY <1>a, LenProperties
  <2>3. /\ Head(toClient).arg = n
        /\ expectedChunks = TotalChunks
        /\ n < TotalChunks
        /\ ~largeTransferCompleted
    BY <2>1, <2>2 DEF TransferInv, NextForClient, BufferInv, Receiving
  <2>4. /\ Len(fileBuffer') = n + 1
        /\ DOMAIN fileBuffer' = 1 .. n + 1
        /\ \A k \in 1 .. n : fileBuffer'[k] = fileBuffer[k]
        /\ fileBuffer'[n + 1] = n
        /\ DOMAIN fileBuffer = 1 .. n
    BY <1>a, <2>1, <2>2, <2>3, AppendProperties, LenProperties
  <2>5. \A k \in DOMAIN fileBuffer' : fileBuffer'[k] = k - 1
    BY <2>4 DEF TransferInv, BufferInv
  <2>6. BufferInv'
    BY <2>1, <2>3, <2>4, <2>5, TotalChunksNat DEF BufferInv
  <2>7. ~NotBegun' /\ ~Contains(toClient', "LARGE_DATA_START")
    BY <1>b, <1>c, <2>1 DEF TransferInv, PipeInv, Receiving
  <2>8. PipeInv'
    BY <1>c, <2>1, <2>7 DEF PipeInv
  <2>9. NextForClient'
    <3>1. CASE toClient' = <<>>
      BY <1>b, <1>c, <2>1, <2>3, <2>4, <3>1
         DEF TransferInv, NextForClient, NextFromServer
    <3>2. CASE toClient' # <<>>
      BY <1>c, <2>1, <2>3, <2>4, <3>2 DEF NextForClient, Continues
    <3> QED
      BY <3>1, <3>2
  <2> QED
    BY <1>b, <1>e, <2>6, <2>8, <2>9 DEF TransferInv
<1>3. CASE ReceiveEnd
  <2>1. /\ toClient # <<>> /\ toClient' = Tail(toClient)
        /\ cPc = "end" /\ cPc' = "transferStatus"
        /\ UNCHANGED <<expectedChunks, fileBuffer, largeTransferCompleted>>
    BY <1>3 DEF ReceiveEnd, ClientGets, ClientReceives, transferVars
  <2>2. BufferInv'
    BY <2>1 DEF TransferInv, BufferInv, Receiving
  <2>3. ~NotBegun' /\ ~Contains(toClient', "LARGE_DATA_START")
    BY <1>b, <1>c, <2>1 DEF TransferInv, PipeInv, Receiving
  <2>4. PipeInv'
    BY <1>c, <2>1, <2>3 DEF PipeInv
  <2>5. NextForClient'
    BY <2>1 DEF NextForClient
  <2> QED
    BY <1>b, <1>e, <2>2, <2>4, <2>5 DEF TransferInv
<1>4. CASE SendTransferStatus
  <2>1. /\ UNCHANGED toClient
        /\ cPc = "transferStatus"
        /\ UNCHANGED fileBuffer
    BY <1>4 DEF SendTransferStatus, ClientSends
  <2>2. ~Receiving'
    BY <1>4 DEF SendTransferStatus, WindowCloses, Fail, Receiving
  <2>3. Len(fileBuffer) = TotalChunks
    BY <2>1 DEF TransferInv, BufferInv
  <2>4. BufferInv'
    BY <2>1, <2>2, <2>3, TotalChunksNat DEF TransferInv, BufferInv, Receiving
  <2>5. ~NotBegun /\ ~Contains(toClient, "LARGE_DATA_START")
    BY <2>1 DEF TransferInv, PipeInv, Receiving
  <2>6. PipeInv'
    BY <1>b, <2>1, <2>5 DEF TransferInv, PipeInv
  <2>7. NextForClient'
    BY <2>2 DEF NextForClient, Receiving
  <2> QED
    BY <1>b, <1>e, <2>4, <2>6, <2>7 DEF TransferInv
<1>5. CASE /\ ~Receiving'
           /\ UNCHANGED fileBuffer
           /\ largeTransferCompleted' => largeTransferCompleted
  <2>1. BufferInv'
    BY <1>5 DEF TransferInv, BufferInv, Receiving
  <2>2. /\ ChunksInOrder(toClient', TotalChunks)
        /\ Contains(toClient', "LARGE_DATA_START") => Contains(toClient, "LARGE_DATA_START")
    BY <1>c, ClientStepQueue DEF TransferInv, PipeInv
  <2>3. PipeInv'
    BY <1>5, <1>b, <2>2 DEF TransferInv, PipeInv
  <2>4. NextForClient'
    BY <1>5 DEF NextForClient, Receiving
  <2> QED
    BY <1>b, <1>e, <2>1, <2>3, <2>4 DEF TransferInv
<1> QED
  BY <1>1, <1>2, <1>3, <1>4, <1>5, ClientTransferStep

\* A reset takes everything off the queue, and the client receives no more.
LEMMA LinkKeepsTransfer ==
  ASSUME TransferInv, UNCHANGED serverVars, UNCHANGED clientVars,
         ConnectionReset \/ UNCHANGED netVars
  PROVE  TransferInv'
<1>a. /\ UNCHANGED <<sPc, chunkIndex, cPc, fileBuffer, largeTransferCompleted>>
      /\ NotBegun' = NotBegun
      /\ Receiving' = Receiving
      /\ FirstTransfer'
      /\ FromFirstChunk'
  BY DEF serverVars, exchangeVars, loopVars, clientVars, transferVars, TransferInv,
         NotBegun, Receiving, FirstTransfer, TransferUnderWay, FromFirstChunk
<1>b. BufferInv'
  BY BufferUnchanged DEF TransferInv
<1>1. CASE ConnectionReset
  <2>1. toClient' = <<>> /\ reset'
    BY <1>1 DEF ConnectionReset
  <2>2. DOMAIN toClient' = {}
    BY <2>1
  <2>3. PipeInv'
    BY <1>a, <2>2 DEF TransferInv, PipeInv, ChunksInOrder, Contains
  <2> QED
    BY <1>a, <1>b, <2>1, <2>3 DEF TransferInv, NextForClient, NextFromServer
<1>2. CASE UNCHANGED netVars
  BY <1>2, <1>a, <1>b DEF netVars, TransferInv, PipeInv, NextForClient, NextFromServer
<1> QED
  BY <1>1, <1>2

\* A session begins with nothing on its way and nothing received.
LEMMA TransferInvInit ==
  ASSUME Init
  PROVE  TransferInv
<1>1. DOMAIN toClient = {} /\ DOMAIN fileBuffer = {} /\ Len(fileBuffer) = 0
  BY EmptySeq DEF Init, NetInit, ClientInit
<1>2. FirstTransfer /\ FromFirstChunk
  BY DEF Init, ServerInit, FirstTransfer, TransferUnderWay, FromFirstChunk
<1>3. BufferInv
  BY <1>1, TotalChunksNat DEF Init, ClientInit, BufferInv, Receiving
<1>4. PipeInv
  BY <1>1 DEF Init, ClientInit, PipeInv, ChunksInOrder, Contains, Receiving
<1>5. NextForClient /\ NextFromServer
  BY DEF Init, ClientInit, ServerInit, NextForClient, NextFromServer
<1> QED
  BY <1>2, <1>3, <1>4, <1>5 DEF TransferInv

\* A client that waits for no more chunks, or has completed, holds the payload.
LEMMA WholeBuffer ==
  ASSUME BufferInv, ClientTypeOK, cPc \in {"end", "transferStatus"} \/ largeTransferCompleted
  PROVE  fileBuffer = Blob
<1>1. fileBuffer \in Seq(Nat) /\ Len(fileBuffer) = TotalChunks
  BY DEF BufferInv, ClientTypeOK
<1>2. \A k \in 1 .. TotalChunks : fileBuffer[k] = k - 1
  BY <1>1, LenProperties DEF BufferInv
<1>3. fileBuffer = [k \in 1 .. TotalChunks |-> fileBuffer[k]]
  BY <1>1, LenProperties
<1> QED
  BY <1>2, <1>3 DEF Blob

\* For every payload size, chunk size, buffer and fault the model knows, what
\* the client holds is the beginning of the payload, and what it has accepted
\* is the whole of it, although neither side numbers the chunks.
THEOREM SessionTransferIntact == Spec => []TransferIntact
<1>1. TransferInv /\ SessionInv /\ [Next]_vars => TransferInv'
  <2> SUFFICES ASSUME TransferInv, SessionInv, [Next]_vars
               PROVE  TransferInv'
    OBVIOUS
  <2>1. CASE ServerStep
    BY <2>1, ServerKeepsTransfer DEF ServerStep
  <2>2. CASE ClientStep
    BY <2>2, ClientKeepsTransfer DEF ClientStep
  <2>3. CASE LinkStep \/ Terminated \/ UNCHANGED vars
    BY <2>3, LinkKeepsTransfer DEF LinkStep, Terminated, vars
  <2> QED
    BY <2>1, <2>2, <2>3 DEF Next
<1>2. TransferInv /\ SessionInv => TransferIntact
  <2> SUFFICES ASSUME TransferInv, SessionInv
               PROVE  TransferIntact
    OBVIOUS
  <2>1. fileBuffer \in Seq(Nat)
    BY DEF SessionInv, ClientInv, ClientTypeOK
  <2>2. PICK n \in Nat : n = Len(fileBuffer)
    BY <2>1, LenProperties
  <2>3. /\ n <= TotalChunks
        /\ fileBuffer = [k \in 1 .. n |-> k - 1]
    BY <2>1, <2>2, LenProperties DEF TransferInv, BufferInv
  <2>4. SubSeq(Blob, 1, n) = [k \in 1 .. n |-> k - 1]
    BY <2>2, <2>3, BlobPrefix
  <2>5. largeTransferCompleted => fileBuffer = Blob
    BY WholeBuffer DEF TransferInv, SessionInv, ClientInv
  <2> QED
    BY <2>2, <2>3, <2>4, <2>5 DEF TransferIntact
<1> QED
  BY <1>1, <1>2, TransferInvInit, SessionInvInit, SessionInvStep, PTL DEF Spec
=============================================================================
