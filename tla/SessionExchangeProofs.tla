------------------------ MODULE SessionExchangeProofs ------------------------
(***************************************************************************)
(* The exchanges of a session, for every value of the constants.  Neither  *)
(* side looks at what a response says, or at the number of the request it  *)
(* answers; what is proved here is that the response an exchange takes is  *)
(* nevertheless its own.  Everything follows from two facts about the      *)
(* client: it answers one request per window, and it opens the next window *)
(* only after an acknowledgement of its next sample, which throws away     *)
(* every request in front of that acknowledgement.                         *)
(***************************************************************************)
EXTENDS SessionProofs

(***************************************************************************)
(* Answers on their way.                                                   *)
(***************************************************************************)
Response == {"COMMAND_ACK", "STATUS_RESPONSE"}
Request  == {"COMMAND", "DATA_REQUEST", "LARGE_DATA_START"}

\* The client throws away whatever is not a TELEMETRY_ACK.
Skipping == cPc \in {"telemetry", "telemetryAck"}

\* The client opens no more windows.
Gone == cPc \in {"disconnect", "finalAck", "close", "done"}

\* The client is at work on a request.
Answering == cPc \in {"answerCommand", "answerRequest"} \/ Receiving

\* The client may still come to answer packet k of the queue towards it.
Answerable(k) ==
  /\ toClient[k].type \in Request
  /\ ~Gone
  /\ Skipping => \E j \in DOMAIN toClient : j < k /\ toClient[j].type = "TELEMETRY_ACK"

\* No response is on its way, and none will be made for what was sent so far.
NothingPending ==
  /\ \A k \in DOMAIN toServer : toServer[k].type \notin Response
  /\ ~Answering
  /\ \A k \in DOMAIN toClient : ~Answerable(k)

NoAcks == \A k \in DOMAIN toClient : toClient[k].type # "TELEMETRY_ACK"

\* The client is at its telemetry, with no way back to its windows, or gone.
Past == Skipping \/ Gone

\* Responses to an exchange that is over may still come, but only in front of the
\* next sample: the session loop refuses them before it can start an exchange.
Leftovers ==
  /\ NoAcks
  /\ \A j, k \in DOMAIN toServer :
       j < k /\ toServer[j].type = "TELEMETRY" => toServer[k].type \notin Response
  /\ (\E k \in DOMAIN toServer : toServer[k].type = "TELEMETRY") => Past

\* During an exchange, samples come after the responses or have been sent before
\* the exchange began; and a request is answered only after all acknowledgements.
InOrder ==
  /\ Answering \/ (\E k \in DOMAIN toServer : toServer[k].type \in Response) => NoAcks
  /\ \A j, k \in DOMAIN toClient :
       j < k /\ Answerable(j) => toClient[k].type # "TELEMETRY_ACK"
  /\ \A j, k \in DOMAIN toServer :
       j < k /\ toServer[j].type \in Response /\ toServer[k].type = "TELEMETRY" => Past
  /\ \A i, j, k \in DOMAIN toServer :
       /\ i < j /\ j < k
       /\ toServer[i].type \in Response
       /\ toServer[j].type = "TELEMETRY"
       => toServer[k].type \notin Response

CommandExchange  == sPc \in {"sendCommand", "commandAck"}
StatusExchange   == sPc \in {"sendRequest", "statusResponse"}
TransferExchange == sPc \in {"beginTransfer", "sendStart", "sendChunk", "sendEnd",
                             "transferStatus"}

\* A request of the exchange in progress, or a step before it.
OwnRequest(type, arg) ==
  /\ CommandExchange  => type = "COMMAND" /\ arg = command
  /\ StatusExchange   => type = "DATA_REQUEST"
  /\ TransferExchange => type \in {"COMMAND", "LARGE_DATA_START"}

OwnResponse(type, arg) ==
  /\ CommandExchange  => type = "COMMAND_ACK" /\ arg = command
  /\ StatusExchange   => type = "STATUS_RESPONSE" /\ arg = EngineStatus
  /\ TransferExchange => type = "COMMAND_ACK" \/ (type = "STATUS_RESPONSE" /\ arg = TransferOk)

\* Whatever is answered, being answered or answerable belongs to the exchange.
OnlyOwn ==
  /\ \A k \in DOMAIN toClient :
       Answerable(k) => OwnRequest(toClient[k].type, toClient[k].arg)
  /\ cPc = "answerCommand" => OwnRequest("COMMAND", order)
  /\ cPc = "answerRequest" => OwnRequest("DATA_REQUEST", NoPayload)
  /\ Receiving             => OwnRequest("LARGE_DATA_START", TotalChunks)
  /\ \A k \in DOMAIN toServer :
       toServer[k].type \in Response => OwnResponse(toServer[k].type, toServer[k].arg)

\* Where the server has not asked anything, or may be about to.
BeforeExchange == sPc \in {"startup", "accept", "verify", "connectAck", "telemetryAck"}

InExchange == CommandExchange \/ StatusExchange \/ TransferExchange

\* The report of a complete transfer is sent when the client has one.
ReportTrue ==
  \A k \in DOMAIN toServer :
    toServer[k].type = "STATUS_RESPONSE" /\ toServer[k].arg = TransferOk
      => largeTransferCompleted

\* The inductive invariant behind ResponsesMatchRequests and TransferConfirmed.
ExchangeInv ==
  /\ BeforeExchange => NothingPending
  /\ sPc = "active" => NothingPending \/ Leftovers
  /\ InExchange     => InOrder /\ OnlyOwn
  /\ ReportTrue

(***************************************************************************)
(* What a step of the client may do.                                       *)
(***************************************************************************)
\* The client goes on, takes or drops a packet, but asks nothing and answers
\* nothing.
ClientMoves ==
  /\ UNCHANGED toServer
  /\ UNCHANGED toClient \/ (toClient # <<>> /\ toClient' = Tail(toClient))
  /\ ~Answering' \/ (Receiving /\ Receiving')
  /\ Skipping => Past'
  /\ Gone => Gone'
  /\ UNCHANGED largeTransferCompleted \/ Receiving

ClientTakesAck ==
  /\ UNCHANGED <<toServer, largeTransferCompleted>>
  /\ toClient # <<>> /\ toClient' = Tail(toClient)
  /\ Head(toClient).type = "TELEMETRY_ACK"
  /\ Skipping
  /\ cPc' = "optional"

ClientTakesRequest ==
  /\ UNCHANGED <<toServer, largeTransferCompleted>>
  /\ toClient # <<>> /\ toClient' = Tail(toClient)
  /\ cPc = "optional"
  /\ \/ /\ Head(toClient).type = "COMMAND"
        /\ cPc' = "answerCommand" /\ order' = Head(toClient).arg
     \/ /\ Head(toClient).type = "DATA_REQUEST"
        /\ cPc' = "answerRequest"
     \/ /\ Head(toClient).type = "LARGE_DATA_START"
        /\ Receiving'

\* A response is sent, and the window it was made in closes.
ClientResponds ==
  /\ UNCHANGED toClient
  /\ ~Answering'
  /\ \E packet \in Packet :
       /\ toServer' = Append(toServer, packet)
       /\ \/ /\ cPc = "answerCommand"
             /\ packet.type = "COMMAND_ACK" /\ packet.arg = order
             /\ UNCHANGED largeTransferCompleted
          \/ /\ cPc = "answerRequest"
             /\ packet.type = "STATUS_RESPONSE" /\ packet.arg = EngineStatus
             /\ UNCHANGED largeTransferCompleted
          \/ /\ cPc = "transferStatus"
             /\ packet.type = "STATUS_RESPONSE" /\ packet.arg = TransferOk
             /\ largeTransferCompleted'

\* Another packet is sent.
ClientSendsOther ==
  /\ UNCHANGED <<toClient, largeTransferCompleted>>
  /\ ~Answering /\ ~Answering'
  /\ Skipping => Past'
  /\ Gone => Gone'
  /\ \E packet \in Packet :
       /\ toServer' = Append(toServer, packet)
       /\ packet.type \notin Response
       /\ packet.type = "TELEMETRY" => Skipping'

\* These are the steps of the client.
LEMMA ClientExchangeStep ==
  ASSUME SessionInv, TransferInv, ClientNext
  PROVE  ClientMoves \/ ClientTakesAck \/ ClientTakesRequest \/ ClientResponds
           \/ ClientSendsOther
<1> USE DEF Receiving, Answering, Skipping, Gone, Past, Fail, transferVars, netVars,
            ClientReceives, ClientReceivesNothing, ClientGets, ClientMisses,
            ClientSendFails, NextClientSend, NextClientReceive, clientIncoming
<1>a. sequenceNumber \in Nat /\ index \in Nat /\ order \in Nat
  BY ClientAssumption DEF SessionInv, ClientInv, ClientTypeOK
\* A packet put into the connection.
<1>b. ASSUME NEW type \in MessageType, NEW arg \in Nat,
             ClientSends(makePacket(type, sequenceNumber, arg))
      PROVE  /\ UNCHANGED toClient
             /\ \E packet \in Packet : /\ toServer' = Append(toServer, packet)
                                       /\ packet.type = type
                                       /\ packet.arg = arg
  <2> DEFINE packet == makePacket(type, sequenceNumber, arg)
  <2>1. packet \in Packet /\ packet.type = type /\ packet.arg = arg
    BY <1>a, PacketType DEF makePacket
  <2> QED
    BY <1>b, <2>1 DEF ClientSends
<1>1. CASE StartupFails \/ Connect \/ ConnectFails \/ ReceiveConnectAck \/ MissConnectAck
  <2>1. ClientMoves
    BY <1>1 DEF StartupFails, Connect, ConnectFails, ReceiveConnectAck, MissConnectAck,
                ClientConnects, ClientConnectRefused, ClientMoves
  <2> QED BY <2>1
<1>2. CASE SendConnectRequest
  <2>1. CASE ClientSendFails
    <3>1. ClientMoves
      BY <1>2, <2>1 DEF SendConnectRequest, ClientMoves, ClientSends
    <3> QED BY <3>1
  <2>2. CASE ClientSends(makePacket("CONNECT_REQUEST", sequenceNumber, NoPayload))
    <3>1. ClientSendsOther
      BY <1>2, <2>2, <1>b DEF SendConnectRequest, ClientSendsOther, MessageType, NoPayload,
                              Response
    <3> QED BY <3>1
  <2> QED BY <1>2, <2>1, <2>2 DEF SendConnectRequest
<1>3. CASE SendTelemetry
  <2>1. CASE ClientSendFails
    <3>1. ClientMoves
      BY <1>3, <2>1 DEF SendTelemetry, ClientMoves, ClientSends
    <3> QED BY <3>1
  <2>2. CASE ClientSends(makePacket("TELEMETRY", sequenceNumber, index))
    <3>1. ClientSendsOther
      BY <1>3, <1>a, <2>2, <1>b DEF SendTelemetry, ClientSendsOther, MessageType, Response
    <3> QED BY <3>1
  <2> QED BY <1>3, <2>1, <2>2 DEF SendTelemetry
<1>4. CASE ReceiveTelemetryAck
  BY <1>4 DEF ReceiveTelemetryAck, ClientTakesAck
<1>5. CASE MissTelemetryAck
  <2>1. ClientMoves
    BY <1>5 DEF MissTelemetryAck, ClientMoves
  <2> QED BY <2>1
<1>6. CASE NoOptionalMessage \/ OptionalReceiveFails \/ IgnoreOptionalMessage
  <2>1. ClientMoves
    BY <1>6 DEF NoOptionalMessage, OptionalReceiveFails, IgnoreOptionalMessage,
                ClientSeesSilence, ClientReceiveFails, WindowCloses, ClientMoves
  <2> QED BY <2>1
<1>7. CASE ReceiveCommand \/ ReceiveDataRequest \/ ReceiveStart
  <2>1. CASE ReceiveCommand
    BY <1>7, <2>1, Zenon DEF ReceiveCommand, ClientTakesRequest
  <2>2. CASE ReceiveDataRequest
    BY <1>7, <2>2, Zenon DEF ReceiveDataRequest, ClientTakesRequest
  <2>3. CASE ReceiveStart
    <3>1. /\ UNCHANGED <<toServer, largeTransferCompleted>>
          /\ toClient # <<>> /\ toClient' = Tail(toClient)
          /\ cPc = "optional"
          /\ Head(toClient).type = "LARGE_DATA_START"
          /\ Receiving'
      BY <2>3 DEF ReceiveStart
    <3>2. ClientTakesRequest
      BY <3>1 DEF ClientTakesRequest
    <3> QED BY <3>2
  <2> QED BY <1>7, <2>1, <2>2, <2>3
<1>8. CASE SendCommandAck
  <2>1. CASE ClientSendFails
    <3>1. ClientMoves
      BY <1>8, <2>1 DEF SendCommandAck, Answer, ClientMoves, ClientSends
    <3> QED BY <3>1
  <2>2. CASE ClientSends(makePacket("COMMAND_ACK", sequenceNumber, order))
    <3>1. ClientResponds
      BY <1>8, <1>a, <2>2, <1>b DEF SendCommandAck, Answer, WindowCloses, ClientResponds,
                                    MessageType, ClientSends
    <3> QED BY <3>1
  <2> QED BY <1>8, <2>1, <2>2 DEF SendCommandAck, Answer
<1>9. CASE SendStatus
  <2>1. CASE ClientSendFails
    <3>1. ClientMoves
      BY <1>9, <2>1 DEF SendStatus, Answer, ClientMoves, ClientSends
    <3> QED BY <3>1
  <2>2. CASE ClientSends(makePacket("STATUS_RESPONSE", sequenceNumber, EngineStatus))
    <3>1. ClientResponds
      BY <1>9, <2>2, <1>b DEF SendStatus, Answer, WindowCloses, ClientResponds, MessageType,
                              EngineStatus, ClientSends
    <3> QED BY <3>1
  <2> QED BY <1>9, <2>1, <2>2 DEF SendStatus, Answer
\* A START is refused only before a transfer is complete.
<1>10. CASE ReceiveChunk \/ ReceiveEnd \/ TransferReceiveFails \/ TransferStatusFails
  <2>1. CASE TransferReceiveFails /\ cPc = "optional"
    <3>1. toClient # <<>> /\ Head(toClient).type = "LARGE_DATA_START"
      BY <2>1 DEF TransferReceiveFails
    <3>2. toClient[1].type = "LARGE_DATA_START" /\ 1 \in DOMAIN toClient
      BY <3>1, LenProperties DEF SessionInv, NetTypeOK
    <3>3. ~largeTransferCompleted
      BY <3>2 DEF TransferInv, PipeInv, Contains
    <3>4. ClientMoves
      BY <2>1, <3>1, <3>3 DEF TransferReceiveFails, ClientMoves, SessionInv, ClientInv,
                              ClientTypeOK
    <3> QED BY <3>4
  <2>2. CASE ~(TransferReceiveFails /\ cPc = "optional")
    <3>1. ClientMoves
      BY <1>10, <2>2 DEF ReceiveChunk, ReceiveEnd, TransferReceiveFails,
                         TransferStatusFails, ClientMoves
    <3> QED BY <3>1
  <2> QED BY <2>1, <2>2
<1>11. CASE SendTransferStatus
  <2>1. fileBuffer = Blob
    BY <1>11, WholeBuffer DEF SendTransferStatus, TransferInv, SessionInv, ClientInv
  <2>2. bufferAccepted(fileBuffer)
    BY <2>1, WholePayloadAccepted
  <2>3. /\ cPc = "transferStatus"
        /\ ClientSends(makePacket("STATUS_RESPONSE", sequenceNumber, TransferOk))
        /\ largeTransferCompleted'
        /\ WindowCloses
    BY <1>11, <2>2 DEF SendTransferStatus
  <2>4. ClientResponds
    BY <2>3, <1>b DEF WindowCloses, ClientResponds, MessageType, TransferOk
  <2> QED BY <2>4
<1>12. CASE SendDisconnect
  <2>1. CASE ClientSendFails
    <3>1. ClientMoves
      BY <1>12, <2>1 DEF SendDisconnect, ClientMoves, ClientSends
    <3> QED BY <3>1
  <2>2. CASE ClientSends(makePacket("DISCONNECT", sequenceNumber, NoPayload))
    <3>1. ClientSendsOther
      BY <1>12, <2>2, <1>b DEF SendDisconnect, ClientSendsOther, MessageType, NoPayload,
                               Response
    <3> QED BY <3>1
  <2> QED BY <1>12, <2>1, <2>2 DEF SendDisconnect
<1>13. CASE AwaitFinalAck \/ Close
  <2>1. ClientMoves
    BY <1>13 DEF AwaitFinalAck, Close, ClientCloses, ClientMoves
  <2> QED BY <2>1
<1> QED
  BY <1>1, <1>2, <1>3, <1>4, <1>5, <1>6, <1>7, <1>8, <1>9, <1>10, <1>11, <1>12, <1>13
     DEF ClientNext

(***************************************************************************)
(* The client keeps the exchange to itself.                                *)
(***************************************************************************)
ClientStepKind == ClientMoves \/ ClientTakesAck \/ ClientTakesRequest \/ ClientResponds
                    \/ ClientSendsOther

\* Every packet towards the client was there before the client's step, at the same
\* position or one behind, and could be answered then if it can be answered now.
LEMMA AnswerableShifts ==
  ASSUME NetTypeOK, ClientStepKind
  PROVE  \E s \in {0, 1} : \A k \in DOMAIN toClient' :
            /\ k \in Nat
            /\ k + s \in DOMAIN toClient
            /\ toClient'[k] = toClient[k + s]
            /\ Answerable(k)' => Answerable(k + s)
<1>a. toClient \in Seq(Packet)
  BY DEF NetTypeOK
<1>b. \/ UNCHANGED toClient /\ (Skipping => Past')
      \/ /\ toClient # <<>> /\ toClient' = Tail(toClient)
         /\ (Skipping => Past') \/ Head(toClient).type = "TELEMETRY_ACK"
  BY DEF ClientStepKind, ClientMoves, ClientTakesAck, ClientTakesRequest, ClientResponds,
         ClientSendsOther, Skipping, Receiving
<1>c. Gone => Gone'
  BY DEF ClientStepKind, ClientMoves, ClientTakesAck, ClientTakesRequest, ClientResponds,
         ClientSendsOther, Skipping, Receiving, Gone
<1>1. CASE UNCHANGED toClient /\ (Skipping => Past')
  <2>1. ASSUME NEW k \in DOMAIN toClient'
        PROVE  /\ k \in Nat
               /\ k + 0 = k
               /\ Answerable(k)' => Answerable(k)
    <3>1. k \in Nat
      BY <1>a, <1>1, LenProperties
    <3>2. Answerable(k)' => Answerable(k)
      BY <1>1, <1>c DEF Answerable, Past
    <3> QED
      BY <3>1, <3>2
  <2> QED
    BY <1>1, <2>1
<1>2. CASE /\ toClient # <<>> /\ toClient' = Tail(toClient)
           /\ (Skipping => Past') \/ Head(toClient).type = "TELEMETRY_ACK"
  <2>1. PICK n \in Nat \ {0} :
          /\ DOMAIN toClient = 1 .. n
          /\ Head(toClient) = toClient[1]
          /\ DOMAIN toClient' = 1 .. n - 1
          /\ \A k \in 1 .. n - 1 : toClient'[k] = toClient[k + 1]
    BY <1>a, <1>2, TailQueue
  <2>2. ASSUME NEW k \in DOMAIN toClient'
        PROVE  /\ k \in Nat
               /\ k + 1 \in DOMAIN toClient
               /\ toClient'[k] = toClient[k + 1]
               /\ Answerable(k)' => Answerable(k + 1)
    <3>1. k \in Nat /\ k + 1 \in DOMAIN toClient /\ toClient'[k] = toClient[k + 1] /\ 1 < k + 1
      BY <2>1
    <3>2. ASSUME Answerable(k)', Skipping
          PROVE  \E j \in DOMAIN toClient : j < k + 1 /\ toClient[j].type = "TELEMETRY_ACK"
      <4>1. CASE Head(toClient).type = "TELEMETRY_ACK"
        BY <2>1, <3>1, <4>1
      <4>2. CASE Skipping => Past'
        <5>1. Skipping'
          BY <3>2, <4>2 DEF Answerable, Past
        <5>2. PICK j \in DOMAIN toClient' : j < k /\ toClient'[j].type = "TELEMETRY_ACK"
          BY <3>2, <5>1 DEF Answerable
        <5>3. j + 1 \in DOMAIN toClient /\ j + 1 < k + 1 /\ toClient[j + 1] = toClient'[j]
          BY <2>1, <5>2
        <5> QED
          BY <5>2, <5>3
      <4> QED
        BY <1>2, <4>1, <4>2
    <3>3. Answerable(k)' => Answerable(k + 1)
      BY <3>1, <3>2, <1>c DEF Answerable
    <3> QED
      BY <3>1, <3>3
  <2> QED
    BY <2>2
<1> QED
  BY <1>b, <1>1, <1>2

\* The packets towards the server after the client's step.
LEMMA ClientAppends ==
  ASSUME NetTypeOK, NEW packet \in Packet, toServer' = Append(toServer, packet)
  PROVE  \E n \in Nat : /\ DOMAIN toServer = 1 .. n
                        /\ DOMAIN toServer' = 1 .. n + 1
                        /\ \A k \in 1 .. n : toServer'[k] = toServer[k]
                        /\ toServer'[n + 1] = packet
  BY AppendedQueue DEF NetTypeOK

\* A request the client takes could be answered.
LEMMA TakenAnswerable ==
  ASSUME NetTypeOK, ClientTakesRequest
  PROVE  /\ 1 \in DOMAIN toClient
         /\ Head(toClient) = toClient[1]
         /\ Answerable(1)
  BY TailQueue DEF ClientTakesRequest, Answerable, Gone, Skipping, Request, NetTypeOK

\* Where nothing is pending the client can change nothing about it.
LEMMA ClientKeepsNothingPending ==
  ASSUME NetTypeOK, NothingPending, ClientStepKind
  PROVE  NothingPending'
<1>1. \A k \in DOMAIN toClient' : ~Answerable(k)'
  BY AnswerableShifts DEF NothingPending
<1>2. ~ClientTakesRequest /\ ~ClientResponds
  BY TakenAnswerable DEF NothingPending, ClientResponds, Answering, Receiving
<1>3. ~Answering'
  BY <1>2 DEF NothingPending, ClientStepKind, ClientMoves, ClientTakesAck, ClientSendsOther,
              Answering, Receiving
<1>4. \A k \in DOMAIN toServer' : toServer'[k].type \notin Response
  <2>1. CASE UNCHANGED toServer
    BY <2>1 DEF NothingPending
  <2>2. CASE ClientSendsOther
    <3>1. PICK packet \in Packet : /\ toServer' = Append(toServer, packet)
                                   /\ packet.type \notin Response
      BY <2>2 DEF ClientSendsOther
    <3> QED
      BY <3>1, ClientAppends DEF NothingPending
  <2> QED
    BY <1>2, <2>1, <2>2 DEF ClientStepKind, ClientMoves, ClientTakesAck
<1> QED
  BY <1>1, <1>3, <1>4 DEF NothingPending

\* Without an acknowledgement on its way, the client stays without one.
LEMMA ClientKeepsNoAcks ==
  ASSUME NetTypeOK, NoAcks, ClientStepKind
  PROVE  NoAcks'
  BY AnswerableShifts DEF NoAcks

\* A client past its windows comes back to them only by an acknowledgement.
LEMMA ClientStaysPast ==
  ASSUME NetTypeOK, NoAcks, Past, ClientStepKind
  PROVE  Past' /\ ~ClientTakesRequest /\ ~ClientResponds
<1>1. ~ClientTakesAck
  BY TailQueue DEF ClientTakesAck, NoAcks, NetTypeOK
<1> QED
  BY <1>1 DEF ClientStepKind, ClientMoves, ClientTakesRequest, ClientResponds,
              ClientSendsOther, Past, Skipping, Gone, Answering, Receiving

\* Leftovers of an exchange stay in front of the next sample.
LEMMA ClientKeepsLeftovers ==
  ASSUME NetTypeOK, Leftovers, ClientStepKind
  PROVE  Leftovers'
<1>1. NoAcks'
  BY ClientKeepsNoAcks DEF Leftovers
<1>2. CASE UNCHANGED toServer
  <2>1. (\E k \in DOMAIN toServer : toServer[k].type = "TELEMETRY") => Past'
    BY ClientStaysPast DEF Leftovers
  <2> QED
    BY <1>1, <1>2, <2>1 DEF Leftovers
<1>3. ASSUME NEW packet \in Packet,
             toServer' = Append(toServer, packet),
             packet.type \in Response => ~Past,
             packet.type = "TELEMETRY" => Past'
      PROVE  Leftovers'
  <2>1. PICK n \in Nat : /\ DOMAIN toServer = 1 .. n
                         /\ DOMAIN toServer' = 1 .. n + 1
                         /\ \A k \in 1 .. n : toServer'[k] = toServer[k]
                         /\ toServer'[n + 1] = packet
    BY <1>3, ClientAppends
  <2>2. \A k \in DOMAIN toServer' : k = n + 1 \/ k \in DOMAIN toServer
    BY <2>1
  <2>3. \A j, k \in DOMAIN toServer' :
          j < k /\ toServer'[j].type = "TELEMETRY" => toServer'[k].type \notin Response
    <3> SUFFICES ASSUME NEW j \in DOMAIN toServer', NEW k \in DOMAIN toServer',
                        j < k, toServer'[j].type = "TELEMETRY"
                 PROVE  toServer'[k].type \notin Response
      OBVIOUS
    <3>1. j \in 1 .. n /\ toServer[j].type = "TELEMETRY"
      BY <2>1
    <3>2. Past
      BY <2>1, <3>1 DEF Leftovers
    <3>3. CASE k = n + 1
      BY <1>3, <2>1, <3>2, <3>3
    <3>4. CASE k \in 1 .. n
      BY <2>1, <3>1, <3>4 DEF Leftovers
    <3> QED
      BY <2>1, <3>3, <3>4
  <2>4. (\E k \in DOMAIN toServer' : toServer'[k].type = "TELEMETRY") => Past'
    <3> SUFFICES ASSUME NEW k \in DOMAIN toServer', toServer'[k].type = "TELEMETRY"
                 PROVE  Past'
      OBVIOUS
    <3>1. CASE k = n + 1
      BY <1>3, <2>1, <3>1
    <3>2. CASE k \in 1 .. n
      BY <2>1, <3>2, ClientStaysPast DEF Leftovers
    <3> QED
      BY <2>1, <3>1, <3>2
  <2> QED
    BY <1>1, <2>3, <2>4 DEF Leftovers
<1>4. CASE ClientResponds
  <2>1. ~Past
    BY <1>4 DEF ClientResponds, Past, Skipping, Gone
  <2>2. PICK packet \in Packet : /\ toServer' = Append(toServer, packet)
                                 /\ packet.type \in Response
    BY <1>4 DEF ClientResponds, Response
  <2> QED
    BY <1>3, <2>1, <2>2 DEF Response
<1>5. CASE ClientSendsOther
  <2>1. PICK packet \in Packet : /\ toServer' = Append(toServer, packet)
                                 /\ packet.type \notin Response
                                 /\ packet.type = "TELEMETRY" => Past'
    BY <1>5 DEF ClientSendsOther, Past
  <2> QED
    BY <1>3, <2>1
<1> QED
  BY <1>2, <1>4, <1>5 DEF ClientStepKind, ClientMoves, ClientTakesAck, ClientTakesRequest

\* During an exchange the client answers in order, and what is behind a response
\* finds it past its windows.
LEMMA ClientKeepsInOrder ==
  ASSUME NetTypeOK, InOrder, ClientStepKind
  PROVE  InOrder'
<1>1. \A j, k \in DOMAIN toClient' :
        j < k /\ Answerable(j)' => toClient'[k].type # "TELEMETRY_ACK"
  <2>1. PICK s \in {0, 1} : \A k \in DOMAIN toClient' :
            /\ k \in Nat
            /\ k + s \in DOMAIN toClient
            /\ toClient'[k] = toClient[k + s]
            /\ Answerable(k)' => Answerable(k + s)
    BY AnswerableShifts
  <2> SUFFICES ASSUME NEW j \in DOMAIN toClient', NEW k \in DOMAIN toClient',
                      j < k, Answerable(j)'
               PROVE  toClient'[k].type # "TELEMETRY_ACK"
    OBVIOUS
  <2>2. /\ j + s \in DOMAIN toClient /\ k + s \in DOMAIN toClient
        /\ j + s < k + s
        /\ Answerable(j + s)
        /\ toClient'[k] = toClient[k + s]
    BY <2>1
  <2> QED
    BY <2>2 DEF InOrder
<1>2. CASE ClientMoves \/ ClientTakesAck
  <2>1. UNCHANGED toServer /\ (Answering' => Answering)
    BY <1>2 DEF ClientMoves, ClientTakesAck, Answering, Receiving
  <2>2. Answering' \/ (\E k \in DOMAIN toServer' : toServer'[k].type \in Response) => NoAcks'
    BY <2>1, ClientKeepsNoAcks DEF InOrder
  <2>3. \A j, k \in DOMAIN toServer' :
          j < k /\ toServer'[j].type \in Response /\ toServer'[k].type = "TELEMETRY" => Past'
    BY <2>1, ClientStaysPast DEF InOrder
  <2> QED
    BY <1>1, <2>1, <2>2, <2>3 DEF InOrder
<1>3. CASE ClientTakesRequest
  <2>1. /\ UNCHANGED toServer
        /\ toClient # <<>> /\ toClient' = Tail(toClient)
        /\ ~Past
    BY <1>3 DEF ClientTakesRequest, Past, Skipping, Gone
  <2>2. NoAcks'
    <3>1. PICK n \in Nat \ {0} : /\ DOMAIN toClient = 1 .. n
                                 /\ DOMAIN toClient' = 1 .. n - 1
                                 /\ \A k \in 1 .. n - 1 : toClient'[k] = toClient[k + 1]
      BY <2>1, TailQueue DEF NetTypeOK
    <3>2. \A k \in 1 .. n - 1 : k + 1 \in 1 .. n /\ 1 < k + 1 /\ 1 \in 1 .. n
      OBVIOUS
    <3> QED
      BY <1>3, <3>1, <3>2, TakenAnswerable DEF InOrder, NoAcks
  <2>3. \A j, k \in DOMAIN toServer' :
          j < k /\ toServer'[j].type \in Response /\ toServer'[k].type = "TELEMETRY" => Past'
    BY <2>1 DEF InOrder
  <2> QED
    BY <1>1, <2>1, <2>2, <2>3 DEF InOrder
<1>4. ASSUME NEW packet \in Packet,
             toServer' = Append(toServer, packet),
             ~Answering',
             packet.type \in Response => NoAcks' /\ ~Past,
             packet.type = "TELEMETRY" => Past'
      PROVE  InOrder'
  <2>1. PICK n \in Nat : /\ DOMAIN toServer = 1 .. n
                         /\ DOMAIN toServer' = 1 .. n + 1
                         /\ \A k \in 1 .. n : toServer'[k] = toServer[k]
                         /\ toServer'[n + 1] = packet
    BY <1>4, ClientAppends
  <2>2. Answering' \/ (\E k \in DOMAIN toServer' : toServer'[k].type \in Response) => NoAcks'
    <3> SUFFICES ASSUME NEW k \in DOMAIN toServer', toServer'[k].type \in Response
                 PROVE  NoAcks'
      BY <1>4
    <3>1. CASE k = n + 1
      BY <1>4, <2>1, <3>1
    <3>2. CASE k \in 1 .. n
      BY <2>1, <3>2, ClientKeepsNoAcks DEF InOrder
    <3> QED
      BY <2>1, <3>1, <3>2
  <2>3. \A j, k \in DOMAIN toServer' :
          j < k /\ toServer'[j].type \in Response /\ toServer'[k].type = "TELEMETRY" => Past'
    <3> SUFFICES ASSUME NEW j \in DOMAIN toServer', NEW k \in DOMAIN toServer',
                        j < k, toServer'[j].type \in Response,
                        toServer'[k].type = "TELEMETRY"
                 PROVE  Past'
      OBVIOUS
    <3>1. j \in 1 .. n /\ toServer[j].type \in Response
      BY <2>1
    <3>2. CASE k = n + 1
      BY <1>4, <2>1, <3>2
    <3>3. CASE k \in 1 .. n
      BY <2>1, <3>1, <3>3, ClientStaysPast DEF InOrder
    <3> QED
      BY <2>1, <3>2, <3>3
  <2>4. \A i, j, k \in DOMAIN toServer' :
          /\ i < j /\ j < k
          /\ toServer'[i].type \in Response
          /\ toServer'[j].type = "TELEMETRY"
          => toServer'[k].type \notin Response
    <3> SUFFICES ASSUME NEW i \in DOMAIN toServer', NEW j \in DOMAIN toServer',
                        NEW k \in DOMAIN toServer', i < j, j < k,
                        toServer'[i].type \in Response, toServer'[j].type = "TELEMETRY"
                 PROVE  toServer'[k].type \notin Response
      OBVIOUS
    <3>1. /\ i \in 1 .. n /\ toServer[i].type \in Response
          /\ j \in 1 .. n /\ toServer[j].type = "TELEMETRY"
      BY <2>1
    <3>2. Past
      BY <2>1, <3>1 DEF InOrder
    <3>3. CASE k = n + 1
      BY <1>4, <2>1, <3>2, <3>3
    <3>4. CASE k \in 1 .. n
      BY <2>1, <3>1, <3>4 DEF InOrder
    <3> QED
      BY <2>1, <3>3, <3>4
  <2> QED
    BY <1>1, <2>2, <2>3, <2>4 DEF InOrder
<1>5. CASE ClientResponds
  <2>1. ~Past /\ Answering /\ ~Answering'
    BY <1>5 DEF ClientResponds, Past, Skipping, Gone, Answering, Receiving
  <2>2. PICK packet \in Packet : /\ toServer' = Append(toServer, packet)
                                 /\ packet.type # "TELEMETRY"
    BY <1>5 DEF ClientResponds
  <2>3. NoAcks'
    BY <2>1, ClientKeepsNoAcks DEF InOrder
  <2> QED
    BY <1>4, <2>1, <2>2, <2>3
<1>6. CASE ClientSendsOther
  <2>1. PICK packet \in Packet : /\ toServer' = Append(toServer, packet)
                                 /\ packet.type \notin Response
                                 /\ packet.type = "TELEMETRY" => Past'
    BY <1>6 DEF ClientSendsOther, Past
  <2>2. ~Answering'
    BY <1>6 DEF ClientSendsOther
  <2> QED
    BY <1>4, <2>1, <2>2
<1> QED
  BY <1>2, <1>3, <1>5, <1>6 DEF ClientStepKind

\* The answer to a request of the exchange is a response of the exchange.
LEMMA OwnAnswers ==
  ASSUME NEW arg, InExchange
  PROVE  /\ OwnRequest("COMMAND", arg) => OwnResponse("COMMAND_ACK", arg)
         /\ OwnRequest("DATA_REQUEST", arg) => OwnResponse("STATUS_RESPONSE", EngineStatus)
         /\ OwnRequest("LARGE_DATA_START", arg) => OwnResponse("STATUS_RESPONSE", TransferOk)
  BY DEF OwnRequest, OwnResponse, InExchange, CommandExchange, StatusExchange,
         TransferExchange

\* And so the client answers what it was asked in this exchange, and nothing else.
LEMMA ClientKeepsOnlyOwn ==
  ASSUME NetTypeOK, OnlyOwn, InExchange, ClientStepKind, UNCHANGED serverVars
  PROVE  OnlyOwn'
<1>a. /\ \A type, arg : OwnRequest(type, arg)' <=> OwnRequest(type, arg)
      /\ \A type, arg : OwnResponse(type, arg)' <=> OwnResponse(type, arg)
  BY DEF serverVars, exchangeVars, OwnRequest, OwnResponse, CommandExchange, StatusExchange,
         TransferExchange
<1>1. \A k \in DOMAIN toClient' :
        Answerable(k)' => OwnRequest(toClient'[k].type, toClient'[k].arg)
  BY AnswerableShifts DEF OnlyOwn
<1>2. /\ cPc' = "answerCommand" => OwnRequest("COMMAND", order')
      /\ cPc' = "answerRequest" => OwnRequest("DATA_REQUEST", NoPayload)
      /\ Receiving' => OwnRequest("LARGE_DATA_START", TotalChunks)
  <2>1. CASE ClientTakesRequest
    <3>1. OwnRequest(Head(toClient).type, Head(toClient).arg)
      BY <2>1, TakenAnswerable DEF OnlyOwn
    <3> QED
      BY <2>1, <3>1 DEF ClientTakesRequest, OwnRequest, Receiving
  <2>2. CASE ClientMoves \/ ClientTakesAck \/ ClientResponds \/ ClientSendsOther
    <3>1. /\ cPc' \notin {"answerCommand", "answerRequest"}
          /\ Receiving' => Receiving
      BY <2>2 DEF ClientMoves, ClientTakesAck, ClientResponds, ClientSendsOther, Answering,
                  Receiving
    <3> QED
      BY <3>1 DEF OnlyOwn
  <2> QED
    BY <2>1, <2>2 DEF ClientStepKind
<1>3. \A k \in DOMAIN toServer' :
        toServer'[k].type \in Response => OwnResponse(toServer'[k].type, toServer'[k].arg)
  <2>1. CASE UNCHANGED toServer
    BY <2>1 DEF OnlyOwn
  <2>2. ASSUME NEW packet \in Packet, toServer' = Append(toServer, packet),
               packet.type \in Response => OwnResponse(packet.type, packet.arg)
        PROVE  \A k \in DOMAIN toServer' : toServer'[k].type \in Response
                 => OwnResponse(toServer'[k].type, toServer'[k].arg)
    BY <2>2, ClientAppends DEF OnlyOwn
  <2>3. CASE ClientResponds
    <3>1. PICK packet \in Packet :
            /\ toServer' = Append(toServer, packet)
            /\ \/ /\ cPc = "answerCommand"
                  /\ packet.type = "COMMAND_ACK" /\ packet.arg = order
               \/ /\ cPc = "answerRequest"
                  /\ packet.type = "STATUS_RESPONSE" /\ packet.arg = EngineStatus
               \/ /\ cPc = "transferStatus"
                  /\ packet.type = "STATUS_RESPONSE" /\ packet.arg = TransferOk
      BY <2>3 DEF ClientResponds
    <3>2. OwnResponse(packet.type, packet.arg)
      BY <3>1, OwnAnswers DEF OnlyOwn, Receiving
    <3> QED
      BY <2>2, <3>1, <3>2
  <2>4. CASE ClientSendsOther
    <3>1. PICK packet \in Packet : /\ toServer' = Append(toServer, packet)
                                   /\ packet.type \notin Response
      BY <2>4 DEF ClientSendsOther
    <3> QED
      BY <2>2, <3>1
  <2> QED
    BY <2>1, <2>3, <2>4 DEF ClientStepKind, ClientMoves, ClientTakesAck, ClientTakesRequest
<1> QED
  BY <1>a, <1>1, <1>2, <1>3 DEF OnlyOwn

\* The client reports success once, when it has the payload, and never unlearns it.
LEMMA ClientKeepsReportTrue ==
  ASSUME SessionInv, TransferInv, ReportTrue, ClientStepKind
  PROVE  ReportTrue'
<1>a. NetTypeOK
  BY DEF SessionInv
<1>1. Receiving => ~largeTransferCompleted
  BY DEF TransferInv, BufferInv
<1>2. CASE UNCHANGED toServer /\ (UNCHANGED largeTransferCompleted \/ Receiving)
  BY <1>1, <1>2 DEF ReportTrue
<1>3. CASE ClientResponds
  <2>1. PICK packet \in Packet :
          /\ toServer' = Append(toServer, packet)
          /\ \/ packet.type # "STATUS_RESPONSE" /\ UNCHANGED largeTransferCompleted
             \/ packet.arg = EngineStatus /\ UNCHANGED largeTransferCompleted
             \/ largeTransferCompleted'
    BY <1>3 DEF ClientResponds
  <2> QED
    BY <1>a, <2>1, ClientAppends DEF ReportTrue, EngineStatus, TransferOk
<1>4. CASE ClientSendsOther
  <2>1. PICK packet \in Packet : /\ toServer' = Append(toServer, packet)
                                 /\ packet.type # "STATUS_RESPONSE"
    BY <1>4 DEF ClientSendsOther, Response
  <2>2. UNCHANGED largeTransferCompleted
    BY <1>4 DEF ClientSendsOther
  <2> QED
    BY <1>a, <2>1, <2>2, ClientAppends DEF ReportTrue
<1> QED
  BY <1>2, <1>3, <1>4
     DEF ClientStepKind, ClientMoves, ClientTakesAck, ClientTakesRequest

(***************************************************************************)
(* What a step of the server may do.                                       *)
(***************************************************************************)
\* What a receive leaves of the queue towards the server.
ServerTakes == UNCHANGED toServer \/ (toServer # <<>> /\ toServer' = Tail(toServer))

\* The same exchange goes on.
SameExchange == /\ InExchange
                /\ CommandExchange'  = CommandExchange
                /\ StatusExchange'   = StatusExchange
                /\ TransferExchange' = TransferExchange
                /\ UNCHANGED command

\* Out of the session, or on the way out.
ServerLeaves ==
  /\ sPc' \in {"reject", "disconnectAck", "closing", "done"}
  /\ ServerTakes

ServerPrepares ==
  /\ sPc \in {"startup", "accept", "verify"}
  /\ sPc' \in {"accept", "verify", "connectAck"}
  /\ UNCHANGED toClient
  /\ ServerTakes

\* An acknowledgement, after which the session loop or an exchange begins.
ServerAcknowledges ==
  /\ sPc \in {"connectAck", "telemetryAck"}
  /\ ~BeforeExchange'
  /\ UNCHANGED toServer
  /\ \E packet \in Packet : /\ toClient' = Append(toClient, packet)
                            /\ packet.type \notin Request

ServerCounts ==
  /\ sPc = "active" /\ sPc' = "telemetryAck"
  /\ UNCHANGED toClient
  /\ toServer # <<>> /\ toServer' = Tail(toServer)
  /\ Head(toServer).type = "TELEMETRY"

\* A request of the exchange, a chunk or the end of the payload.
ServerAsks ==
  /\ SameExchange
  /\ UNCHANGED toServer
  /\ \E packet \in Packet : /\ toClient' = Append(toClient, packet)
                            /\ packet.type # "TELEMETRY_ACK"
                            /\ packet.type \in Request => OwnRequest(packet.type, packet.arg)

ServerWaits ==
  /\ SameExchange
  /\ UNCHANGED toClient
  /\ ServerTakes

\* A response ends the exchange, or opens the transfer.
ServerTakesResponse ==
  /\ InExchange
  /\ UNCHANGED <<toClient, command>>
  /\ toServer # <<>> /\ toServer' = Tail(toServer)
  /\ Head(toServer).type \in Response
  /\ sPc' = "active" \/ (CommandExchange /\ sPc' = "beginTransfer")

ServerStepKind == ServerLeaves \/ ServerPrepares \/ ServerAcknowledges \/ ServerCounts
                    \/ ServerAsks \/ ServerWaits \/ ServerTakesResponse

\* These are the steps of the server.
LEMMA ServerExchangeStep ==
  ASSUME SessionInv, ServerNext
  PROVE  ServerStepKind
<1> USE DEF ServerStepKind, ServerTakes, ServerGoto, GiveUp, NextSend, NextReceive, netVars,
            exchangeVars, loopVars, ServerReceives, ServerReceivesNothing, ServerGets,
            ServerMisses, ServerSendFails, serverIncoming
<1> USE DEF CommandExchange, StatusExchange, TransferExchange, InExchange
<1>a. responseSequence \in Nat /\ command \in Nat /\ chunkIndex \in Nat
  BY DEF SessionInv, ServerTypeOK, Command, AdjustHeading, InitiateTransfer
<1>b. ASSUME NEW type \in MessageType, NEW arg \in Nat,
             ServerSends(makePacket(type, responseSequence, arg))
      PROVE  /\ UNCHANGED toServer
             /\ \E packet \in Packet : /\ toClient' = Append(toClient, packet)
                                       /\ packet.type = type
                                       /\ packet.arg = arg
  <2> DEFINE packet == makePacket(type, responseSequence, arg)
  <2>1. packet \in Packet /\ packet.type = type /\ packet.arg = arg
    BY <1>a, PacketType DEF makePacket
  <2> QED
    BY <1>b, <2>1 DEF ServerSends
<1>1. CASE Listen \/ Accept \/ Verify
  <2>1. ServerPrepares \/ ServerLeaves
    BY <1>1 DEF Listen, Accept, Verify, ServerListens, ServerAccepts, ServerPrepares,
                ServerLeaves
  <2> QED BY <2>1
<1>2. CASE ListenFails \/ AcceptFails \/ VerifyFails \/ ActiveReceiveFails
           \/ ReceiveUnexpected \/ ReceiveDisconnect \/ TelemetryAckFails \/ Shutdown
           \/ TransferSendFails
  <2>1. ServerLeaves
    BY <1>2 DEF ListenFails, AcceptFails, VerifyFails, ActiveReceiveFails,
                ReceiveUnexpected, ReceiveDisconnect, TelemetryAckFails, Shutdown,
                TransferSendFails, ServerCloses, ServerBulkSendFails, ServerLeaves
  <2> QED BY <2>1
<1>3. CASE Reject \/ SendDisconnectAck
  <2>1. ServerLeaves
    BY <1>3 DEF Reject, SendDisconnectAck, ServerSends, ServerLeaves
  <2> QED BY <2>1
<1>4. CASE SendConnectAck
  <2>1. CASE ServerSendFails
    <3>1. ServerLeaves
      BY <1>4, <2>1 DEF SendConnectAck, ServerSends, ServerLeaves
    <3> QED BY <3>1
  <2>2. CASE ServerSends(makePacket("CONNECT_ACK", responseSequence, NoPayload))
    <3>1. sPc = "connectAck" /\ sPc' = "active"
      BY <1>4, <2>2 DEF SendConnectAck, ServerSends
    <3>2. ServerAcknowledges
      BY <3>1, <2>2, <1>b DEF ServerAcknowledges, BeforeExchange, MessageType, NoPayload, Request
    <3> QED BY <3>2
  <2> QED BY <1>4, <2>1, <2>2 DEF SendConnectAck
<1>5. CASE ReceiveTelemetry
  <2>1. ServerCounts
    BY <1>5 DEF ReceiveTelemetry, ServerCounts, Ends
  <2> QED BY <2>1
<1>6. CASE SendTelemetryAck
  <2>1. /\ sPc = "telemetryAck"
        /\ sPc' \in {"sendCommand", "sendRequest", "active"}
        /\ ServerSends(makePacket("TELEMETRY_ACK", responseSequence, NoPayload))
    BY <1>6 DEF SendTelemetryAck
  <2>2. ServerAcknowledges
    BY <2>1, <1>b DEF ServerAcknowledges, BeforeExchange, MessageType, NoPayload, Request
  <2> QED BY <2>2
<1>7. CASE SendCommand
  <2>1. CASE ServerSendFails
    <3>1. ServerWaits \/ ServerLeaves
      BY <1>7, <2>1 DEF SendCommand, ServerSends, ServerWaits, SameExchange, ServerLeaves
    <3> QED BY <3>1
  <2>2. CASE ServerSends(makePacket("COMMAND", responseSequence, command))
    <3>1. sPc = "sendCommand" /\ sPc' = "commandAck" /\ UNCHANGED command
      BY <1>7, <2>2 DEF SendCommand, ServerSends
    <3>2. ServerAsks
      BY <3>1, <1>a, <2>2, <1>b DEF ServerAsks, SameExchange, MessageType, OwnRequest
    <3> QED BY <3>2
  <2> QED BY <1>7, <2>1, <2>2 DEF SendCommand
<1>8. CASE SendRequest
  <2>1. CASE ServerSendFails
    <3>1. ServerWaits \/ ServerLeaves
      BY <1>8, <2>1 DEF SendRequest, ServerSends, ServerWaits, SameExchange, ServerLeaves
    <3> QED BY <3>1
  <2>2. CASE ServerSends(makePacket("DATA_REQUEST", responseSequence, NoPayload))
    <3>1. sPc = "sendRequest" /\ sPc' = "statusResponse" /\ UNCHANGED command
      BY <1>8, <2>2 DEF SendRequest, ServerSends
    <3>2. ServerAsks
      BY <3>1, <2>2, <1>b DEF ServerAsks, SameExchange, MessageType, NoPayload, OwnRequest
    <3> QED BY <3>2
  <2> QED BY <1>8, <2>1, <2>2 DEF SendRequest
<1>9. CASE ReceiveCommandAck \/ ReceiveStatus \/ ReceiveTransferStatus
  <2>1. ServerTakesResponse
    BY <1>9 DEF ReceiveCommandAck, ReceiveStatus, ReceiveTransferStatus,
                ServerTakesResponse, Response, Ends
  <2> QED BY <2>1
<1>10. CASE MissCommandAck \/ MissStatus \/ MissTransferStatus
  <2>1. ServerWaits \/ ServerLeaves
    BY <1>10 DEF MissCommandAck, MissStatus, MissTransferStatus, ServerWaits, SameExchange,
                 ServerLeaves, Ends
  <2> QED BY <2>1
<1>11. CASE BeginTransfer
  <2>1. ServerWaits
    BY <1>11 DEF BeginTransfer, ServerWaits, SameExchange
  <2> QED BY <2>1
<1>12. CASE SendStart
  <2>1. /\ sPc = "sendStart" /\ sPc' = "sendChunk" /\ UNCHANGED command
        /\ ServerSends(makePacket("LARGE_DATA_START", responseSequence, TotalChunks))
    BY <1>12 DEF SendStart
  <2>2. ServerAsks
    BY <2>1, <1>b, TotalChunksNat DEF ServerAsks, SameExchange, MessageType, OwnRequest
  <2> QED BY <2>2
<1>13. CASE SendChunk
  <2>1. /\ sPc = "sendChunk" /\ sPc' \in {"sendChunk", "sendEnd"} /\ UNCHANGED command
        /\ ServerSends(makePacket("LARGE_DATA_CHUNK", responseSequence, chunkIndex))
    BY <1>13 DEF SendChunk, ServerSendsBulk
  <2>2. ServerAsks
    BY <2>1, <1>a, <1>b DEF ServerAsks, SameExchange, MessageType, Request
  <2> QED BY <2>2
<1>14. CASE SendEnd
  <2>1. /\ sPc = "sendEnd" /\ sPc' = "transferStatus" /\ UNCHANGED command
        /\ ServerSends(makePacket("LARGE_DATA_END", responseSequence, NoPayload))
    BY <1>14 DEF SendEnd, ServerSendsBulk
  <2>2. ServerAsks
    BY <2>1, <1>b DEF ServerAsks, SameExchange, MessageType, NoPayload, Request
  <2> QED BY <2>2
<1> QED
  BY <1>1, <1>2, <1>3, <1>4, <1>5, <1>6, <1>7, <1>8, <1>9, <1>10, <1>11, <1>12, <1>13, <1>14
     DEF ServerNext

(***************************************************************************)
(* The server asks only when nothing is pending.                           *)
(***************************************************************************)
\* The server puts nothing into its own queue.
LEMMA ServerOnlyTakes ==
  ASSUME SessionInv, ServerNext
  PROVE  ServerTakes
  BY ServerExchangeStep
     DEF ServerStepKind, ServerLeaves, ServerPrepares, ServerAcknowledges, ServerCounts,
         ServerAsks, ServerWaits, ServerTakesResponse, ServerTakes

\* The packets towards the server after it has received, or has not.
LEMMA ServerTakesQueue ==
  ASSUME NetTypeOK, ServerTakes
  PROVE  \E s \in {0, 1} : \A k \in DOMAIN toServer' : /\ k \in Nat
                                                       /\ k + s \in DOMAIN toServer
                                                       /\ toServer'[k] = toServer[k + s]
<1>a. toServer \in Seq(Packet)
  BY DEF NetTypeOK
<1>1. CASE UNCHANGED toServer
  <2>1. \A k \in DOMAIN toServer' : k \in Nat /\ k + 0 = k
    BY <1>a, <1>1, LenProperties
  <2> QED
    BY <1>1, <2>1
<1>2. CASE toServer # <<>> /\ toServer' = Tail(toServer)
  <2>1. PICK n \in Nat \ {0} : /\ DOMAIN toServer = 1 .. n
                               /\ DOMAIN toServer' = 1 .. n - 1
                               /\ \A k \in 1 .. n - 1 : toServer'[k] = toServer[k + 1]
    BY <1>a, <1>2, TailQueue
  <2> QED
    BY <2>1
<1> QED
  BY <1>1, <1>2 DEF ServerTakes

\* The client is where it was.
LEMMA ClientStands ==
  ASSUME UNCHANGED clientVars
  PROVE  /\ Skipping' = Skipping /\ Gone' = Gone /\ Past' = Past
         /\ Receiving' = Receiving /\ Answering' = Answering
         /\ UNCHANGED <<cPc, order, largeTransferCompleted>>
  BY DEF clientVars, transferVars, Skipping, Gone, Past, Receiving, Answering

\* A packet sent to the client makes no other packet answerable.
LEMMA ServerAppends ==
  ASSUME NetTypeOK, UNCHANGED clientVars, NEW packet \in Packet,
         toClient' = Append(toClient, packet)
  PROVE  \E n \in Nat : /\ DOMAIN toClient = 1 .. n
                        /\ DOMAIN toClient' = 1 .. n + 1
                        /\ \A k \in 1 .. n : /\ toClient'[k] = toClient[k]
                                             /\ Answerable(k)' => Answerable(k)
                        /\ toClient'[n + 1] = packet
                        /\ Answerable(n + 1)' => packet.type \in Request
<1>1. PICK n \in Nat : /\ DOMAIN toClient = 1 .. n
                       /\ DOMAIN toClient' = 1 .. n + 1
                       /\ \A k \in 1 .. n : toClient'[k] = toClient[k]
                       /\ toClient'[n + 1] = packet
  BY AppendedQueue DEF NetTypeOK
<1>2. ASSUME NEW k \in 1 .. n, Answerable(k)'
      PROVE  Answerable(k)
  <2>1. toClient[k].type \in Request /\ ~Gone
    BY <1>1, <1>2, ClientStands DEF Answerable
  <2>2. ASSUME Skipping
        PROVE  \E j \in DOMAIN toClient : j < k /\ toClient[j].type = "TELEMETRY_ACK"
    <3>1. PICK j \in DOMAIN toClient' : j < k /\ toClient'[j].type = "TELEMETRY_ACK"
      BY <1>2, <2>2, ClientStands DEF Answerable
    <3>2. j \in 1 .. n
      BY <1>1, <3>1
    <3> QED
      BY <1>1, <3>1, <3>2
  <2> QED
    BY <2>1, <2>2 DEF Answerable
<1>3. Answerable(n + 1)' => packet.type \in Request
  BY <1>1 DEF Answerable
<1> QED
  BY <1>1, <1>2, <1>3

\* The same for no packet at all.
LEMMA ClientQueueStands ==
  ASSUME UNCHANGED clientVars, UNCHANGED toClient
  PROVE  \A k : Answerable(k)' <=> Answerable(k)
  BY ClientStands DEF Answerable

\* What is pending is not made more by receiving it.
LEMMA ServerKeepsNothingPending ==
  ASSUME NetTypeOK, NothingPending, UNCHANGED clientVars, UNCHANGED toClient, ServerTakes
  PROVE  NothingPending'
<1>1. \A k \in DOMAIN toServer' : toServer'[k].type \notin Response
  BY ServerTakesQueue DEF NothingPending
<1> QED
  BY <1>1, ClientStands, ClientQueueStands DEF NothingPending

\* With nothing pending every other condition holds.
LEMMA NothingPendingSuffices ==
  ASSUME NothingPending
  PROVE  InOrder /\ OnlyOwn
  BY DEF NothingPending, InOrder, OnlyOwn, Answering

\* A sample at the head of the queue has no leftovers behind it.
LEMMA SampleEndsLeftovers ==
  ASSUME NetTypeOK, NothingPending \/ Leftovers, UNCHANGED clientVars, UNCHANGED toClient,
         toServer # <<>>, toServer' = Tail(toServer), Head(toServer).type = "TELEMETRY"
  PROVE  NothingPending'
<1>1. CASE NothingPending
  BY <1>1, ServerKeepsNothingPending DEF ServerTakes
<1>2. CASE Leftovers
  <2>1. PICK n \in Nat \ {0} : /\ DOMAIN toServer = 1 .. n
                               /\ Head(toServer) = toServer[1]
                               /\ DOMAIN toServer' = 1 .. n - 1
                               /\ \A k \in 1 .. n - 1 : toServer'[k] = toServer[k + 1]
    BY TailQueue DEF NetTypeOK
  <2>2. \A k \in 1 .. n - 1 : k + 1 \in 1 .. n /\ 1 < k + 1 /\ 1 \in 1 .. n
    OBVIOUS
  <2>3. \A k \in DOMAIN toServer' : toServer'[k].type \notin Response
    BY <1>2, <2>1, <2>2 DEF Leftovers
  <2>4. Past
    BY <1>2, <2>1 DEF Leftovers
  <2>5. ~Answering
    BY <2>4 DEF Past, Skipping, Gone, Answering, Receiving
  <2>6. \A k \in DOMAIN toClient : ~Answerable(k)
    BY <1>2, <2>4 DEF Leftovers, NoAcks, Answerable, Past
  <2> QED
    BY <2>3, <2>5, <2>6, ClientStands, ClientQueueStands DEF NothingPending
<1> QED
  BY <1>1, <1>2

\* After the response that ends an exchange, others are only in front of the next
\* sample.
LEMMA ResponseLeavesLeftovers ==
  ASSUME NetTypeOK, InOrder, UNCHANGED clientVars, UNCHANGED toClient,
         toServer # <<>>, toServer' = Tail(toServer), Head(toServer).type \in Response
  PROVE  Leftovers'
<1>1. PICK n \in Nat \ {0} : /\ DOMAIN toServer = 1 .. n
                             /\ Head(toServer) = toServer[1]
                             /\ DOMAIN toServer' = 1 .. n - 1
                             /\ \A k \in 1 .. n - 1 : toServer'[k] = toServer[k + 1]
  BY TailQueue DEF NetTypeOK
<1>2. \A k \in 1 .. n - 1 : k + 1 \in 1 .. n /\ 1 < k + 1 /\ 1 \in 1 .. n
  OBVIOUS
<1>3. NoAcks'
  BY <1>1 DEF InOrder, NoAcks
<1>4. \A j, k \in DOMAIN toServer' :
        j < k /\ toServer'[j].type = "TELEMETRY" => toServer'[k].type \notin Response
  <2> SUFFICES ASSUME NEW j \in 1 .. n - 1, NEW k \in 1 .. n - 1, j < k,
                      toServer'[j].type = "TELEMETRY"
               PROVE  toServer'[k].type \notin Response
    BY <1>1
  <2>1. /\ 1 \in 1 .. n /\ j + 1 \in 1 .. n /\ k + 1 \in 1 .. n
        /\ 1 < j + 1 /\ j + 1 < k + 1
    OBVIOUS
  <2> QED
    BY <1>1, <2>1 DEF InOrder
<1>5. (\E k \in DOMAIN toServer' : toServer'[k].type = "TELEMETRY") => Past'
  BY <1>1, <1>2, ClientStands DEF InOrder
<1> QED
  BY <1>3, <1>4, <1>5 DEF Leftovers

\* Receiving what does not end the exchange leaves the rest in order.
LEMMA ServerWaitsInOrder ==
  ASSUME NetTypeOK, InOrder, OnlyOwn, UNCHANGED clientVars, UNCHANGED toClient, ServerTakes
  PROVE  /\ InOrder'
         /\ \A k \in DOMAIN toServer' :
              toServer'[k].type \in Response => OwnResponse(toServer'[k].type, toServer'[k].arg)
<1>1. PICK s \in {0, 1} : \A k \in DOMAIN toServer' : /\ k \in Nat
                                                      /\ k + s \in DOMAIN toServer
                                                      /\ toServer'[k] = toServer[k + s]
  BY ServerTakesQueue
<1>2. \A j, k \in DOMAIN toServer' : j < k => j + s < k + s
  BY <1>1
<1>3. \A j, k \in DOMAIN toClient' :
        j < k /\ Answerable(j)' => toClient'[k].type # "TELEMETRY_ACK"
  BY ClientQueueStands DEF InOrder
<1>4. \A j, k \in DOMAIN toServer' :
        j < k /\ toServer'[j].type \in Response /\ toServer'[k].type = "TELEMETRY" => Past'
  BY <1>1, <1>2, ClientStands DEF InOrder
<1>5. \A i, j, k \in DOMAIN toServer' :
        /\ i < j /\ j < k
        /\ toServer'[i].type \in Response
        /\ toServer'[j].type = "TELEMETRY"
        => toServer'[k].type \notin Response
  <2> SUFFICES ASSUME NEW i \in DOMAIN toServer', NEW j \in DOMAIN toServer',
                      NEW k \in DOMAIN toServer', i < j, j < k,
                      toServer'[i].type \in Response, toServer'[j].type = "TELEMETRY"
               PROVE  toServer'[k].type \notin Response
    OBVIOUS
  <2>1. i + s < j + s /\ j + s < k + s
    BY <1>2
  <2> QED
    BY <1>1, <2>1 DEF InOrder
<1>6. Answering' \/ (\E k \in DOMAIN toServer' : toServer'[k].type \in Response) => NoAcks'
  BY <1>1, ClientStands DEF InOrder, NoAcks
<1>7. \A k \in DOMAIN toServer' :
        toServer'[k].type \in Response => OwnResponse(toServer'[k].type, toServer'[k].arg)
  BY <1>1 DEF OnlyOwn
<1> QED
  BY <1>3, <1>4, <1>5, <1>6, <1>7 DEF InOrder

\* Whatever belonged to the exchange still does as long as it goes on.
LEMMA SameExchangeOwn ==
  ASSUME SameExchange
  PROVE  /\ \A type, arg : OwnRequest(type, arg)' <=> OwnRequest(type, arg)
         /\ \A type, arg : OwnResponse(type, arg)' <=> OwnResponse(type, arg)
  BY DEF SameExchange, OwnRequest, OwnResponse

\* A wait within an exchange.
LEMMA ServerWaitsStep ==
  ASSUME NetTypeOK, InOrder, OnlyOwn, UNCHANGED clientVars, ServerWaits
  PROVE  InOrder' /\ OnlyOwn'
<1>1. UNCHANGED toClient /\ ServerTakes /\ SameExchange
  BY DEF ServerWaits
<1>2. /\ InOrder'
      /\ \A k \in DOMAIN toServer' :
           toServer'[k].type \in Response => OwnResponse(toServer'[k].type, toServer'[k].arg)
  BY <1>1, ServerWaitsInOrder
<1>3. \A k \in DOMAIN toClient' :
        Answerable(k)' => OwnRequest(toClient'[k].type, toClient'[k].arg)
  BY <1>1, ClientQueueStands DEF OnlyOwn
<1>4. /\ cPc' = "answerCommand" => OwnRequest("COMMAND", order')
      /\ cPc' = "answerRequest" => OwnRequest("DATA_REQUEST", NoPayload)
      /\ Receiving'             => OwnRequest("LARGE_DATA_START", TotalChunks)
  BY ClientStands DEF OnlyOwn
<1> QED
  BY <1>1, <1>2, <1>3, <1>4, SameExchangeOwn DEF OnlyOwn

\* A packet of the exchange goes behind everything sent before.
LEMMA ServerAsksStep ==
  ASSUME NetTypeOK, InOrder, OnlyOwn, UNCHANGED clientVars, ServerAsks
  PROVE  InOrder' /\ OnlyOwn'
<1>1. SameExchange /\ UNCHANGED toServer
  BY DEF ServerAsks
<1>2. PICK packet \in Packet :
        /\ toClient' = Append(toClient, packet)
        /\ packet.type # "TELEMETRY_ACK"
        /\ packet.type \in Request => OwnRequest(packet.type, packet.arg)
  BY DEF ServerAsks
<1>3. PICK n \in Nat : /\ DOMAIN toClient = 1 .. n
                       /\ DOMAIN toClient' = 1 .. n + 1
                       /\ \A k \in 1 .. n : /\ toClient'[k] = toClient[k]
                                            /\ Answerable(k)' => Answerable(k)
                       /\ toClient'[n + 1] = packet
                       /\ Answerable(n + 1)' => packet.type \in Request
  BY <1>2, ServerAppends
<1>4. \A k \in DOMAIN toClient' :
        Answerable(k)' => OwnRequest(toClient'[k].type, toClient'[k].arg)
  <2> SUFFICES ASSUME NEW k \in 1 .. n + 1, Answerable(k)'
               PROVE  OwnRequest(toClient'[k].type, toClient'[k].arg)
    BY <1>3
  <2>1. CASE k = n + 1
    BY <1>2, <1>3, <2>1
  <2>2. CASE k \in 1 .. n
    BY <1>3, <2>2 DEF OnlyOwn
  <2> QED
    BY <2>1, <2>2
<1>5. /\ cPc' = "answerCommand" => OwnRequest("COMMAND", order')
      /\ cPc' = "answerRequest" => OwnRequest("DATA_REQUEST", NoPayload)
      /\ Receiving'             => OwnRequest("LARGE_DATA_START", TotalChunks)
  BY ClientStands DEF OnlyOwn
<1>6. \A k \in DOMAIN toServer' :
        toServer'[k].type \in Response => OwnResponse(toServer'[k].type, toServer'[k].arg)
  BY <1>1 DEF OnlyOwn
<1>7. OnlyOwn'
  BY <1>1, <1>4, <1>5, <1>6, SameExchangeOwn DEF OnlyOwn
<1>8. NoAcks => NoAcks'
  BY <1>2, <1>3 DEF NoAcks
<1>9. \A j, k \in DOMAIN toClient' :
        j < k /\ Answerable(j)' => toClient'[k].type # "TELEMETRY_ACK"
  <2> SUFFICES ASSUME NEW j \in 1 .. n + 1, NEW k \in 1 .. n + 1, j < k, Answerable(j)'
               PROVE  toClient'[k].type # "TELEMETRY_ACK"
    BY <1>3
  <2>1. j \in 1 .. n /\ Answerable(j)
    BY <1>3
  <2>2. CASE k = n + 1
    BY <1>2, <1>3, <2>2
  <2>3. CASE k \in 1 .. n
    BY <1>3, <2>1, <2>3 DEF InOrder
  <2> QED
    BY <2>2, <2>3
<1>10. InOrder'
  BY <1>1, <1>8, <1>9, ClientStands DEF InOrder
<1> QED
  BY <1>7, <1>10

\* Every step of the server keeps the exchanges apart.
LEMMA ServerKeepsExchange ==
  ASSUME SessionInv, ExchangeInv, ServerNext, UNCHANGED clientVars
  PROVE  ExchangeInv'
<1> USE DEF BeforeExchange, InExchange, CommandExchange, StatusExchange, TransferExchange
<1>a. NetTypeOK
  BY DEF SessionInv
<1>b. ReportTrue'
  BY <1>a, ServerOnlyTakes, ServerTakesQueue, ClientStands DEF ExchangeInv, ReportTrue
<1>1. CASE ServerLeaves
  BY <1>1, <1>b DEF ServerLeaves, ExchangeInv
<1>2. CASE ServerPrepares
  <2>1. NothingPending'
    BY <1>a, <1>2, ServerKeepsNothingPending DEF ServerPrepares, ExchangeInv
  <2> QED
    BY <1>b, <1>2, <2>1 DEF ServerPrepares, ExchangeInv
<1>3. CASE ServerAcknowledges
  <2>1. NothingPending
    BY <1>3 DEF ServerAcknowledges, ExchangeInv
  <2>2. PICK packet \in Packet : toClient' = Append(toClient, packet) /\ packet.type \notin Request
    BY <1>3 DEF ServerAcknowledges
  <2>3. PICK n \in Nat : /\ DOMAIN toClient = 1 .. n
                         /\ DOMAIN toClient' = 1 .. n + 1
                         /\ \A k \in 1 .. n : Answerable(k)' => Answerable(k)
                         /\ Answerable(n + 1)' => packet.type \in Request
    BY <1>a, <2>2, ServerAppends
  <2>4. \A k \in DOMAIN toClient' : k = n + 1 \/ k \in DOMAIN toClient
    BY <2>3
  <2>5. NothingPending'
    BY <1>3, <2>1, <2>2, <2>3, <2>4, ClientStands DEF ServerAcknowledges, NothingPending
  <2>6. InOrder' /\ OnlyOwn'
    BY <2>5, NothingPendingSuffices, PTL
  <2> QED
    BY <1>b, <2>5, <2>6 DEF ExchangeInv
<1>4. CASE ServerCounts
  <2>1. NothingPending \/ Leftovers
    BY <1>4 DEF ServerCounts, ExchangeInv
  <2>2. NothingPending'
    BY <1>a, <1>4, <2>1, SampleEndsLeftovers DEF ServerCounts
  <2> QED
    BY <1>b, <1>4, <2>2 DEF ServerCounts, ExchangeInv
<1>5. CASE ServerAsks
  <2>1. InOrder' /\ OnlyOwn'
    BY <1>a, <1>5, ServerAsksStep DEF ServerAsks, SameExchange, ExchangeInv
  <2>2. InExchange'
    BY <1>5 DEF ServerAsks, SameExchange
  <2> QED
    BY <1>b, <2>1, <2>2 DEF ExchangeInv
<1>6. CASE ServerWaits
  <2>1. InOrder' /\ OnlyOwn'
    BY <1>a, <1>6, ServerWaitsStep DEF ServerWaits, SameExchange, ExchangeInv
  <2>2. InExchange'
    BY <1>6 DEF ServerWaits, SameExchange
  <2> QED
    BY <1>b, <2>1, <2>2 DEF ExchangeInv
<1>7. CASE ServerTakesResponse
  <2>1. InOrder /\ OnlyOwn
    BY <1>7 DEF ServerTakesResponse, ExchangeInv
  <2>2. /\ UNCHANGED <<toClient, command>>
        /\ toServer # <<>> /\ toServer' = Tail(toServer)
        /\ Head(toServer).type \in Response
    BY <1>7 DEF ServerTakesResponse
  <2>3. CASE sPc' = "active"
    <3>1. Leftovers'
      BY <1>a, <2>1, <2>2, ResponseLeavesLeftovers
    <3> QED
      BY <1>b, <2>3, <3>1 DEF ExchangeInv
  <2>4. CASE CommandExchange /\ sPc' = "beginTransfer"
    <3>1. /\ \A type, arg : OwnRequest(type, arg) => OwnRequest(type, arg)'
          /\ \A type, arg : OwnResponse(type, arg) => OwnResponse(type, arg)'
      BY <2>4 DEF OwnRequest, OwnResponse
    <3>2. /\ InOrder'
          /\ \A k \in DOMAIN toServer' : toServer'[k].type \in Response =>
               OwnResponse(toServer'[k].type, toServer'[k].arg)
      BY <1>a, <2>1, <2>2, ServerWaitsInOrder DEF ServerTakes
    <3>3. \A k \in DOMAIN toClient' :
            Answerable(k)' => OwnRequest(toClient'[k].type, toClient'[k].arg)
      BY <2>1, <2>2, ClientQueueStands DEF OnlyOwn
    <3>4. /\ cPc' = "answerCommand" => OwnRequest("COMMAND", order')
          /\ cPc' = "answerRequest" => OwnRequest("DATA_REQUEST", NoPayload)
          /\ Receiving'             => OwnRequest("LARGE_DATA_START", TotalChunks)
      BY <2>1, ClientStands DEF OnlyOwn
    <3>5. OnlyOwn'
      BY <3>1, <3>2, <3>3, <3>4 DEF OnlyOwn
    <3> QED
      BY <1>b, <2>4, <3>2, <3>5 DEF ExchangeInv
  <2> QED
    BY <1>7, <2>3, <2>4 DEF ServerTakesResponse
<1> QED
  BY <1>1, <1>2, <1>3, <1>4, <1>5, <1>6, <1>7, ServerExchangeStep DEF ServerStepKind

\* So does every step of the client.
LEMMA ClientKeepsExchange ==
  ASSUME SessionInv, TransferInv, ExchangeInv, ClientNext, UNCHANGED serverVars
  PROVE  ExchangeInv'
<1>a. ClientStepKind /\ NetTypeOK
  BY ClientExchangeStep DEF ClientStepKind, SessionInv
<1>b. /\ BeforeExchange' = BeforeExchange
      /\ InExchange' = InExchange
      /\ UNCHANGED sPc
  BY DEF serverVars, BeforeExchange, InExchange, CommandExchange, StatusExchange,
         TransferExchange
<1>1. ReportTrue'
  BY <1>a, ClientKeepsReportTrue DEF ExchangeInv
<1>2. BeforeExchange => NothingPending'
  BY <1>a, ClientKeepsNothingPending DEF ExchangeInv
<1>3. sPc = "active" => NothingPending' \/ Leftovers'
  BY <1>a, ClientKeepsNothingPending, ClientKeepsLeftovers DEF ExchangeInv
<1>4. InExchange => InOrder' /\ OnlyOwn'
  BY <1>a, ClientKeepsInOrder, ClientKeepsOnlyOwn DEF ExchangeInv
<1> QED
  BY <1>b, <1>1, <1>2, <1>3, <1>4 DEF ExchangeInv

\* And a reset, which empties both directions.
LEMMA LinkKeepsExchange ==
  ASSUME SessionInv, ExchangeInv, UNCHANGED serverVars, UNCHANGED clientVars,
         ConnectionReset \/ UNCHANGED netVars
  PROVE  ExchangeInv'
<1>a. /\ BeforeExchange' = BeforeExchange
      /\ InExchange' = InExchange
      /\ UNCHANGED sPc
      /\ \A type, arg : OwnRequest(type, arg)' <=> OwnRequest(type, arg)
      /\ \A type, arg : OwnResponse(type, arg)' <=> OwnResponse(type, arg)
  BY DEF serverVars, exchangeVars, BeforeExchange, InExchange, CommandExchange,
         StatusExchange, TransferExchange, OwnRequest, OwnResponse
<1>1. CASE ConnectionReset
  <2>1. DOMAIN toServer' = {} /\ DOMAIN toClient' = {}
    BY <1>1 DEF ConnectionReset
  <2>2. NothingPending => NothingPending'
    BY <2>1, ClientStands DEF NothingPending
  <2>3. Leftovers' /\ ReportTrue'
    BY <2>1 DEF Leftovers, NoAcks, ReportTrue
  <2>4. InOrder' /\ (OnlyOwn => OnlyOwn')
    BY <1>a, <2>1, ClientStands DEF InOrder, NoAcks, OnlyOwn
  <2> QED
    BY <1>a, <2>2, <2>3, <2>4 DEF ExchangeInv
<1>2. CASE UNCHANGED netVars
  <2>1. UNCHANGED <<toServer, toClient>>
    BY <1>2 DEF netVars
  <2>2. \A k : Answerable(k)' <=> Answerable(k)
    BY <2>1, ClientQueueStands
  <2>3. /\ NothingPending => NothingPending'
        /\ Leftovers => Leftovers'
        /\ ReportTrue => ReportTrue'
        /\ InOrder => InOrder'
    BY <2>1, <2>2, ClientStands DEF NothingPending, Leftovers, NoAcks, ReportTrue, InOrder
  <2>4. OnlyOwn => OnlyOwn'
    BY <1>a, <2>1, <2>2, ClientStands DEF OnlyOwn
  <2> QED
    BY <1>a, <2>3, <2>4 DEF ExchangeInv
<1> QED
  BY <1>1, <1>2

(***************************************************************************)
(* The session.                                                            *)
(***************************************************************************)
\* What the session has kept of all this since its beginning.
FullInv == SessionInv /\ TransferInv /\ ExchangeInv

\* A session begins with nothing pending.
LEMMA FullInvInit == Init => FullInv
<1> SUFFICES ASSUME Init
             PROVE  FullInv
  OBVIOUS
<1>1. DOMAIN toServer = {} /\ DOMAIN toClient = {}
  BY DEF Init, NetInit
<1>2. NothingPending /\ ReportTrue
  BY <1>1 DEF Init, ClientInit, NothingPending, ReportTrue, Answering, Receiving
<1>3. sPc = "startup"
  BY DEF Init, ServerInit
<1>4. ExchangeInv
  BY <1>2, <1>3 DEF ExchangeInv, InExchange, CommandExchange, StatusExchange,
                    TransferExchange
<1> QED
  BY <1>4, SessionInvInit, TransferInvInit DEF FullInv

\* FullInv is inductive.
LEMMA FullInvStep == FullInv /\ [Next]_vars => FullInv'
<1> SUFFICES ASSUME FullInv, [Next]_vars
             PROVE  FullInv'
  OBVIOUS
<1>1. SessionInv'
  BY SessionInvStep DEF FullInv
<1>2. CASE ServerStep
  BY <1>1, <1>2, ServerKeepsTransfer, ServerKeepsExchange DEF ServerStep, FullInv
<1>3. CASE ClientStep
  BY <1>1, <1>3, ClientKeepsTransfer, ClientKeepsExchange DEF ClientStep, FullInv
<1>4. CASE LinkStep \/ Terminated \/ UNCHANGED vars
  BY <1>1, <1>4, LinkKeepsTransfer, LinkKeepsExchange
     DEF LinkStep, Terminated, vars, FullInv
<1> QED
  BY <1>2, <1>3, <1>4 DEF Next

\* Every state of a session satisfies it.
LEMMA FullInvariant == Spec => []FullInv
  BY FullInvInit, FullInvStep, PTL DEF Spec

\* A response at the head of the queue is the answer to what the server waits for.
LEMMA HeadIsOwn ==
  ASSUME FullInv, InExchange, toServer # <<>>, Head(toServer).type \in Response
  PROVE  /\ OwnResponse(Head(toServer).type, Head(toServer).arg)
         /\ Head(toServer).type = "STATUS_RESPONSE" /\ Head(toServer).arg = TransferOk
              => largeTransferCompleted
<1>1. PICK n \in Nat \ {0} : DOMAIN toServer = 1 .. n /\ Head(toServer) = toServer[1]
  BY TailQueue DEF FullInv, SessionInv, NetTypeOK
<1>2. 1 \in DOMAIN toServer
  BY <1>1
<1> QED
  BY <1>1, <1>2 DEF FullInv, ExchangeInv, OnlyOwn, ReportTrue

\* An exchange never takes the answer to another request, of its own type or of
\* another, sent again or answered twice, although nothing in the packets tells
\* the two sides which request a response answers.
THEOREM SessionResponsesMatch == Spec => ResponsesMatchRequests
<1> DEFINE Match == /\ ReceiveCommandAck => serverIncoming.arg = command
                    /\ ReceiveStatus => serverIncoming.arg = EngineStatus
                    /\ ReceiveTransferStatus => serverIncoming.arg = TransferOk
<1>1. FullInv => Match
  <2> SUFFICES ASSUME FullInv
               PROVE  Match
    OBVIOUS
  <2> USE HeadIsOwn DEF serverIncoming, ServerGets, ServerReceives, Response, OwnResponse,
                        InExchange, CommandExchange, StatusExchange, TransferExchange
  <2>1. ReceiveCommandAck => serverIncoming.arg = command
    BY DEF ReceiveCommandAck
  <2>2. ReceiveStatus => serverIncoming.arg = EngineStatus
    BY DEF ReceiveStatus
  <2>3. ReceiveTransferStatus => serverIncoming.arg = TransferOk
    BY DEF ReceiveTransferStatus
  <2> QED
    BY <2>1, <2>2, <2>3
<1>2. FullInv => [Match]_vars
  BY <1>1
<1>3. Spec => [][Match]_vars
  BY <1>2, FullInvariant, PTL
<1> QED
  BY <1>3 DEF ResponsesMatchRequests

\* What the client has completed it keeps.
LEMMA CompletedStays ==
  ASSUME FullInv, largeTransferCompleted, [Next]_vars
  PROVE  largeTransferCompleted'
<1>1. CASE ClientStep
  <2>1. ClientStepKind
    BY <1>1, ClientExchangeStep DEF ClientStep, FullInv, ClientStepKind
  <2>2. ~Receiving
    BY DEF FullInv, TransferInv, BufferInv
  <2> QED
    BY <2>1, <2>2 DEF ClientStepKind, ClientMoves, ClientTakesAck, ClientTakesRequest,
                      ClientResponds, ClientSendsOther
<1>2. CASE UNCHANGED clientVars
  BY <1>2, ClientStands
<1> QED
  BY <1>1, <1>2 DEF Next, ServerStep, LinkStep, Terminated, vars

\* transferTriggered is set by one step of the server.
LEMMA TriggeredOnce ==
  ASSUME ServerNext, transferTriggered' # transferTriggered
  PROVE  ReceiveTransferStatus
  BY DEF ServerNext, Listen, ListenFails, Accept, AcceptFails, Verify, VerifyFails,
         SendConnectAck, Reject, ReceiveTelemetry, ReceiveUnexpected, ReceiveDisconnect,
         ActiveReceiveFails, SendTelemetryAck, TelemetryAckFails, SendDisconnectAck,
         Shutdown, SendCommand, ReceiveCommandAck, MissCommandAck, SendRequest,
         ReceiveStatus, MissStatus, BeginTransfer, SendStart, SendChunk, SendEnd,
         TransferSendFails, MissTransferStatus, exchangeVars

\* The server believes the transfer complete only when the client has verified the
\* whole payload, although any STATUS_RESPONSE would convince it.
THEOREM SessionTransferConfirmed == Spec => []TransferConfirmed
<1>1. Init => TransferConfirmed
  BY DEF Init, ServerInit, TransferConfirmed
<1>2. TransferConfirmed /\ FullInv /\ [Next]_vars => TransferConfirmed'
  <2> SUFFICES ASSUME TransferConfirmed, FullInv, [Next]_vars, transferTriggered'
               PROVE  largeTransferCompleted'
    BY DEF TransferConfirmed
  <2>1. CASE ServerStep /\ ReceiveTransferStatus
    <3>1. largeTransferCompleted
      BY <2>1, HeadIsOwn DEF ReceiveTransferStatus, ServerGets, ServerReceives, serverIncoming,
                             InExchange, CommandExchange, StatusExchange, TransferExchange,
                             Response, OwnResponse
    <3> QED
      BY <3>1, CompletedStays
  <2>2. CASE UNCHANGED transferTriggered
    BY <2>2, CompletedStays DEF TransferConfirmed
  <2>3. ServerStep /\ ~ReceiveTransferStatus => UNCHANGED transferTriggered
    BY TriggeredOnce DEF ServerStep
  <2>4. ~ServerStep => UNCHANGED transferTriggered
    BY DEF Next, ClientStep, LinkStep, Terminated, vars, serverVars, exchangeVars
  <2> QED
    BY <2>1, <2>2, <2>3, <2>4
<1> QED
  BY <1>1, <1>2, FullInvariant, PTL DEF Spec
=============================================================================
