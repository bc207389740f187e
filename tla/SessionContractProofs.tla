------------------------- MODULE SessionContractProofs -------------------------
(***************************************************************************)
(* What a session is to its users, for every value of the constants with   *)
(* the transfer no later than the last sample: when the server hears       *)
(* DISCONNECT everything has been done, and the two programs together keep *)
(* SessionContract.  Besides: the two situations the retransmission loops  *)
(* cannot get out of are just that, however long the loops are; and the    *)
(* session with a clock is a session.                                      *)
(***************************************************************************)
EXTENDS SessionExchangeProofs, TimedSession

(***************************************************************************)
(* When the payload is due.                                                *)
(***************************************************************************)
\* The transfer runs at its count, and past that count without a transfer the
\* session is over.
TransferDue ==
  /\ TransferUnderWay => telemetryCount = TransferAt
  /\ telemetryCount >= TransferAt /\ ~transferTriggered =>
       \/ telemetryCount = TransferAt /\ sPc = "telemetryAck"
       \/ TransferUnderWay
       \/ sPc \in {"closing", "done"}

\* The count reaches TransferAt once, and the acknowledgement of that sample
\* starts the transfer, or the session ends: neither of the other two exchanges
\* is due then.
LEMMA TransferDueStep ==
  ASSUME ServerTypeOK, TransferDue, ServerNext
  PROVE  TransferDue'
<1> USE DEF TransferDue, TransferUnderWay, ServerGoto, GiveUp, telemetryVars, exchangeVars
<1>a. telemetryCount \in Nat /\ TransferAt \in Nat \ {0, CommandAt, StatusAt}
  BY TriggerAssumption DEF ServerTypeOK
<1>1. CASE Listen \/ ListenFails \/ Accept \/ AcceptFails
  BY <1>1 DEF Listen, ListenFails, Accept, AcceptFails
<1>2. CASE Verify \/ VerifyFails \/ SendConnectAck \/ Reject
  BY <1>2 DEF Verify, VerifyFails, SendConnectAck, Reject
<1>3. CASE ReceiveTelemetry
  BY <1>a, <1>3 DEF ReceiveTelemetry
<1>4. CASE ReceiveUnexpected \/ ReceiveDisconnect \/ ActiveReceiveFails
  BY <1>4 DEF ReceiveUnexpected, ReceiveDisconnect, ActiveReceiveFails
<1>5. CASE SendTelemetryAck
  BY <1>a, <1>5
     DEF SendTelemetryAck, shouldSendCommand, shouldRequestAdditionalStatus,
         shouldStartLargeTransfer, AdjustHeading, InitiateTransfer
<1>6. CASE TelemetryAckFails \/ SendDisconnectAck \/ Shutdown
  BY <1>6 DEF TelemetryAckFails, SendDisconnectAck, Shutdown
<1>7. CASE SendCommand \/ MissCommandAck
  BY <1>7 DEF SendCommand, MissCommandAck, NextSend, NextReceive
<1>8. CASE ReceiveCommandAck
  BY <1>8 DEF ReceiveCommandAck
<1>9. CASE SendRequest \/ ReceiveStatus \/ MissStatus
  BY <1>9 DEF SendRequest, ReceiveStatus, MissStatus, NextSend
<1>10. CASE BeginTransfer \/ SendStart \/ SendChunk \/ SendEnd \/ TransferSendFails
  BY <1>10 DEF BeginTransfer, SendStart, SendChunk, SendEnd, TransferSendFails
<1>11. CASE ReceiveTransferStatus \/ MissTransferStatus
  BY <1>11 DEF ReceiveTransferStatus, MissTransferStatus, NextReceive
<1> QED
  BY <1>1, <1>2, <1>3, <1>4, <1>5, <1>6, <1>7, <1>8, <1>9, <1>10, <1>11 DEF ServerNext

\* Samples are counted in the session loop alone.
LEMMA CountedInLoop ==
  ASSUME ServerNext, telemetryCount' # telemetryCount
  PROVE  ReceiveTelemetry
  BY DEF ServerNext, Listen, ListenFails, Accept, AcceptFails, Verify, VerifyFails,
         SendConnectAck, Reject, ReceiveUnexpected, ReceiveDisconnect,
         ActiveReceiveFails, SendTelemetryAck, TelemetryAckFails, SendDisconnectAck,
         Shutdown, SendCommand, ReceiveCommandAck, MissCommandAck, SendRequest,
         ReceiveStatus, MissStatus, BeginTransfer, SendStart, SendChunk, SendEnd,
         TransferSendFails, ReceiveTransferStatus, MissTransferStatus, telemetryVars

\* A transfer that has returned has returned for good.
LEMMA TriggeredStays ==
  ASSUME ServerNext, transferTriggered
  PROVE  transferTriggered'
  BY TriggeredOnce DEF ReceiveTransferStatus

\* The session loop is left for disconnectAck by DISCONNECT alone.
LEMMA DisconnectingOnce ==
  ASSUME ServerNext, sState # "DISCONNECTING", sState' = "DISCONNECTING"
  PROVE  ReceiveDisconnect
<1> USE DEF ServerGoto, GiveUp
<1>1. CASE Listen \/ ListenFails \/ Accept \/ AcceptFails \/ Verify \/ VerifyFails
             \/ SendConnectAck \/ Reject
  BY <1>1 DEF Listen, ListenFails, Accept, AcceptFails, Verify, VerifyFails,
              SendConnectAck, Reject
<1>2. CASE ReceiveTelemetry \/ ReceiveUnexpected \/ ActiveReceiveFails
             \/ SendTelemetryAck \/ TelemetryAckFails \/ SendDisconnectAck \/ Shutdown
  BY <1>2 DEF ReceiveTelemetry, ReceiveUnexpected, ActiveReceiveFails, SendTelemetryAck,
              TelemetryAckFails, SendDisconnectAck, Shutdown
<1>3. CASE SendCommand \/ ReceiveCommandAck \/ MissCommandAck \/ SendRequest
             \/ ReceiveStatus \/ MissStatus
  BY <1>3 DEF SendCommand, ReceiveCommandAck, MissCommandAck, SendRequest, ReceiveStatus,
              MissStatus, NextSend, NextReceive
<1>4. CASE BeginTransfer \/ SendStart \/ SendChunk \/ SendEnd \/ TransferSendFails
             \/ ReceiveTransferStatus \/ MissTransferStatus
  BY <1>4 DEF BeginTransfer, SendStart, SendChunk, SendEnd, TransferSendFails,
              ReceiveTransferStatus, MissTransferStatus, NextReceive
<1> QED
  BY <1>1, <1>2, <1>3, <1>4 DEF ServerNext

(***************************************************************************)
(* How the client parts.                                                   *)
(***************************************************************************)
\* The client waits for the answer to its DISCONNECT, or has stopped waiting.
Parted == cPc \in {"finalAck", "close", "done"} /\ exitCode # "1" /\ index = NumSamples

\* DISCONNECT is sent after the last sample, and with no error so far.
PartingInv ==
  /\ cPc \notin {"close", "done"} => exitCode = "running"
  /\ Contains(toServer, "DISCONNECT") => Parted

\* A client that has parted stays parted.
LEMMA PartedStays ==
  ASSUME Parted, ClientNext
  PROVE  Parted'
<1> USE DEF Parted
<1>1. CASE AwaitFinalAck \/ Close
  BY <1>1 DEF AwaitFinalAck, Close, windowVars
<1>2. CASE ~(AwaitFinalAck \/ Close)
  BY <1>2 DEF ClientNext, StartupFails, Connect, ConnectFails, SendConnectRequest,
     ReceiveConnectAck, MissConnectAck, SendTelemetry, ReceiveTelemetryAck,
     MissTelemetryAck, NoOptionalMessage, OptionalReceiveFails, IgnoreOptionalMessage,
     ReceiveCommand, SendCommandAck, ReceiveDataRequest, SendStatus, ReceiveStart,
     ReceiveChunk, ReceiveEnd, TransferReceiveFails, SendTransferStatus,
     TransferStatusFails, SendDisconnect
<1> QED
  BY <1>1, <1>2

\* The exit code is set on the way to close.
LEMMA RunningStep ==
  ASSUME cPc \notin {"close", "done"} => exitCode = "running", ClientNext
  PROVE  (cPc \notin {"close", "done"} => exitCode = "running")'
<1> USE DEF Fail
<1>1. CASE StartupFails \/ Connect \/ ConnectFails \/ SendConnectRequest
           \/ ReceiveConnectAck \/ MissConnectAck
  BY <1>1 DEF StartupFails, Connect, ConnectFails, SendConnectRequest, ReceiveConnectAck,
              MissConnectAck, NextClientSend, NextClientReceive
<1>2. CASE SendTelemetry \/ ReceiveTelemetryAck \/ MissTelemetryAck
  BY <1>2 DEF SendTelemetry, ReceiveTelemetryAck, MissTelemetryAck, NextClientSend,
              NextClientReceive
<1>3. CASE NoOptionalMessage \/ IgnoreOptionalMessage \/ OptionalReceiveFails
           \/ ReceiveCommand \/ ReceiveDataRequest
  BY <1>3 DEF NoOptionalMessage, IgnoreOptionalMessage, OptionalReceiveFails,
              ReceiveCommand, ReceiveDataRequest, WindowCloses
<1>4. CASE SendCommandAck \/ SendStatus
  BY <1>4 DEF SendCommandAck, SendStatus, Answer, WindowCloses
<1>5. CASE ReceiveStart \/ ReceiveChunk \/ ReceiveEnd \/ TransferReceiveFails
  BY <1>5 DEF ReceiveStart, ReceiveChunk, ReceiveEnd, TransferReceiveFails
<1>6. CASE SendTransferStatus \/ TransferStatusFails
  BY <1>6 DEF SendTransferStatus, TransferStatusFails, WindowCloses
<1>7. CASE SendDisconnect \/ AwaitFinalAck \/ Close
  BY <1>7 DEF SendDisconnect, AwaitFinalAck, Close
<1> QED
  BY <1>1, <1>2, <1>3, <1>4, <1>5, <1>6, <1>7 DEF ClientNext

\* A step of the client puts one packet at the end of its queue, or none, and
\* DISCONNECT only by SendDisconnect.
LEMMA ClientSendsStep ==
  ASSUME SessionInv, ClientNext
  PROVE  \/ UNCHANGED toServer
         \/ SendDisconnect
         \/ \E packet \in Packet : /\ toServer' = Append(toServer, packet)
                                   /\ packet.type # "DISCONNECT"
<1> USE DEF netVars, ClientReceives, ClientReceivesNothing, ClientGets, ClientMisses,
            ClientSendFails
<1>a. sequenceNumber \in Nat /\ index \in Nat /\ order \in Nat
  BY ClientAssumption DEF SessionInv, ClientInv, ClientTypeOK
<1>b. ASSUME NEW type \in MessageType, NEW arg \in Nat, type # "DISCONNECT",
             ClientSends(makePacket(type, sequenceNumber, arg))
      PROVE  \E packet \in Packet : /\ toServer' = Append(toServer, packet)
                                    /\ packet.type # "DISCONNECT"
  <2> DEFINE packet == makePacket(type, sequenceNumber, arg)
  <2>1. packet \in Packet /\ packet.type = type
    BY <1>a, PacketType DEF makePacket
  <2> QED
    BY <1>b, <2>1 DEF ClientSends
<1>1. CASE StartupFails \/ Connect \/ ConnectFails \/ ReceiveConnectAck \/ MissConnectAck
  BY <1>1 DEF StartupFails, Connect, ConnectFails, ReceiveConnectAck, MissConnectAck,
              ClientConnects, ClientConnectRefused
<1>2. CASE ReceiveTelemetryAck \/ MissTelemetryAck \/ NoOptionalMessage
           \/ OptionalReceiveFails \/ IgnoreOptionalMessage
  BY <1>2 DEF ReceiveTelemetryAck, MissTelemetryAck, NoOptionalMessage,
              OptionalReceiveFails, IgnoreOptionalMessage, ClientSeesSilence,
              ClientReceiveFails
<1>3. CASE ReceiveCommand \/ ReceiveDataRequest \/ ReceiveStart \/ ReceiveChunk
           \/ ReceiveEnd \/ TransferReceiveFails \/ TransferStatusFails
  BY <1>3 DEF ReceiveCommand, ReceiveDataRequest, ReceiveStart, ReceiveChunk, ReceiveEnd,
              TransferReceiveFails, TransferStatusFails
<1>4. CASE AwaitFinalAck \/ Close
  BY <1>4 DEF AwaitFinalAck, Close, ClientCloses
<1>5. CASE SendConnectRequest
  BY <1>5, <1>b DEF SendConnectRequest, MessageType, NoPayload
<1>6. CASE SendTelemetry
  BY <1>a, <1>6, <1>b DEF SendTelemetry, MessageType
<1>7. CASE SendCommandAck \/ SendStatus
  BY <1>a, <1>7, <1>b DEF SendCommandAck, SendStatus, Answer, MessageType, EngineStatus
<1>8. CASE SendTransferStatus
  BY <1>8, <1>b DEF SendTransferStatus, MessageType, TransferOk, TransferFailed
<1> QED
  BY <1>1, <1>2, <1>3, <1>4, <1>5, <1>6, <1>7, <1>8 DEF ClientNext

\* What is taken off a queue was in it.
LEMMA TailContains ==
  ASSUME NEW queue \in Seq(Packet), queue # <<>>
  PROVE  \A type : Contains(Tail(queue), type) => Contains(queue, type)
<1>1. PICK n \in Nat \ {0} : /\ DOMAIN queue = 1 .. n
                             /\ DOMAIN Tail(queue) = 1 .. n - 1
                             /\ \A k \in 1 .. n - 1 : Tail(queue)[k] = queue[k + 1]
  BY TailQueue
<1>2. \A k \in 1 .. n - 1 : k + 1 \in 1 .. n
  OBVIOUS
<1> QED
  BY <1>1, <1>2 DEF Contains

\* The last packet of the client is its DISCONNECT, or there is none.
LEMMA ClientKeepsParting ==
  ASSUME SessionInv, PastLastSample, PartingInv, ClientNext
  PROVE  PartingInv'
<1>a. toServer \in Seq(Packet)
  BY DEF SessionInv, NetTypeOK
<1>b. (cPc \notin {"close", "done"} => exitCode = "running")'
  BY RunningStep DEF PartingInv
<1>1. CASE ~Contains(toServer', "DISCONNECT") \/ Contains(toServer, "DISCONNECT")
  BY <1>b, <1>1, PartedStays DEF PartingInv
<1>2. CASE SendDisconnect
  <2>1. CASE ClientSendFails
    <3>1. UNCHANGED toServer
      BY <2>1 DEF ClientSendFails, netVars
    <3> QED
      BY <1>1, <3>1
  <2>2. CASE ~ClientSendFails
    <3>1. cPc' = "finalAck" /\ exitCode' = "running" /\ index' = NumSamples
      BY <1>2, <2>2 DEF SendDisconnect, PastLastSample, PartingInv, windowVars
    <3> QED
      BY <3>1 DEF PartingInv, Parted
  <2> QED
    BY <2>1, <2>2
<1>3. CASE UNCHANGED toServer
  BY <1>1, <1>3
<1>4. CASE \E packet \in Packet : /\ toServer' = Append(toServer, packet)
                                  /\ packet.type # "DISCONNECT"
  BY <1>a, <1>1, <1>4, AppendedEnds
<1> QED
  BY <1>2, <1>3, <1>4, ClientSendsStep

\* Nobody else sends it or moves the client.
LEMMA OthersKeepParting ==
  ASSUME SessionInv, PartingInv, UNCHANGED clientVars, ServerTakes \/ toServer' = <<>>
  PROVE  PartingInv'
<1>a. UNCHANGED <<cPc, exitCode, index>>
  BY DEF clientVars, windowVars
<1>1. Contains(toServer', "DISCONNECT") => Contains(toServer, "DISCONNECT")
  <2>1. CASE ServerTakes
    BY <2>1, TailContains DEF ServerTakes, SessionInv, NetTypeOK
  <2>2. CASE toServer' = <<>>
    BY <2>2 DEF Contains
  <2> QED
    BY <2>1, <2>2
<1> QED
  BY <1>a, <1>1 DEF PartingInv, Parted

(***************************************************************************)
(* When the payload arrives.                                               *)
(***************************************************************************)
\* Nothing has arrived before LARGE_DATA_START is taken, and that happens at the
\* count of the transfer, or the transfer has long been confirmed.
DeliveryInv ==
  /\ NotBegun \/ Contains(toClient, "LARGE_DATA_START") => fileBuffer = <<>>
  /\ Contains(toClient, "LARGE_DATA_START") \/ Receiving
       => transferTriggered \/ telemetryCount = TransferAt

\* The server counts no sample and starts no second transfer with START on its
\* way or the client in the middle of it.
LEMMA ServerKeepsDelivery ==
  ASSUME SessionInv, TransferInv, TransferDue, DeliveryInv, ServerNext,
         UNCHANGED clientVars
  PROVE  DeliveryInv'
<1>a. /\ toClient \in Seq(Packet)
      /\ responseSequence \in Nat /\ chunkIndex \in Nat
      /\ telemetryCount \in Nat /\ TransferAt \in Nat
      /\ UNCHANGED fileBuffer
      /\ Receiving' = Receiving
  BY TriggerAssumption, ClientStands
     DEF SessionInv, NetTypeOK, ServerTypeOK, clientVars, transferVars
\* The count stands once START may be on its way.
<1>b. ASSUME Contains(toClient, "LARGE_DATA_START") \/ Receiving
      PROVE  transferTriggered' \/ telemetryCount' = TransferAt
  <2>1. transferTriggered \/ telemetryCount = TransferAt
    BY <1>b DEF DeliveryInv
  <2>2. CASE transferTriggered
    BY <2>2, TriggeredStays
  <2>3. CASE ~transferTriggered /\ telemetryCount = TransferAt
    <3>1. sPc # "active"
      BY <1>a, <2>3 DEF TransferDue, TransferUnderWay
    <3>2. telemetryCount' = telemetryCount
      BY <3>1, CountedInLoop DEF ReceiveTelemetry
    <3> QED
      BY <2>3, <3>2
  <2> QED
    BY <2>1, <2>2, <2>3
<1>1. CASE SendStart
  <2>1. PICK packet \in Packet : toClient' = Append(toClient, packet)
    BY <1>a, <1>1, PacketType, TotalChunksNat DEF SendStart, ServerSends, MessageType
  <2>2. ~NotBegun' /\ telemetryCount' = TransferAt
    BY <1>1 DEF SendStart, NotBegun, TransferDue, TransferUnderWay, telemetryVars,
                ServerGoto, exchangeVars
  <2>3. NotBegun
    BY <1>1 DEF SendStart, NotBegun, TransferInv, FirstTransfer, TransferUnderWay
  <2> QED
    BY <1>a, <2>2, <2>3 DEF DeliveryInv
<1>2. CASE SendChunk
  <2>1. PICK packet \in Packet : /\ toClient' = Append(toClient, packet)
                                 /\ packet.type = "LARGE_DATA_CHUNK"
    BY <1>a, <1>2, PacketType
       DEF SendChunk, ServerSendsBulk, ServerSends, MessageType, makePacket
  <2>2. Contains(toClient', "LARGE_DATA_START") => Contains(toClient, "LARGE_DATA_START")
    BY <1>a, <2>1, AppendedEnds
  <2>3. ~NotBegun'
    BY <1>2 DEF SendChunk, NotBegun, ServerGoto
  <2> QED
    BY <1>a, <1>b, <2>2, <2>3 DEF DeliveryInv
<1>3. CASE /\ NotBegun' => NotBegun
           /\ \/ UNCHANGED toClient
              \/ \E packet \in Packet : /\ toClient' = Append(toClient, packet)
                                        /\ packet.type # "LARGE_DATA_START"
  <2>1. Contains(toClient', "LARGE_DATA_START") => Contains(toClient, "LARGE_DATA_START")
    <3>1. CASE UNCHANGED toClient
      BY <3>1
    <3>2. CASE ~UNCHANGED toClient
      <4>1. PICK packet \in Packet : /\ toClient' = Append(toClient, packet)
                                     /\ packet.type # "LARGE_DATA_START"
        BY <1>3, <3>2
      <4> QED
        BY <1>a, <4>1, AppendedEnds
    <3> QED
      BY <3>1, <3>2
  <2>2. NotBegun' => NotBegun
    BY <1>3
  <2> QED
    BY <1>a, <1>b, <2>1, <2>2 DEF DeliveryInv
<1> QED
  BY <1>1, <1>2, <1>3, ServerTransferStep DEF SessionInv, TransferInv

\* The client takes START and the chunks only when it is due.
LEMMA ClientKeepsDelivery ==
  ASSUME SessionInv, TransferInv, DeliveryInv, ClientNext, UNCHANGED serverVars
  PROVE  DeliveryInv'
<1>a. /\ toClient \in Seq(Packet)
      /\ UNCHANGED <<transferTriggered, telemetryCount>>
      /\ NotBegun' = NotBegun
  BY DEF SessionInv, NetTypeOK, serverVars, telemetryVars, exchangeVars, NotBegun
<1>b. Contains(toClient', "LARGE_DATA_START") => Contains(toClient, "LARGE_DATA_START")
  BY <1>a, ClientStepQueue, TailContains
<1>1. CASE ReceiveStart
  <2>1. fileBuffer' = <<>> /\ toClient # <<>> /\ Head(toClient).type = "LARGE_DATA_START"
    BY <1>1 DEF ReceiveStart, ClientGets, ClientReceives, clientIncoming
  <2>2. Contains(toClient, "LARGE_DATA_START")
    BY <1>a, <2>1, TailQueue DEF Contains
  <2> QED
    BY <1>a, <2>1, <2>2 DEF DeliveryInv
<1>2. CASE ReceiveChunk \/ ReceiveEnd \/ SendTransferStatus
  <2>1. Receiving
    BY <1>2 DEF ReceiveChunk, ReceiveEnd, SendTransferStatus, Receiving
  <2>2. ~NotBegun /\ ~Contains(toClient, "LARGE_DATA_START")
    BY <2>1 DEF TransferInv, PipeInv
  <2> QED
    BY <1>a, <1>b, <2>1, <2>2 DEF DeliveryInv
<1>3. CASE ~Receiving' /\ UNCHANGED fileBuffer
  BY <1>a, <1>b, <1>3 DEF DeliveryInv
<1> QED
  BY <1>1, <1>2, <1>3, ClientTransferStep

\* A reset loses START, and leaves the rest.
LEMMA LinkKeepsDelivery ==
  ASSUME DeliveryInv, UNCHANGED serverVars, UNCHANGED clientVars,
         UNCHANGED toClient \/ toClient' = <<>>
  PROVE  DeliveryInv'
<1>1. Contains(toClient', "LARGE_DATA_START") => Contains(toClient, "LARGE_DATA_START")
  BY DEF Contains
<1>2. /\ NotBegun' = NotBegun /\ Receiving' = Receiving
      /\ UNCHANGED <<fileBuffer, transferTriggered, telemetryCount>>
  BY DEF serverVars, telemetryVars, exchangeVars, clientVars, transferVars, NotBegun,
         Receiving
<1> QED
  BY <1>1, <1>2 DEF DeliveryInv

(***************************************************************************)
(* The session in order.                                                   *)
(***************************************************************************)
\* What the session has kept since its beginning, whatever the constants.
ServedInv ==
  /\ FullInv
  /\ TransferConfirmed
  /\ AcksInv
  /\ StateAtPoint
  /\ PastLastSample
  /\ TransferDue
  /\ PartingInv
  /\ DeliveryInv

\* A session begins like that.
LEMMA ServedInit == Init => TransferConfirmed /\ PastLastSample /\ TransferDue
                              /\ PartingInv /\ DeliveryInv
<1> SUFFICES ASSUME Init
             PROVE  TransferConfirmed /\ PastLastSample /\ TransferDue
                      /\ PartingInv /\ DeliveryInv
  OBVIOUS
<1>1. DOMAIN toServer = {} /\ DOMAIN toClient = {}
  BY DEF Init, NetInit
<1>2. TransferConfirmed /\ TransferDue
  BY TriggerAssumption DEF Init, ServerInit, TransferConfirmed, TransferDue, TransferUnderWay
<1>3. PastLastSample
  BY DEF Init, ClientInit, PastLastSample, SuccessAfterAllSamples
<1>4. PartingInv /\ DeliveryInv
  BY <1>1 DEF Init, ClientInit, PartingInv, DeliveryInv, Contains, Receiving
<1> QED
  BY <1>2, <1>3, <1>4

\* Every step of the session keeps the three new parts.
LEMMA DueStep ==
  ASSUME ServedInv, [Next]_vars
  PROVE  PastLastSample' /\ TransferDue' /\ PartingInv' /\ DeliveryInv'
<1> USE DEF ServedInv, FullInv
<1>1. CASE ServerStep
  <2>1. ServerNext /\ UNCHANGED clientVars
    BY <1>1 DEF ServerStep
  <2>2. TransferDue' /\ DeliveryInv'
    BY <2>1, TransferDueStep, ServerKeepsDelivery DEF SessionInv
  <2>3. PartingInv'
    BY <2>1, ServerOnlyTakes, OthersKeepParting
  <2>4. PastLastSample'
    BY <2>1 DEF PastLastSample, SuccessAfterAllSamples, clientVars, windowVars
  <2> QED
    BY <2>2, <2>3, <2>4
<1>2. CASE ClientStep
  <2>1. ClientNext /\ UNCHANGED serverVars
    BY <1>2 DEF ClientStep
  <2>2. TransferDue'
    BY <2>1 DEF TransferDue, TransferUnderWay, serverVars, telemetryVars, exchangeVars
  <2> QED
    BY <2>1, <2>2, PastLastSampleStep, ClientKeepsParting, ClientKeepsDelivery DEF SessionInv
<1>3. CASE LinkStep \/ Terminated \/ UNCHANGED vars
  <2>1. UNCHANGED serverVars /\ UNCHANGED clientVars
    BY <1>3 DEF LinkStep, Terminated, vars
  <2>2. /\ UNCHANGED toServer \/ toServer' = <<>>
        /\ UNCHANGED toClient \/ toClient' = <<>>
    BY <1>3 DEF LinkStep, ConnectionReset, Terminated, vars, netVars
  <2>3. TransferDue'
    BY <2>1 DEF TransferDue, TransferUnderWay, serverVars, telemetryVars, exchangeVars
  <2>4. PastLastSample'
    BY <2>1 DEF PastLastSample, SuccessAfterAllSamples, clientVars, windowVars
  <2> QED
    BY <2>1, <2>2, <2>3, <2>4, OthersKeepParting, LinkKeepsDelivery DEF ServerTakes
<1> QED
  BY <1>1, <1>2, <1>3 DEF Next

\* Every state of a session satisfies it.
LEMMA ServedInvariant == Spec => []ServedInv
<1>1. Init => ServedInv
  BY FullInvInit, ServedInit, AcksInit, SessionStateInit DEF ServedInv
<1>2. ServedInv /\ TransferConfirmed' /\ [Next]_vars => ServedInv'
  BY FullInvStep, AcksStep, SessionStateStep, DueStep DEF ServedInv, FullInv
<1> QED
  BY <1>1, <1>2, SessionTransferConfirmed, PTL DEF Spec

(***************************************************************************)
(* Parting in agreement.                                                   *)
(***************************************************************************)
\* The transfer comes no later than the last sample: both are 5 in the code.
TransferInTime == TransferAt <= NumSamples

\* A client that has parted has had all its samples counted; in the session loop
\* the transfer they brought has been confirmed.
LEMMA PartedMeansServed ==
  ASSUME ServedInv, TransferInTime, sPc = "active", Parted
  PROVE  transferTriggered /\ largeTransferCompleted
<1>1. samplesAcknowledged = NumSamples
  BY DEF Parted, samplesAcknowledged, WindowPoint
<1>2. telemetryCount >= TransferAt
  BY <1>1, AcknowledgedCounted, ClientAssumption, TriggerAssumption
     DEF ServedInv, FullInv, SessionInv, ServerTypeOK, TransferInTime
<1>3. transferTriggered
  BY <1>2 DEF ServedInv, TransferDue, TransferUnderWay
<1> QED
  BY <1>3 DEF ServedInv, TransferConfirmed

\* When the server hears DISCONNECT in its session loop, the whole script has
\* run: the payload has been delivered and confirmed, and the client has parted
\* without an error.
THEOREM SessionPartsAgreed ==
  ASSUME TransferInTime
  PROVE  Spec => []CleanSessionAgreed
<1> DEFINE Agreed == transferTriggered /\ largeTransferCompleted /\ Parted
           Inv == sState = "DISCONNECTING" => Agreed
<1>1. Init => Inv
  BY DEF Init, ServerInit
<1>2. ServedInv /\ Inv /\ [Next]_vars => Inv'
  <2> SUFFICES ASSUME ServedInv, Inv, [Next]_vars, sState' = "DISCONNECTING"
               PROVE  Agreed'
    OBVIOUS
  <2>1. CASE sState = "DISCONNECTING"
    <3>1. Agreed
      BY <2>1
    <3>2. transferTriggered'
      BY <3>1, TriggeredStays
         DEF Next, ServerStep, ClientStep, LinkStep, Terminated, vars, serverVars, exchangeVars
    <3>3. largeTransferCompleted'
      BY <3>1, CompletedStays DEF ServedInv
    <3>4. Parted'
      BY <3>1, PartedStays
         DEF Next, ServerStep, ClientStep, LinkStep, Terminated, vars, clientVars,
             windowVars, Parted
    <3> QED
      BY <3>2, <3>3, <3>4
  <2>2. CASE sState # "DISCONNECTING"
    <3>1. ServerStep
      BY <2>2 DEF Next, ClientStep, LinkStep, Terminated, vars, serverVars
    <3>2. ReceiveDisconnect
      BY <2>2, <3>1, DisconnectingOnce DEF ServerStep
    <3>3. /\ sPc = "active" /\ toServer # <<>> /\ Head(toServer).type = "DISCONNECT"
          /\ UNCHANGED transferTriggered /\ UNCHANGED clientVars
      BY <3>1, <3>2 DEF ReceiveDisconnect, ServerGets, ServerReceives, serverIncoming,
                        exchangeVars, ServerStep
    <3>4. Contains(toServer, "DISCONNECT")
      BY <3>3, TailQueue DEF Contains, ServedInv, FullInv, SessionInv, NetTypeOK
    <3>5. Parted
      BY <3>4 DEF ServedInv, PartingInv
    <3>6. transferTriggered /\ largeTransferCompleted
      BY <3>3, <3>5, PartedMeansServed
    <3> QED
      BY <3>3, <3>5, <3>6 DEF Parted, clientVars, windowVars, transferVars
  <2> QED
    BY <2>1, <2>2
<1>3. Inv => CleanSessionAgreed
  BY DEF CleanSessionAgreed, Parted
<1> QED
  BY <1>1, <1>2, <1>3, ServedInvariant, PTL DEF Spec

(***************************************************************************)
(* The contract.                                                           *)
(***************************************************************************)
\* The phase, by the point the server has reached.
PhaseTable ==
  /\ sPc \notin {"disconnectAck", "closing", "done"} => groundPhase = "open"
  /\ sPc = "disconnectAck" => groundPhase = "agreed"
  /\ sPc = "closing" =>
       groundPhase = IF sState = "DISCONNECTING" THEN "agreed" ELSE "over"
  /\ sPc = "done" => groundPhase = "over"

\* It follows from the state table.
LEMMA PhaseAtPoint ==
  ASSUME StateAtPoint, ServerTypeOK
  PROVE  PhaseTable
<1> USE DEF PhaseTable
<1>1. CASE sPc \in {"startup", "accept", "verify", "connectAck", "reject", "active",
                    "telemetryAck", "beginTransfer"}
  BY <1>1, StatesAtRows DEF StateAtPoint, groundPhase
<1>2. CASE sPc \in {"sendCommand", "commandAck", "sendRequest", "statusResponse",
                    "sendStart", "sendChunk", "sendEnd", "transferStatus"}
  BY <1>2, StatesAtRows DEF StateAtPoint, groundPhase
<1>3. CASE sPc \in {"disconnectAck", "closing", "done"}
  BY <1>3, StatesAtRows DEF StateAtPoint, groundPhase
<1> QED
  BY <1>1, <1>2, <1>3 DEF ServerTypeOK, ServerPc

\* Out of the session loop for good, the server takes two more steps.
LEMMA LastServerSteps ==
  ASSUME ServerNext, sPc \in {"disconnectAck", "closing", "done"}
  PROVE  SendDisconnectAck \/ Shutdown
  BY DEF ServerNext, Listen, ListenFails, Accept, AcceptFails, Verify, VerifyFails,
         SendConnectAck, Reject, ReceiveTelemetry, ReceiveUnexpected, ReceiveDisconnect,
         ActiveReceiveFails, SendTelemetryAck, TelemetryAckFails, SendCommand,
         ReceiveCommandAck, MissCommandAck, SendRequest, ReceiveStatus, MissStatus,
         BeginTransfer, SendStart, SendChunk, SendEnd, TransferSendFails,
         ReceiveTransferStatus, MissTransferStatus

\* The phase changes once by agreement, or once for the end, or both in order.
LEMMA PhaseStep ==
  ASSUME SessionInv, StateAtPoint, ServerNext, ~ReceiveDisconnect
  PROVE  \/ groundPhase' = groundPhase
         \/ groundPhase # "over" /\ groundPhase' = "over"
<1>a. ServerTypeOK /\ ServerTypeOK' /\ StateAtPoint'
  BY ServerTypeStep, TransitionStep DEF SessionInv
<1>b. PhaseTable /\ PhaseTable'
  BY <1>a, PhaseAtPoint, PTL
<1>1. CASE sPc \notin {"disconnectAck", "closing", "done"}
  <2>1. sState # "DISCONNECTING"
    BY <1>1, <1>b DEF PhaseTable, groundPhase
  <2>2. sState' # "DISCONNECTING"
    BY <2>1, DisconnectingOnce
  <2>3. sPc' # "disconnectAck"
    BY <2>2, <1>a, StatesAtRows DEF StateAtPoint
  <2> QED
    BY <1>1, <1>b, <2>2, <2>3 DEF PhaseTable
<1>2. CASE SendDisconnectAck
  <2>1. sState' = sState /\ sPc = "disconnectAck" /\ sPc' = "closing"
    BY <1>2 DEF SendDisconnectAck, ServerGoto
  <2>2. sState = "DISCONNECTING"
    BY <2>1, StatesAtRows DEF StateAtPoint
  <2> QED
    BY <1>b, <2>1, <2>2 DEF PhaseTable
<1>3. CASE Shutdown
  <2>1. sPc = "closing" /\ sPc' = "done"
    BY <1>3 DEF Shutdown, ServerGoto
  <2> QED
    BY <1>b, <2>1 DEF PhaseTable
<1> QED
  BY <1>1, <1>2, <1>3, LastServerSteps

\* What the server does is a step of the contract.
LEMMA ServerKeepsContract ==
  ASSUME ServedInv, TransferInTime, TransferConfirmed', ServerNext, UNCHANGED clientVars
  PROVE  [Contract!Next]_Contract!contractVars
<1> USE DEF Contract!Next, Contract!contractVars
<1>a. /\ SessionInv /\ StateAtPoint /\ ServerTypeOK
      /\ TransferDue /\ DeliveryInv /\ TransferInv
  BY DEF ServedInv, FullInv, SessionInv
<1>b. UNCHANGED <<index, Len(fileBuffer), largeTransferCompleted>>
  BY DEF clientVars, windowVars, transferVars
<1>1. CASE ReceiveTelemetry
  <2>1. /\ sPc = "active" /\ sPc' = "telemetryAck" /\ sState' = sState
        /\ telemetryCount' = telemetryCount + 1
        /\ UNCHANGED transferTriggered
    BY <1>1 DEF ReceiveTelemetry, ServerGoto, exchangeVars
  <2>2. groundPhase = "open" /\ groundPhase' = "open"
    <3>1. groundPhase = "open"
      BY <1>a, <2>1, PhaseAtPoint DEF PhaseTable
    <3> QED
      BY <3>1, <2>1 DEF groundPhase
  <2>3. Len(fileBuffer) > 0 => transferTriggered
    BY <1>a, <2>1 DEF DeliveryInv, NotBegun
  <2>4. Contract!Count
    BY <1>b, <2>1, <2>2, <2>3 DEF Contract!Count
  <2> QED BY <2>4
<1>2. CASE ReceiveTransferStatus
  <2>1. /\ sPc = "transferStatus" /\ sPc' = "active" /\ sState' = "ACTIVE"
        /\ transferTriggered'
        /\ UNCHANGED telemetryCount
    BY <1>2 DEF ReceiveTransferStatus, ServerGoto, telemetryVars
  <2>2. ~transferTriggered /\ transferTriggered' = TRUE
    BY <1>2, <1>a, <2>1
       DEF ReceiveTransferStatus, TransferInv, FirstTransfer, TransferUnderWay
  <2>3. largeTransferCompleted
    BY <1>b, <2>1 DEF TransferConfirmed
  <2>4. groundPhase = "open" /\ groundPhase' = "open"
    BY <1>a, <2>1, PhaseAtPoint DEF PhaseTable, groundPhase
  <2>5. Contract!Confirm
    BY <1>b, <2>1, <2>2, <2>3, <2>4 DEF Contract!Confirm
  <2> QED BY <2>5
<1>3. CASE ReceiveDisconnect
  <2>1. /\ sPc = "active" /\ sPc' = "disconnectAck" /\ sState' = "DISCONNECTING"
        /\ toServer # <<>> /\ Head(toServer).type = "DISCONNECT"
        /\ UNCHANGED <<telemetryCount, transferTriggered>>
    BY <1>3 DEF ReceiveDisconnect, ServerGoto, ServerGets, ServerReceives, serverIncoming,
                telemetryVars, exchangeVars
  <2>2. Parted
    BY <1>a, <2>1, TailQueue DEF Contains, SessionInv, NetTypeOK, ServedInv, PartingInv
  <2>3. transferTriggered /\ index = NumSamples
    BY <2>1, <2>2, PartedMeansServed DEF Parted
  <2>4. groundPhase = "open" /\ groundPhase' = "agreed"
    <3>1. groundPhase = "open"
      BY <1>a, <2>1, PhaseAtPoint DEF PhaseTable
    <3> QED
      BY <3>1, <2>1 DEF groundPhase
  <2>5. Contract!Agree
    BY <1>b, <2>1, <2>3, <2>4 DEF Contract!Agree
  <2> QED BY <2>5
<1>4. CASE ~ReceiveTelemetry /\ ~ReceiveTransferStatus /\ ~ReceiveDisconnect
  <2>1. UNCHANGED <<telemetryCount, transferTriggered>>
    BY <1>4, CountedInLoop, TriggeredOnce
  <2>2. CASE groundPhase' = groundPhase
    BY <1>b, <2>1, <2>2
  <2>3. CASE groundPhase # "over" /\ groundPhase' = "over"
    <3>1. Contract!End
      BY <1>b, <2>1, <2>3 DEF Contract!End
    <3> QED BY <3>1
  <2> QED
    BY <1>a, <1>4, <2>2, <2>3, PhaseStep
<1> QED
  BY <1>1, <1>2, <1>3, <1>4

\* Samples are done one by one, each in a window of its own.
LEMMA IndexStep ==
  ASSUME SessionInv, ClientNext
  PROVE  \/ UNCHANGED index
         \/ WindowPoint /\ index < NumSamples /\ index' = index + 1
<1> USE DEF windowVars, WindowPoint
<1>1. CASE NoOptionalMessage \/ IgnoreOptionalMessage
  BY <1>1 DEF NoOptionalMessage, IgnoreOptionalMessage, WindowCloses
<1>2. CASE SendCommandAck \/ SendStatus
  BY <1>2 DEF SendCommandAck, SendStatus, Answer, WindowCloses
<1>3. CASE SendTransferStatus
  BY <1>3 DEF SendTransferStatus, WindowCloses
<1>4. CASE ~(NoOptionalMessage \/ IgnoreOptionalMessage \/ SendCommandAck \/ SendStatus
               \/ SendTransferStatus)
  BY <1>4 DEF ClientNext, StartupFails, Connect, ConnectFails, SendConnectRequest,
     ReceiveConnectAck, MissConnectAck, SendTelemetry, ReceiveTelemetryAck,
     MissTelemetryAck, OptionalReceiveFails, ReceiveCommand, ReceiveDataRequest,
     ReceiveStart, ReceiveChunk, ReceiveEnd, TransferReceiveFails, TransferStatusFails,
     SendDisconnect, AwaitFinalAck, Close
<1> QED
  BY <1>1, <1>2, <1>3, <1>4

\* So is what the client does.
LEMMA ClientKeepsContract ==
  ASSUME ServedInv, ClientStep
  PROVE  [Contract!Next]_Contract!contractVars
<1> USE DEF Contract!Next, Contract!contractVars
<1>a. /\ SessionInv /\ BufferInv /\ DeliveryInv /\ PipeInv /\ TransferConfirmed
      /\ ClientNext
      /\ toClient \in Seq(Packet) /\ fileBuffer \in Seq(Nat)
      /\ index \in Nat /\ telemetryCount \in Nat /\ NumSamples \in Nat
      /\ largeTransferCompleted \in BOOLEAN
  BY ClientAssumption
     DEF ServedInv, FullInv, TransferInv, SessionInv, ServerTypeOK, ClientInv,
         ClientTypeOK, NetTypeOK, ClientStep
<1>b. UNCHANGED <<telemetryCount, transferTriggered, groundPhase>>
  BY DEF ClientStep, serverVars, telemetryVars, exchangeVars, groundPhase
<1>c. largeTransferCompleted' \in BOOLEAN
  BY SessionInvStep DEF ServedInv, FullInv, SessionInv, ClientInv, ClientTypeOK, Next
\* Where a sample may be done, it has been counted.
<1>d. WindowPoint /\ index < NumSamples => index + 1 <= telemetryCount
  BY <1>a, AcknowledgedCounted DEF samplesAcknowledged, ServedInv
<1>e. index <= telemetryCount
  BY <1>a, AcknowledgedCounted DEF samplesAcknowledged, ServedInv
<1>1. CASE ReceiveStart
  <2>1. /\ fileBuffer' = <<>> /\ UNCHANGED <<index, largeTransferCompleted>>
        /\ toClient # <<>> /\ Head(toClient).type = "LARGE_DATA_START"
    BY <1>1 DEF ReceiveStart, ClientGets, ClientReceives, clientIncoming, windowVars
  <2>2. fileBuffer = <<>>
    BY <1>a, <2>1, TailQueue DEF DeliveryInv, Contains
  <2> QED
    BY <1>b, <2>1, <2>2
<1>2. CASE ReceiveChunk
  <2>1. /\ Receiving /\ cPc = "chunk"
        /\ fileBuffer' = Append(fileBuffer, clientIncoming.arg)
        /\ UNCHANGED <<index, largeTransferCompleted>>
        /\ toClient # <<>> /\ clientIncoming = Head(toClient)
    BY <1>2 DEF ReceiveChunk, ClientGets, ClientReceives, clientIncoming, windowVars,
                Receiving
  <2>2. telemetryCount = TransferAt
    BY <1>a, <2>1 DEF DeliveryInv, TransferConfirmed, BufferInv
  <2>3. Len(fileBuffer) < TotalChunks
    BY <1>a, <2>1 DEF BufferInv
  <2>4. clientIncoming.arg \in Nat
    <3>1. Head(toClient) \in Packet
      BY <1>a, <2>1, HeadTailProperties
    <3> QED
      BY <2>1, <3>1 DEF Packet
  <2>5. Len(fileBuffer') = Len(fileBuffer) + 1
    BY <1>a, <2>1, <2>4, AppendProperties
  <2>6. Contract!Deliver
    BY <1>b, <2>1, <2>2, <2>3, <2>5 DEF Contract!Deliver
  <2> QED BY <2>6
<1>3. CASE SendTransferStatus
  <2>1. /\ Receiving /\ cPc = "transferStatus" /\ WindowPoint /\ UNCHANGED fileBuffer
        /\ largeTransferCompleted' = bufferAccepted(fileBuffer)
    BY <1>3 DEF SendTransferStatus, Receiving, WindowPoint
  <2>2. fileBuffer = Blob /\ Len(fileBuffer) = TotalChunks
    BY <1>a, <2>1, WholeBuffer DEF BufferInv, SessionInv, ClientInv
  <2>3. largeTransferCompleted' = TRUE
    BY <1>c, <2>1, <2>2, WholePayloadAccepted
  <2>4. ~largeTransferCompleted
    BY <1>a, <2>1 DEF BufferInv
  <2>5. index' \in {index, index + 1} /\ index' <= telemetryCount
    BY <1>a, <1>d, <1>e, IndexStep
  <2>6. Contract!Verify
    BY <1>b, <2>1, <2>2, <2>3, <2>4, <2>5 DEF Contract!Verify
  <2> QED BY <2>6
<1>4. CASE UNCHANGED fileBuffer /\ (largeTransferCompleted' => largeTransferCompleted)
  <2>1. UNCHANGED largeTransferCompleted
    BY <1>a, <1>c, <1>4, CompletedStays DEF ServedInv, Next
  <2>2. CASE UNCHANGED index
    BY <1>b, <1>4, <2>1, <2>2
  <2>3. CASE WindowPoint /\ index < NumSamples /\ index' = index + 1
    <3>1. index < telemetryCount
      BY <1>a, <1>d, <2>3
    <3>2. Contract!Acknowledge
      BY <1>b, <1>4, <2>1, <2>3, <3>1 DEF Contract!Acknowledge
    <3> QED BY <3>2
  <2> QED
    BY <1>a, <2>2, <2>3, IndexStep
<1>5. CASE ReceiveEnd
  BY <1>4, <1>5 DEF ReceiveEnd, transferVars
<1> QED
  BY <1>a, <1>1, <1>2, <1>3, <1>4, <1>5, ClientTransferStep

\* The two programs together keep the contract: nothing is acknowledged before it
\* is counted, nothing is counted between the first chunk and the confirmation,
\* the payload comes at its count and is confirmed only when verified, and the
\* server agrees to part last, and after all of it.
THEOREM SessionKeepsContract ==
  ASSUME TransferInTime
  PROVE  Spec => ImplementsContract
<1>1. Init => Contract!Init
  <2> SUFFICES ASSUME Init
               PROVE  Contract!Init
    OBVIOUS
  <2>1. groundPhase = "open"
    BY DEF Init, ServerInit, groundPhase
  <2> QED
    BY <2>1, EmptySeq DEF Init, ServerInit, ClientInit, Contract!Init
<1>2. ServedInv /\ TransferConfirmed' /\ [Next]_vars => [Contract!Next]_Contract!contractVars
  <2> SUFFICES ASSUME ServedInv, TransferConfirmed', [Next]_vars
               PROVE  [Contract!Next]_Contract!contractVars
    OBVIOUS
  <2>1. CASE ServerStep
    BY <2>1, ServerKeepsContract DEF ServerStep
  <2>2. CASE ClientStep
    BY <2>2, ClientKeepsContract
  <2>3. CASE LinkStep \/ Terminated \/ UNCHANGED vars
    <3>1. UNCHANGED serverVars /\ UNCHANGED clientVars
      BY <2>3 DEF LinkStep, Terminated, vars
    <3>2. UNCHANGED Contract!contractVars
      BY <3>1 DEF Contract!contractVars, serverVars, telemetryVars, exchangeVars,
                  clientVars, windowVars, transferVars, groundPhase
    <3> QED BY <3>2
  <2> QED
    BY <2>1, <2>2, <2>3 DEF Next
<1> QED
  BY <1>1, <1>2, ServedInvariant, SessionTransferConfirmed, PTL
     DEF Spec, ImplementsContract, Contract!Spec

(***************************************************************************)
(* Each side waiting for the other.                                        *)
(***************************************************************************)
NoResponses == \A k \in DOMAIN toServer : toServer[k].type \notin Response

\* What CrossWait leads to and nothing leads out of: the server is in a loop that
\* no response will end, or has given up, and so is the client.
Wedged ==
  /\ sPc \in {"sendCommand", "commandAck", "sendRequest", "statusResponse",
              "closing", "done"}
  /\ sState # "ACTIVE"
  /\ cPc \in {"telemetry", "telemetryAck", "close", "done"}
  /\ exitCode # "0"
  /\ NoResponses
  /\ NoAcks

\* The client repeats its sample, which is no response, until it fails.
LEMMA ClientStaysWedged ==
  ASSUME FullInv, Wedged, ClientNext, UNCHANGED serverVars
  PROVE  Wedged'
<1>a. NetTypeOK /\ ClientStepKind
  BY ClientExchangeStep DEF FullInv, SessionInv, ClientStepKind
<1>b. NoAcks'
  BY <1>a, ClientKeepsNoAcks DEF Wedged
<1>1. toClient # <<>> => Head(toClient).type # "TELEMETRY_ACK"
  BY <1>a, TailQueue DEF Wedged, NoAcks, NetTypeOK
<1>2. SendTelemetry \/ MissTelemetryAck \/ Close
  <2>1. ~ReceiveTelemetryAck
    BY <1>1 DEF ReceiveTelemetryAck, ClientGets, ClientReceives, clientIncoming
  <2> QED
    BY <2>1 DEF Wedged, ClientNext, StartupFails, Connect, ConnectFails,
       SendConnectRequest, ReceiveConnectAck, MissConnectAck, NoOptionalMessage,
       OptionalReceiveFails, IgnoreOptionalMessage, ReceiveCommand, SendCommandAck,
       ReceiveDataRequest, SendStatus, ReceiveStart, ReceiveChunk, ReceiveEnd,
       TransferReceiveFails, SendTransferStatus, TransferStatusFails, SendDisconnect,
       AwaitFinalAck
<1>3. cPc' \in {"telemetry", "telemetryAck", "close", "done"} /\ exitCode' # "0"
  BY <1>2 DEF SendTelemetry, MissTelemetryAck, Close, NextClientSend, NextClientReceive,
              Fail, Wedged
<1>4. NoResponses'
  <2>1. CASE UNCHANGED toServer
    BY <2>1 DEF Wedged, NoResponses
  <2>2. CASE ClientResponds
    BY <2>2 DEF ClientResponds, Wedged
  <2>3. CASE ClientSendsOther
    BY <1>a, <2>3, ClientAppends DEF ClientSendsOther, Wedged, NoResponses
  <2> QED
    BY <1>a, <2>1, <2>2, <2>3
       DEF ClientStepKind, ClientMoves, ClientTakesAck, ClientTakesRequest
<1> QED
  BY <1>b, <1>3, <1>4 DEF Wedged, serverVars

\* The server repeats its request, which is no acknowledgement, until it gives up.
LEMMA ServerStaysWedged ==
  ASSUME SessionInv, StateAtPoint, Wedged, ServerNext, UNCHANGED clientVars
  PROVE  Wedged'
<1> USE DEF ServerGoto, GiveUp, NextSend, NextReceive, netVars
<1>a. NetTypeOK /\ responseSequence \in Nat /\ command \in Nat
  BY DEF SessionInv, ServerTypeOK, Command, AdjustHeading, InitiateTransfer
<1>b. toServer # <<>> => Head(toServer).type \notin Response
  BY <1>a, TailQueue DEF Wedged, NoResponses, NetTypeOK
<1>c. NoResponses'
  BY <1>a, ServerOnlyTakes, ServerTakesQueue DEF Wedged, NoResponses
<1>d. cPc' \in {"telemetry", "telemetryAck", "close", "done"} /\ exitCode' # "0"
  BY DEF Wedged, clientVars
<1>1. SendCommand \/ MissCommandAck \/ SendRequest \/ MissStatus \/ Shutdown
  <2>1. ~ReceiveCommandAck /\ ~ReceiveStatus
    BY <1>b DEF ReceiveCommandAck, ReceiveStatus, ServerGets, ServerReceives,
                serverIncoming, Response
  <2> QED
    BY <2>1 DEF Wedged, ServerNext, Listen, ListenFails, Accept, AcceptFails, Verify,
       VerifyFails, SendConnectAck, Reject, ReceiveTelemetry, ReceiveUnexpected,
       ReceiveDisconnect, ActiveReceiveFails, SendTelemetryAck, TelemetryAckFails,
       SendDisconnectAck, BeginTransfer, SendStart, SendChunk, SendEnd,
       TransferSendFails, ReceiveTransferStatus, MissTransferStatus
<1>2. /\ sPc' \in {"sendCommand", "commandAck", "sendRequest", "statusResponse",
                   "closing", "done"}
      /\ sState' # "ACTIVE"
  BY <1>1 DEF SendCommand, MissCommandAck, SendRequest, MissStatus, Shutdown, Wedged
<1>3. NoAcks'
  <2>1. CASE UNCHANGED toClient
    BY <2>1 DEF Wedged, NoAcks
  <2>2. ASSUME NEW packet \in Packet, packet.type # "TELEMETRY_ACK",
               toClient' = Append(toClient, packet)
        PROVE  NoAcks'
    BY <1>a, <2>2, AppendedQueue DEF NetTypeOK, Wedged, NoAcks
  <2>3. ASSUME NEW type \in {"COMMAND", "DATA_REQUEST"}, NEW arg \in Nat,
               ServerSends(makePacket(type, responseSequence, arg))
        PROVE  NoAcks'
    <3>1. makePacket(type, responseSequence, arg) \in Packet
      BY <1>a, PacketType DEF MessageType
    <3> QED
      BY <2>2, <2>3, <3>1 DEF ServerSends, makePacket
  <2>4. CASE SendCommand \/ SendRequest
    BY <1>a, <2>1, <2>3, <2>4 DEF SendCommand, SendRequest, ServerSendFails, NoPayload
  <2>5. CASE MissCommandAck \/ MissStatus \/ Shutdown
    BY <2>1, <2>5 DEF MissCommandAck, MissStatus, Shutdown, ServerMisses, ServerReceives,
                      ServerReceivesNothing, ServerCloses
  <2> QED
    BY <1>1, <2>4, <2>5
<1> QED
  BY <1>c, <1>d, <1>2, <1>3 DEF Wedged

\* The client waiting for TELEMETRY_ACK and the server for the answer to a request
\* is the end of the session, for any number of attempts: resending does not help,
\* and neither does the answer that is lost.
THEOREM CrossWaitEndsSession == Spec => CrossWaitIsFatal
<1>1. ServedInv /\ CrossWait => Wedged
  <2> SUFFICES ASSUME ServedInv, CrossWait
               PROVE  Wedged
    OBVIOUS
  <2>1. sState = "COMMAND_PROCESSING"
    BY StatesAtRows DEF CrossWait, ServedInv, StateAtPoint
  <2>2. exitCode = "running"
    BY DEF CrossWait, ServedInv, PartingInv
  <2> QED
    BY <2>1, <2>2 DEF CrossWait, Carries, Wedged, NoResponses, NoAcks, Response
<1>2. ServedInv /\ Wedged /\ [Next]_vars => Wedged'
  <2> SUFFICES ASSUME ServedInv, Wedged, [Next]_vars
               PROVE  Wedged'
    OBVIOUS
  <2>1. CASE ServerStep
    BY <2>1, ServerStaysWedged DEF ServerStep, ServedInv, FullInv
  <2>2. CASE ClientStep
    BY <2>2, ClientStaysWedged DEF ClientStep, ServedInv
  <2>3. CASE LinkStep \/ Terminated \/ UNCHANGED vars
    <3>1. UNCHANGED serverVars /\ UNCHANGED clientVars
      BY <2>3 DEF LinkStep, Terminated, vars
    <3>2. /\ UNCHANGED toServer \/ toServer' = <<>>
          /\ UNCHANGED toClient \/ toClient' = <<>>
      BY <2>3 DEF LinkStep, ConnectionReset, Terminated, vars, netVars
    <3>3. NoResponses' /\ NoAcks'
      BY <3>2 DEF Wedged, NoResponses, NoAcks
    <3> QED
      BY <3>1, <3>3 DEF Wedged, serverVars, clientVars
  <2> QED
    BY <2>1, <2>2, <2>3 DEF Next
<1>3. Wedged => sState # "ACTIVE" /\ exitCode # "0"
  BY DEF Wedged
<1> QED
  BY <1>1, <1>2, <1>3, ServedInvariant, PTL DEF Spec, CrossWaitIsFatal

(***************************************************************************)
(* The handshake resent.                                                   *)
(***************************************************************************)
\* The session is lost, and the loop of main left or never entered.
NoSession == reset \/ sPc \in {"reject", "closing", "done"}

Unverified == sPc \in {"startup", "accept", "verify"}
Verified   == sPc \in {"connectAck", "active"}

\* The oldest n packets towards the server are CONNECT_REQUEST.
Requests(n) ==
  \A k \in 1 .. n : k \in DOMAIN toServer /\ toServer[k].type = "CONNECT_REQUEST"

\* And there is nothing else.
OnlyRequests(n) == DOMAIN toServer = 1 .. n /\ Requests(n)

\* One CONNECT_REQUEST more than verification takes is there, or was.  Nothing
\* leads out of it.
OneTooMany ==
  /\ telemetryCount = 0
  /\ \/ NoSession
     \/ Unverified /\ Requests(2)
     \/ Verified /\ Requests(1)

requestsSent == IF cPc = "connectAck" THEN cSendAttempt ELSE cSendAttempt - 1

\* Until the client is answered, the server has received no packet but the first
\* of those it has sent, and every one is a CONNECT_REQUEST.
HandshakeInv ==
  /\ cPc = "connect" =>
       /\ clientEnd = "none" /\ toServer = <<>>
       /\ sPc \in {"startup", "accept", "done"} /\ telemetryCount = 0
  /\ cPc \in {"connectRequest", "connectAck"} =>
       /\ telemetryCount = 0 /\ cSendAttempt > 0
       /\ \/ NoSession
          \/ Unverified /\ OnlyRequests(requestsSent)
          \/ Verified /\ requestsSent > 0 /\ OnlyRequests(requestsSent - 1)

\* A connection that was reset stays so.
LEMMA ServerKeepsReset ==
  ASSUME ServerNext, reset
  PROVE  reset'
<1> USE DEF netVars, Ends, ServerSends, ServerSendFails, ServerSendsBulk,
            ServerBulkSendFails, ServerReceives, ServerReceivesNothing, ServerGets,
            ServerMisses
<1>1. CASE Listen \/ ListenFails \/ Accept \/ AcceptFails \/ Shutdown
  BY <1>1 DEF Listen, ListenFails, Accept, AcceptFails, Shutdown, ServerListens,
              ServerAccepts, ServerCloses
<1>2. CASE Verify \/ VerifyFails \/ SendConnectAck \/ Reject
  BY <1>2 DEF Verify, VerifyFails, SendConnectAck, Reject
<1>3. CASE ReceiveTelemetry \/ ReceiveUnexpected \/ ReceiveDisconnect
             \/ ActiveReceiveFails \/ SendTelemetryAck \/ TelemetryAckFails
             \/ SendDisconnectAck
  BY <1>3 DEF ReceiveTelemetry, ReceiveUnexpected, ReceiveDisconnect, ActiveReceiveFails,
              SendTelemetryAck, TelemetryAckFails, SendDisconnectAck
<1>4. CASE SendCommand \/ ReceiveCommandAck \/ MissCommandAck \/ SendRequest
             \/ ReceiveStatus \/ MissStatus
  BY <1>4 DEF SendCommand, ReceiveCommandAck, MissCommandAck, SendRequest, ReceiveStatus,
              MissStatus
<1>5. CASE BeginTransfer \/ SendStart \/ SendChunk \/ SendEnd \/ TransferSendFails
             \/ ReceiveTransferStatus \/ MissTransferStatus
  BY <1>5 DEF BeginTransfer, SendStart, SendChunk, SendEnd, TransferSendFails,
              ReceiveTransferStatus, MissTransferStatus
<1> QED
  BY <1>1, <1>2, <1>3, <1>4, <1>5 DEF ServerNext

LEMMA ClientKeepsReset ==
  ASSUME ClientNext, reset
  PROVE  reset'
<1> USE DEF netVars, Ends, ClientSends, ClientSendFails, ClientReceives, ClientGets,
            ClientReceivesNothing, ClientMisses, ClientReceiveFails, ClientSeesSilence
<1>1. CASE StartupFails \/ Connect \/ ConnectFails \/ SendConnectRequest
             \/ ReceiveConnectAck \/ MissConnectAck
  BY <1>1 DEF StartupFails, Connect, ConnectFails, SendConnectRequest, ReceiveConnectAck,
              MissConnectAck, ClientConnects, ClientConnectRefused
<1>2. CASE SendTelemetry \/ ReceiveTelemetryAck \/ MissTelemetryAck \/ NoOptionalMessage
             \/ OptionalReceiveFails \/ IgnoreOptionalMessage
  BY <1>2 DEF SendTelemetry, ReceiveTelemetryAck, MissTelemetryAck, NoOptionalMessage,
              OptionalReceiveFails, IgnoreOptionalMessage
<1>3. CASE ReceiveCommand \/ SendCommandAck \/ ReceiveDataRequest \/ SendStatus
  BY <1>3 DEF ReceiveCommand, SendCommandAck, ReceiveDataRequest, SendStatus, Answer
<1>4. CASE ReceiveStart \/ ReceiveChunk \/ ReceiveEnd \/ TransferReceiveFails
             \/ SendTransferStatus \/ TransferStatusFails
  BY <1>4 DEF ReceiveStart, ReceiveChunk, ReceiveEnd, TransferReceiveFails,
              SendTransferStatus, TransferStatusFails
<1>5. CASE SendDisconnect \/ AwaitFinalAck \/ Close
  BY <1>5 DEF SendDisconnect, AwaitFinalAck, Close, ClientCloses
<1> QED
  BY <1>1, <1>2, <1>3, <1>4, <1>5 DEF ClientNext

\* What the server does before it has counted a sample.
LEMMA ServerFirstSteps ==
  ASSUME ServerNext, NoSession \/ Unverified \/ Verified
  PROVE  \/ NoSession' /\ UNCHANGED telemetryCount
         \/ /\ UNCHANGED <<toServer, telemetryCount>>
            /\ (Unverified /\ Unverified') \/ (Verified /\ Verified')
         \/ /\ toServer # <<>> /\ toServer' = Tail(toServer)
            /\ UNCHANGED telemetryCount
            /\ sPc = "verify" /\ Verified'
         \/ /\ toServer # <<>> /\ Head(toServer).type \in {"TELEMETRY", "DISCONNECT"}
            /\ sPc = "active"
<1> USE DEF ServerGoto, GiveUp, NoSession, Unverified, Verified, netVars, Ends, telemetryVars
<1>1. CASE Listen \/ ListenFails \/ Accept \/ AcceptFails
  BY <1>1 DEF Listen, ListenFails, Accept, AcceptFails, ServerListens, ServerAccepts,
              ServerCloses
<1>2. CASE Verify
  BY <1>2 DEF Verify, ServerReceives
<1>3. CASE SendConnectAck
  BY <1>3 DEF SendConnectAck, ServerSends
<1>4. CASE VerifyFails \/ Reject \/ ReceiveUnexpected \/ ActiveReceiveFails \/ Shutdown
  BY <1>4 DEF VerifyFails, Reject, ReceiveUnexpected, ActiveReceiveFails, Shutdown
<1>5. CASE ReceiveTelemetry \/ ReceiveDisconnect
  BY <1>5 DEF ReceiveTelemetry, ReceiveDisconnect, ServerGets, ServerReceives, serverIncoming
<1>6. CASE reset
  <2>1. ~ReceiveTelemetry
    BY <1>6 DEF ReceiveTelemetry, ServerGets, ServerReceives
  <2> QED
    BY <1>6, <2>1, ServerKeepsReset, CountedInLoop
<1>7. CASE SendTelemetryAck \/ TelemetryAckFails \/ SendDisconnectAck \/ SendCommand
             \/ ReceiveCommandAck \/ MissCommandAck \/ SendRequest \/ ReceiveStatus
             \/ MissStatus
  BY <1>6, <1>7 DEF SendTelemetryAck, TelemetryAckFails, SendDisconnectAck, SendCommand,
     ReceiveCommandAck, MissCommandAck, SendRequest, ReceiveStatus, MissStatus
<1>8. CASE BeginTransfer \/ SendStart \/ SendChunk \/ SendEnd \/ TransferSendFails
             \/ ReceiveTransferStatus \/ MissTransferStatus
  BY <1>6, <1>8 DEF BeginTransfer, SendStart, SendChunk, SendEnd, TransferSendFails,
     ReceiveTransferStatus, MissTransferStatus
<1> QED
  BY <1>1, <1>2, <1>3, <1>4, <1>5, <1>6, <1>7, <1>8 DEF ServerNext

\* A request fewer is queued after one has been taken.
LEMMA TakenRequest ==
  ASSUME NetTypeOK, NEW n \in Nat, Requests(n),
         toServer # <<>>, toServer' = Tail(toServer)
  PROVE  /\ Requests(n - 1)'
         /\ OnlyRequests(n) => OnlyRequests(n - 1)' /\ n > 0
<1>1. PICK len \in Nat \ {0} : /\ DOMAIN toServer = 1 .. len
                               /\ DOMAIN toServer' = 1 .. len - 1
                               /\ \A k \in 1 .. len - 1 : toServer'[k] = toServer[k + 1]
  BY TailQueue DEF NetTypeOK
<1>2. ASSUME NEW k \in 1 .. n - 1
      PROVE  k \in DOMAIN toServer' /\ toServer'[k].type = "CONNECT_REQUEST"
  <2>1. k + 1 \in 1 .. n
    BY <1>2
  <2>2. k + 1 \in 1 .. len /\ toServer[k + 1].type = "CONNECT_REQUEST"
    BY <1>1, <2>1 DEF Requests
  <2>3. k \in 1 .. len - 1
    BY <1>2, <2>2
  <2> QED
    BY <1>1, <2>2, <2>3
<1>3. ASSUME 1 .. len = 1 .. n
      PROVE  len = n
  <2>1. len \in 1 .. n
    BY <1>3
  <2>2. n \in Nat \ {0}
    BY <2>1
  <2>3. n \in 1 .. len
    BY <1>3, <2>2
  <2> QED
    BY <2>1, <2>3
<1>4. Requests(n - 1)'
  BY <1>2 DEF Requests
<1>5. OnlyRequests(n) => n = len
  BY <1>1, <1>3 DEF OnlyRequests
<1> QED
  BY <1>1, <1>4, <1>5 DEF OnlyRequests

\* A verified server with a CONNECT_REQUEST ahead of everything else takes no sample.
LEMMA HeadIsRequest ==
  ASSUME NetTypeOK, toServer # <<>>, DOMAIN toServer = 1 .. 0 \/ Requests(1)
  PROVE  Head(toServer).type = "CONNECT_REQUEST"
<1>1. PICK len \in Nat \ {0} : DOMAIN toServer = 1 .. len /\ Head(toServer) = toServer[1]
  BY TailQueue DEF NetTypeOK
<1> QED
  BY <1>1 DEF Requests

\* The server takes one of the two, and refuses the other.
LEMMA ServerKeepsOneTooMany ==
  ASSUME SessionInv, OneTooMany, ServerNext
  PROVE  OneTooMany'
<1>a. NetTypeOK /\ telemetryCount = 0 /\ (NoSession \/ Unverified \/ Verified)
  BY DEF SessionInv, OneTooMany
<1>1. CASE NoSession' /\ UNCHANGED telemetryCount
  BY <1>a, <1>1 DEF OneTooMany
<1>2. CASE /\ ~NoSession
           /\ UNCHANGED <<toServer, telemetryCount>>
           /\ (Unverified /\ Unverified') \/ (Verified /\ Verified')
  <2>1. ~(Unverified /\ Verified)
    BY DEF Unverified, Verified
  <2>2. Requests(1)' = Requests(1) /\ Requests(2)' = Requests(2)
    BY <1>2 DEF Requests
  <2> QED
    BY <1>a, <1>2, <2>1, <2>2 DEF OneTooMany
<1>3. CASE /\ ~NoSession
           /\ toServer # <<>> /\ toServer' = Tail(toServer)
           /\ UNCHANGED telemetryCount
           /\ sPc = "verify" /\ Verified'
  <2>1. Requests(2)
    BY <1>3 DEF OneTooMany, Unverified, Verified
  <2>2. Requests(2 - 1)'
    BY <1>a, <1>3, <2>1, TakenRequest
  <2>3. Requests(1)'
    BY <2>2
  <2> QED
    BY <1>a, <1>3, <2>3 DEF OneTooMany
<1>4. CASE /\ ~NoSession
           /\ toServer # <<>> /\ Head(toServer).type \in {"TELEMETRY", "DISCONNECT"}
           /\ sPc = "active"
  <2>1. Requests(1)
    BY <1>4 DEF OneTooMany, Unverified, Verified
  <2> QED
    BY <1>a, <1>4, <2>1, HeadIsRequest
<1>5. CASE NoSession
  <2>1. CASE reset
    <3>1. ~ReceiveTelemetry
      BY <2>1 DEF ReceiveTelemetry, ServerGets, ServerReceives
    <3> QED
      BY <1>a, <2>1, <3>1, ServerKeepsReset, CountedInLoop DEF OneTooMany, NoSession
  <2>2. CASE sPc \in {"reject", "closing", "done"}
    <3>1. ~Verified /\ ~Unverified /\ sPc # "verify" /\ sPc # "active"
      BY <2>2 DEF Verified, Unverified
    <3> QED
      BY <1>1, <1>a, <3>1, ServerFirstSteps
  <2> QED
    BY <1>5, <2>1, <2>2 DEF NoSession
<1> QED
  BY <1>a, <1>1, <1>2, <1>3, <1>4, <1>5, ServerFirstSteps

\* The client sends behind what it has sent.
LEMMA ClientKeepsOneTooMany ==
  ASSUME FullInv, OneTooMany, ClientNext, UNCHANGED serverVars
  PROVE  OneTooMany'
<1>a. NetTypeOK /\ ClientStepKind
  BY ClientExchangeStep DEF FullInv, SessionInv, ClientStepKind
<1>b. /\ UNCHANGED <<sPc, telemetryCount>>
      /\ NoSession => NoSession'
      /\ Unverified => Unverified'
      /\ Verified => Verified'
  BY ClientKeepsReset DEF serverVars, telemetryVars, NoSession, Unverified, Verified
<1>1. ASSUME NEW n \in Nat, Requests(n)
      PROVE  Requests(n)'
  <2>1. CASE UNCHANGED toServer
    BY <1>1, <2>1 DEF Requests
  <2>2. CASE \E packet \in Packet : toServer' = Append(toServer, packet)
    <3>1. PICK len \in Nat : /\ DOMAIN toServer = 1 .. len
                             /\ DOMAIN toServer' = 1 .. len + 1
                             /\ \A k \in 1 .. len : toServer'[k] = toServer[k]
      BY <1>a, <2>2, ClientAppends
    <3>2. 1 .. len \subseteq 1 .. len + 1
      OBVIOUS
    <3> QED
      BY <1>1, <3>1, <3>2 DEF Requests
  <2> QED
    BY <1>a, <2>1, <2>2
       DEF ClientStepKind, ClientMoves, ClientTakesAck, ClientTakesRequest,
           ClientResponds, ClientSendsOther
<1>2. (Requests(1) => Requests(1)') /\ (Requests(2) => Requests(2)')
  BY <1>1
<1> QED
  BY <1>b, <1>2 DEF OneTooMany

\* The client has sent a number of requests.
LEMMA RequestsNumber ==
  ASSUME SessionInv, HandshakeInv, cPc \in {"connectRequest", "connectAck"}
  PROVE  requestsSent \in Nat
<1>1. cSendAttempt \in Nat \ {0}
  BY DEF SessionInv, ClientInv, ClientTypeOK, HandshakeInv
<1> QED
  BY <1>1 DEF requestsSent

\* The server takes nothing but the first request before it has answered it.
LEMMA ServerKeepsHandshake ==
  ASSUME SessionInv, HandshakeInv, ServerNext, UNCHANGED clientVars
  PROVE  HandshakeInv'
<1>a. NetTypeOK
  BY DEF SessionInv
<1>b. UNCHANGED <<cPc, cSendAttempt>> /\ requestsSent' = requestsSent
  BY DEF clientVars, clientLoopVars, requestsSent
<1>1. CASE cPc = "connect"
  <2>1. /\ clientEnd = "none" /\ toServer = <<>>
        /\ sPc \in {"startup", "accept", "done"} /\ telemetryCount = 0
    BY <1>1 DEF HandshakeInv
  <2>2. Listen \/ ListenFails \/ AcceptFails
    <3>1. ~Accept
      BY <2>1 DEF Accept, ServerAccepts
    <3> QED
      BY <2>1, <3>1
         DEF ServerNext, Verify, VerifyFails, SendConnectAck, Reject, ReceiveTelemetry,
             ReceiveUnexpected, ReceiveDisconnect, ActiveReceiveFails, SendTelemetryAck,
             TelemetryAckFails, SendDisconnectAck, Shutdown, SendCommand,
             ReceiveCommandAck, MissCommandAck, SendRequest, ReceiveStatus, MissStatus,
             BeginTransfer, SendStart, SendChunk, SendEnd, TransferSendFails,
             ReceiveTransferStatus, MissTransferStatus
  <2>3. /\ UNCHANGED <<clientEnd, toServer, telemetryCount>>
        /\ sPc' \in {"accept", "done"}
    BY <2>2 DEF Listen, ListenFails, AcceptFails, ServerListens, ServerCloses, ServerGoto,
                telemetryVars
  <2> QED
    BY <1>b, <1>1, <2>1, <2>3 DEF HandshakeInv
<1>2. CASE cPc \in {"connectRequest", "connectAck"}
  <2>n. PICK n \in Nat : n = requestsSent
    BY <1>2, RequestsNumber
  <2>a. /\ telemetryCount = 0 /\ cSendAttempt > 0
        /\ \/ NoSession
           \/ Unverified /\ OnlyRequests(n)
           \/ Verified /\ n > 0 /\ OnlyRequests(n - 1)
    BY <1>2, <2>n DEF HandshakeInv
  <2>b. SUFFICES /\ telemetryCount' = 0
                 /\ \/ NoSession'
                    \/ Unverified' /\ OnlyRequests(n)'
                    \/ Verified' /\ n > 0 /\ OnlyRequests(n - 1)'
    BY <1>b, <1>2, <2>n, <2>a DEF HandshakeInv, OnlyRequests, Requests
  <2>1. CASE NoSession' /\ UNCHANGED telemetryCount
    BY <2>a, <2>1
  <2>2. CASE NoSession
    <3>1. OneTooMany'
      BY <2>a, <2>2, ServerKeepsOneTooMany DEF OneTooMany
    <3>2. CASE reset
      <4>1. ~ReceiveTelemetry
        BY <3>2 DEF ReceiveTelemetry, ServerGets, ServerReceives
      <4> QED
        BY <2>1, <3>2, <4>1, ServerKeepsReset, CountedInLoop DEF NoSession
    <3>3. CASE sPc \in {"reject", "closing", "done"}
      <4>1. ~Verified /\ ~Unverified /\ sPc # "verify" /\ sPc # "active"
        BY <3>3 DEF Verified, Unverified
      <4> QED
        BY <2>1, <2>2, <4>1, ServerFirstSteps
    <3> QED
      BY <2>2, <3>2, <3>3 DEF NoSession
  <2>3. CASE /\ ~NoSession
             /\ UNCHANGED <<toServer, telemetryCount>>
             /\ (Unverified /\ Unverified') \/ (Verified /\ Verified')
    <3>1. ~(Unverified /\ Verified)
      BY DEF Unverified, Verified
    <3>2. OnlyRequests(n) => OnlyRequests(n)'
      BY <2>3 DEF OnlyRequests, Requests
    <3>3. OnlyRequests(n - 1) => OnlyRequests(n - 1)'
      BY <2>3 DEF OnlyRequests, Requests
    <3> QED
      BY <2>a, <2>3, <3>1, <3>2, <3>3
  <2>4. CASE /\ ~NoSession
             /\ toServer # <<>> /\ toServer' = Tail(toServer)
             /\ UNCHANGED telemetryCount
             /\ sPc = "verify" /\ Verified'
    <3>1. OnlyRequests(n) /\ Requests(n)
      BY <2>a, <2>4 DEF Unverified, Verified, OnlyRequests
    <3>2. OnlyRequests(n - 1)' /\ n > 0
      BY <1>a, <2>4, <3>1, TakenRequest
    <3> QED
      BY <2>a, <2>4, <3>2
  <2>5. CASE /\ ~NoSession
             /\ toServer # <<>> /\ Head(toServer).type \in {"TELEMETRY", "DISCONNECT"}
             /\ sPc = "active"
    <3>1. DOMAIN toServer = 1 .. n - 1 /\ Requests(n - 1)
      BY <2>a, <2>5 DEF Unverified, Verified, OnlyRequests
    <3>2. PICK len \in Nat \ {0} : DOMAIN toServer = 1 .. len
      BY <1>a, <2>5, TailQueue DEF NetTypeOK
    <3>3. 1 \in 1 .. n - 1
      <4>1. 1 \in 1 .. len
        BY <3>2
      <4> QED
        BY <3>1, <3>2, <4>1
    <3>4. Requests(1)
      BY <3>1, <3>3 DEF Requests
    <3> QED
      BY <1>a, <2>5, <3>4, HeadIsRequest
  <2> QED
    BY <2>a, <2>1, <2>2, <2>3, <2>4, <2>5, ServerFirstSteps
<1>3. CASE cPc \notin {"connect", "connectRequest", "connectAck"}
  BY <1>b, <1>3 DEF HandshakeInv
<1> QED
  BY <1>1, <1>2, <1>3

\* The client does not go back to the handshake.
LEMMA HandshakeOnce ==
  ASSUME ClientNext, cPc \notin {"connect", "connectRequest", "connectAck"}
  PROVE  cPc' \notin {"connect", "connectRequest", "connectAck"}
<1> USE DEF NextClientSend, NextClientReceive, Fail, WindowCloses
<1>1. CASE SendTelemetry \/ ReceiveTelemetryAck \/ MissTelemetryAck
  BY <1>1 DEF SendTelemetry, ReceiveTelemetryAck, MissTelemetryAck
<1>2. CASE NoOptionalMessage \/ OptionalReceiveFails \/ IgnoreOptionalMessage
             \/ ReceiveCommand \/ ReceiveDataRequest
  BY <1>2 DEF NoOptionalMessage, OptionalReceiveFails, IgnoreOptionalMessage,
              ReceiveCommand, ReceiveDataRequest
<1>3. CASE SendCommandAck \/ SendStatus
  BY <1>3 DEF SendCommandAck, SendStatus, Answer
<1>4. CASE ReceiveStart \/ ReceiveChunk \/ ReceiveEnd \/ TransferReceiveFails
             \/ SendTransferStatus \/ TransferStatusFails
  BY <1>4 DEF ReceiveStart, ReceiveChunk, ReceiveEnd, TransferReceiveFails,
              SendTransferStatus, TransferStatusFails
<1>5. CASE SendDisconnect \/ AwaitFinalAck \/ Close
  BY <1>5 DEF SendDisconnect, AwaitFinalAck, Close
<1> QED
  BY <1>1, <1>2, <1>3, <1>4, <1>5
     DEF ClientNext, StartupFails, Connect, ConnectFails, SendConnectRequest,
         ReceiveConnectAck, MissConnectAck

\* A request more is queued after one has been sent.
LEMMA SentRequest ==
  ASSUME NetTypeOK, NEW n \in Nat, OnlyRequests(n), NEW packet \in Packet,
         packet.type = "CONNECT_REQUEST", toServer' = Append(toServer, packet)
  PROVE  OnlyRequests(n + 1)'
<1>1. PICK len \in Nat : /\ DOMAIN toServer = 1 .. len
                         /\ DOMAIN toServer' = 1 .. len + 1
                         /\ \A k \in 1 .. len : toServer'[k] = toServer[k]
                         /\ toServer'[len + 1] = packet
  BY ClientAppends
<1>2. len = n
  <2>1. 1 .. len = 1 .. n
    BY <1>1 DEF OnlyRequests
  <2>2. ~(n < len) /\ ~(len < n)
    <3>1. n < len => len \in 1 .. n
      BY <2>1
    <3>2. len < n => n \in 1 .. len
      BY <2>1
    <3> QED
      BY <3>1, <3>2
  <2> QED
    BY <2>2
<1>3. ASSUME NEW k \in 1 .. n + 1
      PROVE  toServer'[k].type = "CONNECT_REQUEST"
  <2>1. CASE k \in 1 .. n
    BY <1>1, <1>2, <2>1 DEF OnlyRequests, Requests
  <2>2. CASE k = n + 1
    BY <1>1, <1>2, <2>2
  <2>3. k \in 1 .. n \/ k = n + 1
    BY <1>3
  <2> QED
    BY <2>1, <2>2, <2>3
<1> QED
  BY <1>1, <1>2, <1>3 DEF OnlyRequests, Requests

\* Until it is answered, the client sends nothing else.
LEMMA ClientKeepsHandshake ==
  ASSUME SessionInv, HandshakeInv, ClientNext, UNCHANGED serverVars
  PROVE  HandshakeInv'
<1>a. NetTypeOK /\ cSendAttempt \in Nat
  BY DEF SessionInv, ClientInv, ClientTypeOK
<1>b. /\ UNCHANGED <<sPc, telemetryCount>>
      /\ NoSession => NoSession'
      /\ Unverified' = Unverified
      /\ Verified' = Verified
  BY ClientKeepsReset DEF serverVars, telemetryVars, NoSession, Unverified, Verified
<1>1. CASE StartupFails \/ ReceiveConnectAck
  BY <1>1 DEF StartupFails, ReceiveConnectAck, Fail, HandshakeInv
<1>2. CASE Connect
  <2>1. /\ cPc = "connect" /\ cPc' = "connectRequest"
        /\ cSendAttempt' = 1 /\ UNCHANGED toServer
    BY <1>2 DEF Connect, ClientConnects
  <2>2. toServer' = <<>> /\ telemetryCount = 0 /\ (NoSession \/ Unverified)
    BY <2>1 DEF HandshakeInv, NoSession, Unverified
  <2>3. requestsSent' = 0
    BY <2>1 DEF requestsSent
  <2>4. OnlyRequests(0)'
    BY <2>2 DEF OnlyRequests, Requests
  <2> QED
    BY <1>b, <2>1, <2>2, <2>3, <2>4 DEF HandshakeInv
<1>3. CASE ConnectFails
  <2>1. cPc = "connect" /\ cPc' \in {"connect", "close"} /\ UNCHANGED <<toServer, clientEnd>>
    BY <1>3 DEF ConnectFails, ClientConnectRefused, NextClientSend, Fail, netVars
  <2> QED
    BY <1>b, <2>1 DEF HandshakeInv
<1>4. CASE SendConnectRequest
  <2>1. /\ cPc = "connectRequest" /\ requestsSent = cSendAttempt - 1
        /\ telemetryCount = 0 /\ cSendAttempt > 0
    BY <1>4 DEF SendConnectRequest, requestsSent, HandshakeInv
  <2>2. CASE NoSession
    <3>1. \/ cPc' \in {"connectRequest", "connectAck"}
             /\ cSendAttempt' \in {cSendAttempt, cSendAttempt + 1}
          \/ cPc' = "close"
      BY <1>4 DEF SendConnectRequest, NextClientSend, Fail, clientLoopVars
    <3>2. cSendAttempt' > 0 \/ cPc' = "close"
      BY <1>a, <2>1, <3>1
    <3> QED
      BY <1>b, <2>1, <2>2, <3>1, <3>2 DEF HandshakeInv
  <2>3. CASE ~NoSession
    <3> DEFINE packet == makePacket("CONNECT_REQUEST", sequenceNumber, NoPayload)
    <3>1. /\ toServer' = Append(toServer, packet)
          /\ cPc' = "connectAck" /\ UNCHANGED cSendAttempt
      BY <1>4, <2>3 DEF SendConnectRequest, ClientSends, ClientSendFails, NoSession,
                        clientLoopVars
    <3>2. packet \in Packet /\ packet.type = "CONNECT_REQUEST"
      <4>1. sequenceNumber \in Nat
        BY DEF SessionInv, ClientInv, ClientTypeOK
      <4> QED
        BY <4>1, PacketType DEF MessageType, NoPayload, makePacket
    <3> HIDE DEF packet
    <3>3. PICK n \in Nat : n = requestsSent
      BY <2>1, RequestsNumber
    <3>4. requestsSent' = n + 1
      BY <1>a, <2>1, <3>1, <3>3 DEF requestsSent
    <3>5. CASE Unverified /\ OnlyRequests(n)
      <4>1. OnlyRequests(n + 1)'
        BY <1>a, <3>1, <3>2, <3>5, SentRequest
      <4> QED
        BY <1>b, <2>1, <3>1, <3>4, <3>5, <4>1 DEF HandshakeInv, OnlyRequests, Requests
    <3>6. CASE Verified /\ n > 0 /\ OnlyRequests(n - 1)
      <4>1. OnlyRequests((n - 1) + 1)'
        BY <1>a, <3>1, <3>2, <3>6, SentRequest
      <4>2. OnlyRequests((n + 1) - 1)' /\ n + 1 > 0
        BY <4>1
      <4> QED
        BY <1>b, <2>1, <3>1, <3>4, <3>6, <4>2 DEF HandshakeInv, OnlyRequests, Requests
    <3> QED
      BY <2>1, <2>3, <3>3, <3>5, <3>6 DEF HandshakeInv
  <2> QED
    BY <2>2, <2>3
<1>5. CASE MissConnectAck
  <2>1. cPc = "connectAck" /\ UNCHANGED toServer
    BY <1>5 DEF MissConnectAck, ClientMisses, ClientReceivesNothing, ClientReceives, netVars
  <2>2. \/ cPc' = "connectAck" /\ UNCHANGED cSendAttempt
        \/ cPc' = "connectRequest" /\ cSendAttempt' = cSendAttempt + 1
        \/ cPc' = "close"
    BY <1>5 DEF MissConnectAck, NextClientReceive, NextClientSend, Fail
  <2>3. cSendAttempt > 0
    BY <2>1 DEF HandshakeInv
  <2>4. \/ cPc' = "close"
        \/ /\ cPc' \in {"connectRequest", "connectAck"}
           /\ requestsSent' = requestsSent /\ cSendAttempt' > 0
    BY <1>a, <2>1, <2>2, <2>3 DEF requestsSent
  <2> QED
    BY <1>b, <2>1, <2>4 DEF HandshakeInv, OnlyRequests, Requests
<1>6. CASE cPc \notin {"connect", "connectRequest", "connectAck"}
  <2>1. cPc' \notin {"connect", "connectRequest", "connectAck"}
    BY <1>6, HandshakeOnce
  <2> QED
    BY <2>1 DEF HandshakeInv
<1> QED
  BY <1>1, <1>2, <1>3, <1>4, <1>5, <1>6
     DEF ClientNext, SendTelemetry, ReceiveTelemetryAck, MissTelemetryAck,
         NoOptionalMessage, OptionalReceiveFails, IgnoreOptionalMessage, ReceiveCommand,
         SendCommandAck, ReceiveDataRequest, SendStatus, ReceiveStart, ReceiveChunk,
         ReceiveEnd, TransferReceiveFails, SendTransferStatus, TransferStatusFails,
         SendDisconnect, AwaitFinalAck, Close

\* A resent CONNECT_REQUEST ends the session before its first sample, whatever both
\* sides do from then on: the server has taken one and the session loop refuses the
\* other, or the server is out of the session already.
THEOREM HandshakeRetryEndsSession == Spec => HandshakeRetryIsFatal
<1>1. Init => HandshakeInv
  BY DEF Init, NetInit, ServerInit, ClientInit, HandshakeInv
<1>2. ServedInv /\ HandshakeInv /\ [Next]_vars => HandshakeInv'
  <2> SUFFICES ASSUME ServedInv, HandshakeInv, [Next]_vars
               PROVE  HandshakeInv'
    OBVIOUS
  <2>a. SessionInv
    BY DEF ServedInv, FullInv
  <2>1. CASE ServerStep
    BY <2>a, <2>1, ServerKeepsHandshake DEF ServerStep
  <2>2. CASE ClientStep
    BY <2>a, <2>2, ClientKeepsHandshake DEF ClientStep
  <2>3. CASE LinkStep
    <3>1. /\ clientEnd # "none" /\ reset'
          /\ UNCHANGED <<cPc, cSendAttempt, telemetryCount>>
      BY <2>3 DEF LinkStep, ConnectionReset, serverVars, clientVars, clientLoopVars,
                  telemetryVars
    <3> QED
      BY <3>1 DEF HandshakeInv, NoSession
  <2>4. CASE Terminated \/ UNCHANGED vars
    BY <2>4 DEF Terminated, vars, netVars, serverVars, clientVars, clientLoopVars,
                telemetryVars, HandshakeInv, NoSession, Unverified, Verified,
                OnlyRequests, Requests, requestsSent
  <2> QED
    BY <2>1, <2>2, <2>3, <2>4 DEF Next
<1>3. ServedInv /\ HandshakeInv => (cPc = "connectAck" /\ cSendAttempt > 1 => OneTooMany)
  <2> SUFFICES ASSUME ServedInv, HandshakeInv, cPc = "connectAck", cSendAttempt > 1
               PROVE  OneTooMany
    OBVIOUS
  <2>1. PICK n \in Nat : n = requestsSent
    BY RequestsNumber DEF ServedInv, FullInv
  <2>2. n > 1
    BY <2>1 DEF requestsSent
  <2>3. 1 \in 1 .. n - 1 /\ 1 \in 1 .. n /\ 2 \in 1 .. n
    BY <2>2
  <2>4. \A k \in 1 .. 2 : k = 1 \/ k = 2
    OBVIOUS
  <2> QED
    BY <2>1, <2>3, <2>4 DEF HandshakeInv, OneTooMany, OnlyRequests, Requests
<1>4. ServedInv /\ OneTooMany /\ [Next]_vars => OneTooMany'
  <2> SUFFICES ASSUME ServedInv, OneTooMany, [Next]_vars
               PROVE  OneTooMany'
    OBVIOUS
  <2>a. FullInv /\ SessionInv
    BY DEF ServedInv, FullInv
  <2>1. CASE ServerStep
    BY <2>a, <2>1, ServerKeepsOneTooMany DEF ServerStep
  <2>2. CASE ClientStep
    BY <2>a, <2>2, ClientKeepsOneTooMany DEF ClientStep
  <2>3. CASE LinkStep
    BY <2>3 DEF LinkStep, ConnectionReset, OneTooMany, NoSession, serverVars, telemetryVars
  <2>4. CASE Terminated \/ UNCHANGED vars
    BY <2>4 DEF Terminated, vars, netVars, serverVars, telemetryVars, OneTooMany,
                NoSession, Unverified, Verified, Requests
  <2> QED
    BY <2>1, <2>2, <2>3, <2>4 DEF Next
<1>5. OneTooMany => telemetryCount = 0
  BY DEF OneTooMany
<1> QED
  BY <1>1, <1>2, <1>3, <1>4, <1>5, ServedInvariant, PTL DEF Spec, HandshakeRetryIsFatal

(***************************************************************************)
(* The session with a clock.                                               *)
(***************************************************************************)
\* Its steps are steps of Session; a tick is none.
LEMMA TimedStepIsStep ==
  ASSUME [TimedNext]_timedSessionVars
  PROVE  [Next]_vars
<1>1. TimedServerStep => ServerStep
  BY DEF TimedServerStep
<1>2. TimedClientStep => ClientStep
  BY DEF TimedClientStep
<1>3. TimedLinkStep => LinkStep
  BY DEF TimedLinkStep
<1>4. Tick => UNCHANGED vars
  BY DEF Tick
<1>5. UNCHANGED timedSessionVars => UNCHANGED vars
  BY DEF timedSessionVars
<1> QED
  BY <1>1, <1>2, <1>3, <1>4, <1>5 DEF TimedNext, Next

\* Whatever the waits, the sleeps and the lags: what every session guarantees, the
\* session with a clock guarantees.
LEMMA TimedSessionIsSession == TimedSpec => Spec
<1>1. TimedInit => Init
  BY DEF TimedInit
<1> QED
  BY <1>1, TimedStepIsStep, PTL DEF TimedSpec, Spec

\* The queue towards the server after a step of the client, and of the server.
LEMMA ClientOnlyAdds ==
  ASSUME FullInv, ClientNext
  PROVE  \/ UNCHANGED toServer
         \/ \E packet \in Packet : toServer' = Append(toServer, packet)
  BY ClientExchangeStep DEF FullInv, ClientMoves, ClientTakesAck, ClientTakesRequest,
     ClientResponds, ClientSendsOther

\* The clocks of the two processes, and an age for every packet.
ClocksOK ==
  /\ sWait \in 0 .. SocketTimeout /\ sLag \in 0 .. ServerLag
  /\ cWait \in Nat /\ cLag \in 0 .. ClientLag
  /\ stamp \in 0 .. MaxDrift + 1
  /\ ages \in Seq(0 .. MaxDrift + 1)
  /\ Len(ages) = Len(toServer)

\* A tick makes what is waited for, and what is in flight, older.
LEMMA TickClocks ==
  ASSUME ClocksOK, Tick
  PROVE  ClocksOK'
<1>a. /\ SocketTimeout \in Nat /\ MaxDrift \in Nat /\ ServerLag \in Nat /\ ClientLag \in Nat
  BY TimeAssumption
<1>1. sWait' \in 0 .. SocketTimeout
  BY <1>a DEF Tick, ClocksOK, ServerBlocked
<1>2. sLag' \in 0 .. ServerLag
  BY <1>a DEF Tick, ClocksOK
<1>3. cWait' \in Nat
  BY <1>a DEF Tick, ClocksOK
<1>4. cLag' \in 0 .. ClientLag
  BY <1>a DEF Tick, ClocksOK
<1>5. \A age \in 0 .. MaxDrift + 1 : Older(age) \in 0 .. MaxDrift + 1
  BY <1>a DEF Older
<1>6. stamp' \in 0 .. MaxDrift + 1
  BY <1>5 DEF Tick, ClocksOK
<1>7. ages' \in Seq(0 .. MaxDrift + 1) /\ Len(ages') = Len(ages)
  <2>1. PICK n \in Nat : /\ n = Len(ages) /\ DOMAIN ages = 1 .. n
                         /\ \A k \in 1 .. n : ages[k] \in 0 .. MaxDrift + 1
    BY LenProperties, ElementOfSeq DEF ClocksOK
  <2>2. ages' = [k \in 1 .. n |-> Older(ages[k])]
    BY <2>1 DEF Tick
  <2>3. ages' \in [1 .. n -> 0 .. MaxDrift + 1]
    BY <1>5, <2>1, <2>2
  <2>4. ages' \in Seq(0 .. MaxDrift + 1)
    BY <2>1, <2>3, SeqDef
  <2>5. DOMAIN ages' = 1 .. n /\ DOMAIN ages' = 1 .. Len(ages') /\ Len(ages') \in Nat
    BY <2>3, <2>4, LenProperties
  <2>6. Len(ages') = n
    BY <2>1, <2>5
  <2> QED
    BY <2>1, <2>4, <2>6
<1>8. toServer' = toServer
  BY DEF Tick, vars, netVars
<1> QED
  BY <1>1, <1>2, <1>3, <1>4, <1>6, <1>7, <1>8 DEF ClocksOK

\* Packets keep their ages when they are sent and received.
LEMMA StepClocks ==
  ASSUME FullInv, ClocksOK, TimedServerStep \/ TimedClientStep \/ TimedLinkStep
  PROVE  ClocksOK'
<1>a. /\ SocketTimeout \in Nat /\ MaxDrift \in Nat /\ ServerLag \in Nat /\ ClientLag \in Nat
  BY TimeAssumption
<1>b. /\ sWait \in 0 .. SocketTimeout /\ sLag \in 0 .. ServerLag
      /\ cWait \in Nat /\ cLag \in 0 .. ClientLag
      /\ stamp \in 0 .. MaxDrift + 1
      /\ ages \in Seq(0 .. MaxDrift + 1)
      /\ Len(ages) = Len(toServer)
  BY DEF ClocksOK
<1>c. toServer \in Seq(Packet) /\ Len(toServer) \in Nat
  BY LenProperties DEF FullInv, SessionInv, NetTypeOK
<1>1. CASE TimedServerStep
  <2>1. UNCHANGED toServer \/ (toServer # <<>> /\ toServer' = Tail(toServer))
    BY <1>1, ServerOnlyTakes DEF TimedServerStep, ServerStep, FullInv, ServerTakes
  <2>2. CASE UNCHANGED toServer
    <3>1. ages' = ages
      BY <1>1, <1>c, <2>2 DEF TimedServerStep
    <3> QED
      BY <1>1, <1>a, <1>b, <2>2, <3>1 DEF TimedServerStep, ClocksOK
  <2>3. CASE toServer # <<>> /\ toServer' = Tail(toServer)
    <3>1. Len(toServer') = Len(toServer) - 1
      BY <1>c, <2>3, HeadTailProperties
    <3>2. ages' = Tail(ages) /\ ages # <<>>
      BY <1>1, <1>b, <1>c, <2>3, <3>1, EmptySeq DEF TimedServerStep
    <3>3. ages' \in Seq(0 .. MaxDrift + 1) /\ Len(ages') = Len(ages) - 1
      BY <1>b, <3>2, HeadTailProperties
    <3> QED
      BY <1>1, <1>a, <1>b, <3>1, <3>3 DEF TimedServerStep, ClocksOK
  <2> QED
    BY <2>1, <2>2, <2>3
<1>2. CASE TimedClientStep
  <2>1. \/ UNCHANGED toServer
        \/ \E packet \in Packet : toServer' = Append(toServer, packet)
    BY <1>2, ClientOnlyAdds DEF TimedClientStep, ClientStep
  <2>2. stamp' \in 0 .. MaxDrift + 1
    BY <1>2, <1>a, <1>b DEF TimedClientStep
  <2>3. CASE UNCHANGED toServer
    <3>1. ages' = ages
      BY <1>2, <1>c, <2>3 DEF TimedClientStep
    <3> QED
      BY <1>2, <1>a, <1>b, <2>2, <2>3, <3>1 DEF TimedClientStep, ClocksOK
  <2>4. ASSUME NEW packet \in Packet, toServer' = Append(toServer, packet)
        PROVE  ClocksOK'
    <3>1. Len(toServer') = Len(toServer) + 1
      BY <1>c, <2>4, AppendProperties
    <3>2. PICK age \in 0 .. MaxDrift + 1 : ages' = Append(ages, age)
      BY <1>2, <1>a, <1>b, <1>c, <3>1 DEF TimedClientStep
    <3>3. ages' \in Seq(0 .. MaxDrift + 1) /\ Len(ages') = Len(ages) + 1
      BY <1>b, <3>2, AppendProperties
    <3> QED
      BY <1>2, <1>a, <1>b, <2>2, <3>1, <3>3 DEF TimedClientStep, ClocksOK
  <2> QED
    BY <2>1, <2>3, <2>4
<1>3. CASE TimedLinkStep
  <2>1. toServer' = <<>> /\ ages' = <<>>
    BY <1>3 DEF TimedLinkStep, LinkStep, ConnectionReset
  <2> QED
    BY <1>3, <1>b, <2>1, EmptySeq DEF TimedLinkStep, ClocksOK
<1> QED
  BY <1>1, <1>2, <1>3

\* With a clock too the loops stay within their limits, no wait of the server
\* outlasts SOCKET_TIMEOUT_MS, and every packet in flight to it has an age.
THEOREM TimedTypeCorrect == TimedSpec => []TimedTypeOK
<1>1. TimedInit => ClocksOK
  BY TimeAssumption, EmptySeq DEF TimedInit, Init, NetInit, ClocksOK
<1>2. FullInv /\ ClocksOK /\ [TimedNext]_timedSessionVars => ClocksOK'
  <2> SUFFICES ASSUME FullInv, ClocksOK, [TimedNext]_timedSessionVars
               PROVE  ClocksOK'
    OBVIOUS
  <2>1. CASE (Terminated /\ UNCHANGED timeVars) \/ UNCHANGED timedSessionVars
    BY <2>1 DEF Terminated, vars, netVars, timeVars, timedSessionVars, ClocksOK
  <2> QED
    BY <2>1, TickClocks, StepClocks DEF TimedNext
<1>3. FullInv /\ ClocksOK => TimedTypeOK
  BY DEF FullInv, SessionInv, ClientInv, TypeOK, ClocksOK, TimedTypeOK
<1>4. TimedSpec => []FullInv
  BY TimedSessionIsSession, FullInvariant, PTL
<1> QED
  BY <1>1, <1>2, <1>3, <1>4, PTL DEF TimedSpec
=============================================================================
