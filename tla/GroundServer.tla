----------------------------- MODULE GroundServer -----------------------------
(***************************************************************************)
(* The ground-control server (server_main.cpp, server_logic.cpp): a single *)
(* thread that serves one client and exits.  One action per step of main   *)
(* and of the exchanges it calls; every send and every receive is a step   *)
(* of its own, so the client runs in between.  sPc names the point that    *)
(* main, or the exchange it is in, has reached.                            *)
(***************************************************************************)
EXTENDS TcpStream, LargeTransfer

VARIABLES
  sPc,                \* control point
  sState,             \* state
  telemetryCount,     \* accepted telemetry packets
  samples,            \* history: the samples behind telemetryCount
  transferTriggered,  \* a large transfer has returned successfully
  responseSequence,   \* sequence number of the next new packet
  command,            \* commandText of the COMMAND in progress
  sendAttempt,        \* attempt of a sending loop; 1 outside
  recvAttempt,        \* attempt of a receiving loop; 1 outside
  chunkIndex          \* next chunk of the transfer; 0 outside

\* What receiving telemetry changes, and what only an exchange changes.
telemetryVars == <<telemetryCount, samples>>
loopVars      == <<sendAttempt, recvAttempt, chunkIndex>>
exchangeVars  == <<loopVars, command, transferTriggered>>

serverVars == <<sPc, sState, responseSequence, telemetryVars, exchangeVars>>

ServerPc == {"startup", "accept", "verify", "connectAck", "reject", "active",
             "telemetryAck", "sendCommand", "commandAck", "beginTransfer",
             "sendRequest", "statusResponse", "sendStart", "sendChunk",
             "sendEnd", "transferStatus", "disconnectAck", "closing", "done"}

ServerInit ==
  /\ sPc = "startup"
  /\ sState = "STARTUP"
  /\ telemetryCount = 0
  /\ samples = <<>>
  /\ transferTriggered = FALSE
  /\ responseSequence = 1
  /\ command = AdjustHeading
  /\ sendAttempt = 1
  /\ recvAttempt = 1
  /\ chunkIndex = 0

(***************************************************************************)
(* Steps shared by several actions.                                        *)
(***************************************************************************)
\* The check of transitionState never fails where it is called
\* (LegalTransitions), so only Shutdown repeats it.
ServerGoto(pc, state) == sPc' = pc /\ sState' = state

\* The session is left with ERROR_STATE, out of every loop.
GiveUp == /\ ServerGoto("closing", "ERROR_STATE")
          /\ sendAttempt' = 1
          /\ recvAttempt' = 1
          /\ chunkIndex' = 0

\* Variant: an exhausted loop returns to ACTIVE.
NextSend_BackToActive(pc) ==
  /\ sendAttempt' = IF sendAttempt < MaxRetransmissions THEN sendAttempt + 1 ELSE 1
  /\ recvAttempt' = 1
  /\ IF sendAttempt < MaxRetransmissions THEN ServerGoto(pc, sState)
                                        ELSE ServerGoto("active", "ACTIVE")
  /\ UNCHANGED chunkIndex

\* A sending loop goes to its next attempt, at pc, or has used the last one.
NextSend(pc) ==
  \/ /\ sendAttempt < MaxRetransmissions
     /\ sendAttempt' = sendAttempt + 1
     /\ recvAttempt' = 1
     /\ ServerGoto(pc, sState)
     /\ UNCHANGED chunkIndex
  \/ /\ sendAttempt = MaxRetransmissions
     /\ GiveUp

\* A receive that does not yield the expected message: the wait timed out,
\* the receive failed, or what came has another type and is dropped.
ServerMisses(expectedType) ==
  \/ ServerReceivesNothing
  \/ ServerReceives /\ serverIncoming.type # expectedType

ServerGets(expectedType) == ServerReceives /\ serverIncoming.type = expectedType

\* Variants: a wait that timed out is not counted; one attempt too many.
NextReceive_Uncounted == /\ ServerGoto(sPc, sState)
                         /\ UNCHANGED loopVars

NextReceive_OneMore == /\ recvAttempt <= MaxRetransmissions
                       /\ recvAttempt' = recvAttempt + 1
                       /\ ServerGoto(sPc, sState)
                       /\ UNCHANGED <<sendAttempt, chunkIndex>>

\* receiveExpectedMessageWithRetransmission has attempts left.
NextReceive == /\ recvAttempt < MaxRetransmissions
               /\ recvAttempt' = recvAttempt + 1
               /\ ServerGoto(sPc, sState)
               /\ UNCHANGED <<sendAttempt, chunkIndex>>

(***************************************************************************)
(* main: from startup to the end of verification.                          *)
(***************************************************************************)
Listen == /\ sPc = "startup"
          /\ ServerListens
          /\ ServerGoto("accept", "IDLE_LISTENING")
          /\ UNCHANGED <<telemetryVars, exchangeVars, responseSequence>>

\* WSAStartup, socket, bind or listen failed: return 1.
ListenFails == /\ sPc = "startup"
               /\ ServerCloses
               /\ ServerGoto("done", sState)
               /\ UNCHANGED <<telemetryVars, exchangeVars, responseSequence>>

Accept == /\ sPc = "accept"
          /\ ServerAccepts
          /\ ServerGoto("verify", "VERIFICATION")
          /\ UNCHANGED <<telemetryVars, exchangeVars, responseSequence>>

\* accept returned INVALID_SOCKET: return 1, in the state it was in.
AcceptFails == /\ sPc = "accept"
               /\ ServerCloses
               /\ ServerGoto("done", sState)
               /\ UNCHANGED <<telemetryVars, exchangeVars, responseSequence>>

\* The first packet.  validateActivePacket compares its timestamp with the
\* clock, and its aircraft id: it may accept the packet or refuse it.
Verify ==
  /\ sPc = "verify"
  /\ ServerReceives
  /\ \E packetValid \in BOOLEAN :
       ServerGoto(IF serverIncoming.type = "CONNECT_REQUEST" /\ packetValid
                  THEN "connectAck" ELSE "reject", sState)
  /\ UNCHANGED <<telemetryVars, exchangeVars, responseSequence>>

VerifyFails == /\ sPc = "verify"
               /\ ServerReceivesNothing
               /\ GiveUp
               /\ UNCHANGED <<telemetryVars, command, transferTriggered, responseSequence>>

SendConnectAck ==
  /\ sPc = "connectAck"
  /\ \/ /\ ServerSends(makePacket("CONNECT_ACK", responseSequence, NoPayload))
        /\ ServerGoto("active", "ACTIVE")
        /\ responseSequence' = responseSequence + 1
        /\ UNCHANGED loopVars
     \/ /\ ServerSendFails
        /\ GiveUp
        /\ UNCHANGED responseSequence
  /\ UNCHANGED <<telemetryVars, command, transferTriggered>>

\* The error packet of a refused first packet, of invalid telemetry or of an
\* unexpected type.  Whether it could be sent is ignored.
Reject ==
  /\ sPc = "reject"
  /\ \/ ServerSends(makePacket("ERROR_MESSAGE", responseSequence, NoPayload))
     \/ ServerSendFails
  /\ GiveUp
  /\ UNCHANGED <<telemetryVars, command, transferTriggered, responseSequence>>

(***************************************************************************)
(* The session loop of main.                                               *)
(***************************************************************************)
\* A TELEMETRY that validateActivePacket accepts is counted, before its
\* acknowledgement is sent.  Nothing tells a retransmission from a new sample.
ReceiveTelemetry ==
  /\ sPc = "active"
  /\ ServerGets("TELEMETRY")
  /\ telemetryCount' = telemetryCount + 1
  /\ samples' = Append(samples, serverIncoming.arg)
  /\ ServerGoto("telemetryAck", sState)
  /\ UNCHANGED <<exchangeVars, responseSequence>>

\* Variant: the loop drops what it does not expect.
ReceiveUnexpected_Dropped ==
  /\ sPc = "active"
  /\ ServerReceives
  /\ serverIncoming.type # "DISCONNECT"
  /\ UNCHANGED serverVars

\* Variant: telemetry is acknowledged before it is validated.
ReceiveUnexpected_Acknowledged ==
  /\ sPc = "active"
  /\ ServerReceives
  /\ serverIncoming.type # "DISCONNECT"
  /\ ServerGoto("telemetryAck", sState)
  /\ UNCHANGED <<telemetryVars, exchangeVars, responseSequence>>

\* An invalid TELEMETRY, or a type the loop does not expect.
ReceiveUnexpected ==
  /\ sPc = "active"
  /\ ServerReceives
  /\ serverIncoming.type # "DISCONNECT"
  /\ ServerGoto("reject", sState)
  /\ UNCHANGED <<telemetryVars, exchangeVars, responseSequence>>

ReceiveDisconnect ==
  /\ sPc = "active"
  /\ ServerGets("DISCONNECT")
  /\ ServerGoto("disconnectAck", "DISCONNECTING")
  /\ UNCHANGED <<telemetryVars, exchangeVars, responseSequence>>

\* SO_RCVTIMEO of 5 s, end of stream or error: fatal at once, no retry.
ActiveReceiveFails ==
  /\ sPc = "active"
  /\ ServerReceivesNothing
  /\ GiveUp
  /\ UNCHANGED <<telemetryVars, command, transferTriggered, responseSequence>>

\* The acknowledgement, and the exchange the new count triggers, if any.  The
\* exchanges check that state is ACTIVE, as it is here.
SendTelemetryAck ==
  /\ sPc = "telemetryAck"
  /\ ServerSends(makePacket("TELEMETRY_ACK", responseSequence, NoPayload))
  /\ responseSequence' = responseSequence + 1
  /\ \/ /\ shouldSendCommand(telemetryCount)
        /\ ServerGoto("sendCommand", "COMMAND_PROCESSING")
        /\ command' = AdjustHeading
     \/ /\ shouldRequestAdditionalStatus(telemetryCount)
        /\ ServerGoto("sendRequest", "COMMAND_PROCESSING")
        /\ UNCHANGED command
     \/ /\ shouldStartLargeTransfer(telemetryCount, transferTriggered)
        /\ ServerGoto("sendCommand", "COMMAND_PROCESSING")
        /\ command' = InitiateTransfer
     \/ /\ ~shouldSendCommand(telemetryCount)
        /\ ~shouldRequestAdditionalStatus(telemetryCount)
        /\ ~shouldStartLargeTransfer(telemetryCount, transferTriggered)
        /\ ServerGoto("active", sState)
        /\ UNCHANGED command
  /\ UNCHANGED <<telemetryVars, loopVars, transferTriggered>>

TelemetryAckFails ==
  /\ sPc = "telemetryAck"
  /\ ServerSendFails
  /\ GiveUp
  /\ UNCHANGED <<telemetryVars, command, transferTriggered, responseSequence>>

\* The answer to DISCONNECT; whether it could be sent is ignored.
SendDisconnectAck ==
  /\ sPc = "disconnectAck"
  /\ \/ ServerSends(makePacket("DISCONNECT", responseSequence, NoPayload))
     \/ ServerSendFails
  /\ ServerGoto("closing", sState)
  /\ UNCHANGED <<telemetryVars, exchangeVars, responseSequence>>

\* After the loop: both sockets are closed and state goes to SHUTDOWN where
\* that is a legal transition.
Shutdown ==
  /\ sPc = "closing"
  /\ ServerCloses
  /\ ServerGoto("done", IF isValidTransition(sState, "SHUTDOWN")
                        THEN "SHUTDOWN" ELSE sState)
  /\ UNCHANGED <<telemetryVars, exchangeVars, responseSequence>>

(***************************************************************************)
(* sendCommandAndAwaitAck: the same packet up to MaxRetransmissions times, *)
(* each followed by up to MaxRetransmissions receives.  The text of the    *)
(* acknowledgement is not looked at.                                       *)
(***************************************************************************)
SendCommand ==
  /\ sPc = "sendCommand"
  /\ \/ /\ ServerSends(makePacket("COMMAND", responseSequence, command))
        /\ ServerGoto("commandAck", sState)
        /\ UNCHANGED loopVars
     \/ /\ ServerSendFails
        /\ NextSend("sendCommand")
  /\ UNCHANGED <<telemetryVars, command, transferTriggered, responseSequence>>

\* Variant: state is not put back to ACTIVE.
ReceiveCommandAck_StaysInState ==
  /\ sPc = "commandAck"
  /\ ServerGets("COMMAND_ACK")
  /\ responseSequence' = responseSequence + 1
  /\ ServerGoto(IF command = InitiateTransfer THEN "beginTransfer" ELSE "active",
                sState)
  /\ sendAttempt' = 1
  /\ recvAttempt' = 1
  /\ UNCHANGED <<telemetryVars, command, transferTriggered, chunkIndex>>

ReceiveCommandAck ==
  /\ sPc = "commandAck"
  /\ ServerGets("COMMAND_ACK")
  /\ responseSequence' = responseSequence + 1
  /\ ServerGoto(IF command = InitiateTransfer THEN "beginTransfer" ELSE "active",
                "ACTIVE")
  /\ sendAttempt' = 1
  /\ recvAttempt' = 1
  /\ UNCHANGED <<telemetryVars, command, transferTriggered, chunkIndex>>

\* Variant: telemetry that comes meanwhile is counted.
MissCommandAck_Counts ==
  /\ sPc = "commandAck"
  /\ \/ ServerReceivesNothing /\ UNCHANGED telemetryVars
     \/ /\ ServerGets("TELEMETRY")
        /\ telemetryCount' = telemetryCount + 1
        /\ samples' = Append(samples, serverIncoming.arg)
  /\ NextReceive \/ (recvAttempt = MaxRetransmissions /\ NextSend("sendCommand"))
  /\ UNCHANGED <<command, transferTriggered, responseSequence>>

MissCommandAck ==
  /\ sPc = "commandAck"
  /\ ServerMisses("COMMAND_ACK")
  /\ \/ NextReceive
     \/ recvAttempt = MaxRetransmissions /\ NextSend("sendCommand")
  /\ UNCHANGED <<telemetryVars, command, transferTriggered, responseSequence>>

(***************************************************************************)
(* requestAdditionalStatus: as above, with one receive after each send.    *)
(* What the status says is not looked at.                                  *)
(***************************************************************************)
SendRequest ==
  /\ sPc = "sendRequest"
  /\ \/ /\ ServerSends(makePacket("DATA_REQUEST", responseSequence, NoPayload))
        /\ ServerGoto("statusResponse", sState)
        /\ UNCHANGED loopVars
     \/ /\ ServerSendFails
        /\ NextSend("sendRequest")
  /\ UNCHANGED <<telemetryVars, command, transferTriggered, responseSequence>>

ReceiveStatus ==
  /\ sPc = "statusResponse"
  /\ ServerGets("STATUS_RESPONSE")
  /\ responseSequence' = responseSequence + 1
  /\ ServerGoto("active", "ACTIVE")
  /\ sendAttempt' = 1
  /\ UNCHANGED <<telemetryVars, command, transferTriggered, recvAttempt, chunkIndex>>

MissStatus ==
  /\ sPc = "statusResponse"
  /\ ServerMisses("STATUS_RESPONSE")
  /\ NextSend("sendRequest")
  /\ UNCHANGED <<telemetryVars, command, transferTriggered, responseSequence>>

(***************************************************************************)
(* performLargeTransfer, after its INITIATE_DIAGNOSTIC_TRANSFER command    *)
(* was acknowledged.  START, the chunks and END are sent once each.        *)
(***************************************************************************)
BeginTransfer ==
  /\ sPc = "beginTransfer"
  /\ ServerGoto("sendStart", "DATA_TRANSFER")
  /\ UNCHANGED <<netVars, telemetryVars, exchangeVars, responseSequence>>

\* transferTriggered is still FALSE while all of this runs.
SendStart ==
  /\ sPc = "sendStart"
  /\ ServerSends(makePacket("LARGE_DATA_START", responseSequence, TotalChunks))
  /\ responseSequence' = responseSequence + 1
  /\ ServerGoto("sendChunk", sState)
  /\ UNCHANGED <<telemetryVars, exchangeVars>>

\* Variants: the number is not advanced; the offset is advanced too early.
SendChunk_SameNumber ==
  /\ sPc = "sendChunk"
  /\ ServerSendsBulk(makePacket("LARGE_DATA_CHUNK", responseSequence, chunkIndex))
  /\ chunkIndex' = chunkIndex + 1
  /\ ServerGoto(IF chunkIndex + 1 < TotalChunks THEN "sendChunk" ELSE "sendEnd",
                sState)
  /\ UNCHANGED <<telemetryVars, sendAttempt, recvAttempt, command, transferTriggered,
                 responseSequence>>

SendChunk_NextOffset ==
  /\ sPc = "sendChunk"
  /\ ServerSendsBulk(makePacket("LARGE_DATA_CHUNK", responseSequence, chunkIndex + 1))
  /\ responseSequence' = responseSequence + 1
  /\ chunkIndex' = chunkIndex + 1
  /\ ServerGoto(IF chunkIndex + 1 < TotalChunks THEN "sendChunk" ELSE "sendEnd",
                sState)
  /\ UNCHANGED <<telemetryVars, sendAttempt, recvAttempt, command, transferTriggered>>

SendChunk ==
  /\ sPc = "sendChunk"
  /\ ServerSendsBulk(makePacket("LARGE_DATA_CHUNK", responseSequence, chunkIndex))
  /\ responseSequence' = responseSequence + 1
  /\ chunkIndex' = chunkIndex + 1
  /\ ServerGoto(IF chunkIndex + 1 < TotalChunks THEN "sendChunk" ELSE "sendEnd",
                sState)
  /\ UNCHANGED <<telemetryVars, sendAttempt, recvAttempt, command, transferTriggered>>

SendEnd ==
  /\ sPc = "sendEnd"
  /\ ServerSendsBulk(makePacket("LARGE_DATA_END", responseSequence, NoPayload))
  /\ responseSequence' = responseSequence + 1
  /\ chunkIndex' = 0
  /\ ServerGoto("transferStatus", sState)
  /\ UNCHANGED <<telemetryVars, sendAttempt, recvAttempt, command, transferTriggered>>

\* A transfer packet cannot be sent: no second try.
TransferSendFails ==
  /\ \/ sPc = "sendStart" /\ ServerSendFails
     \/ sPc \in {"sendChunk", "sendEnd"} /\ ServerBulkSendFails
  /\ GiveUp
  /\ UNCHANGED <<telemetryVars, command, transferTriggered, responseSequence>>

\* Variant: the type of the final packet is not checked.
ReceiveTransferStatus_AnyType ==
  /\ sPc = "transferStatus"
  /\ ServerReceives
  /\ ServerGoto("active", "ACTIVE")
  /\ transferTriggered' = TRUE
  /\ recvAttempt' = 1
  /\ UNCHANGED <<telemetryVars, command, sendAttempt, chunkIndex, responseSequence>>

\* Any STATUS_RESPONSE ends the transfer, whatever it reports; main then sets
\* transferTriggered.
ReceiveTransferStatus ==
  /\ sPc = "transferStatus"
  /\ ServerGets("STATUS_RESPONSE")
  /\ ServerGoto("active", "ACTIVE")
  /\ transferTriggered' = TRUE
  /\ recvAttempt' = 1
  /\ UNCHANGED <<telemetryVars, command, sendAttempt, chunkIndex, responseSequence>>

MissTransferStatus ==
  /\ sPc = "transferStatus"
  /\ ServerMisses("STATUS_RESPONSE")
  /\ \/ NextReceive
     \/ recvAttempt = MaxRetransmissions /\ GiveUp
  /\ UNCHANGED <<telemetryVars, command, transferTriggered, responseSequence>>

ServerNext ==
  \/ Listen \/ ListenFails \/ Accept \/ AcceptFails
  \/ Verify \/ VerifyFails \/ SendConnectAck \/ Reject
  \/ ReceiveTelemetry \/ ReceiveUnexpected \/ ReceiveDisconnect \/ ActiveReceiveFails
  \/ SendTelemetryAck \/ TelemetryAckFails \/ SendDisconnectAck \/ Shutdown
  \/ SendCommand \/ ReceiveCommandAck \/ MissCommandAck
  \/ SendRequest \/ ReceiveStatus \/ MissStatus
  \/ BeginTransfer \/ SendStart \/ SendChunk \/ SendEnd \/ TransferSendFails
  \/ ReceiveTransferStatus \/ MissTransferStatus

(***************************************************************************)
(* What the server keeps to, whatever its peer does.                       *)
(***************************************************************************)
ServerTypeOK ==
  /\ sPc \in ServerPc
  /\ sState \in ServerState
  /\ telemetryCount \in Nat
  /\ samples \in Seq(Nat)
  /\ transferTriggered \in BOOLEAN
  /\ responseSequence \in Nat
  /\ command \in Command
  /\ sendAttempt \in 1 .. MaxRetransmissions
  /\ recvAttempt \in 1 .. MaxRetransmissions
  /\ chunkIndex \in Nat

\* Every change of state is one isValidTransition allows, although most of them
\* are plain assignments that never reach transitionState and its check.
LegalTransitions == [][isValidTransition(sState, sState')]_sState

\* The states state can have at each point of the program.
StatesAt ==
  [pc \in ServerPc |->
     CASE pc = "startup"                                  -> {"STARTUP"}
       [] pc = "accept"                                   -> {"IDLE_LISTENING"}
       [] pc \in {"verify", "connectAck"}                 -> {"VERIFICATION"}
       [] pc = "reject"                                   -> {"VERIFICATION", "ACTIVE"}
       [] pc \in {"active", "telemetryAck", "beginTransfer"} -> {"ACTIVE"}
       [] pc \in {"sendCommand", "commandAck",
                  "sendRequest", "statusResponse"}        -> {"COMMAND_PROCESSING"}
       [] pc \in {"sendStart", "sendChunk", "sendEnd",
                  "transferStatus"}                       -> {"DATA_TRANSFER"}
       [] pc = "disconnectAck"                            -> {"DISCONNECTING"}
       [] pc = "closing"                                  -> {"DISCONNECTING", "ERROR_STATE"}
       [] pc = "done"                          -> {"STARTUP", "IDLE_LISTENING", "SHUTDOWN"}]

\* state agrees with where the server is: the loop's guard against an illegal
\* state and the exchanges' checks for ACTIVE never find anything, and every
\* session the server accepted ends in SHUTDOWN.
StateAtPoint == sState \in StatesAt[sPc]

\* A packet keeps the sequence number of the exchange it belongs to: numbers
\* in flight to the client never go back, and two packets with the same number
\* are the same packet, sent again by a retransmission loop.
NumbersIdentifyPackets ==
  \A j, k \in DOMAIN toClient :
    j < k => /\ toClient[j].seq <= toClient[k].seq
             /\ toClient[j].seq = toClient[k].seq => toClient[j] = toClient[k]

\* A session has at most one large transfer: none runs once one has returned,
\* although transferTriggered is set only when it returns.
TransferNotRepeated == sState = "DATA_TRANSFER" => ~transferTriggered
=============================================================================
