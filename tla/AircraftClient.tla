---------------------------- MODULE AircraftClient ----------------------------
(***************************************************************************)
(* The aircraft client (client_main.cpp, client_logic.cpp): a single       *)
(* thread that connects, sends its telemetry samples one by one, answers   *)
(* the server in short windows between them, and disconnects.  One action  *)
(* per step of main and of the functions it calls; sleeps are the time     *)
(* between two steps.                                                      *)
(***************************************************************************)
EXTENDS TcpStream, LargeTransfer

CONSTANT
  CountLimit   \* a START text that announces this many chunks, or more, stands for
               \* those parseTransferMetadata refuses (no field, no digits, 2^32)

ASSUME MetadataAssumption == CountLimit \in Nat

VARIABLES
  cPc,                     \* control point
  sequenceNumber,          \* sequence number of the next new packet
  cSendAttempt,            \* attempt of a sending (or connecting) loop; 1 outside
  cRecvAttempt,            \* attempt of a receiving loop; 1 outside
  index,                   \* samples done: index of the telemetry loop
  waitCycle,               \* index of the post-telemetry loop
  order,                   \* the COMMAND being answered
  expectedChunks,          \* parsed from LARGE_DATA_START
  fileBuffer,              \* chunks received, in order of arrival
  largeTransferCompleted,  \* a transfer was received, verified and reported
  exitCode                 \* "running", "0" or "1"

clientLoopVars == <<cSendAttempt, cRecvAttempt>>
windowVars     == <<index, waitCycle>>
transferVars   == <<expectedChunks, fileBuffer, largeTransferCompleted>>

clientVars == <<cPc, sequenceNumber, clientLoopVars, windowVars, order,
                transferVars, exitCode>>

ClientPc == {"connect", "connectRequest", "connectAck", "telemetry",
             "telemetryAck", "optional", "answerCommand", "answerRequest",
             "chunk", "end", "transferStatus", "disconnect", "finalAck",
             "close", "done"}

ClientInit ==
  /\ cPc = "connect"
  /\ sequenceNumber = 1
  /\ cSendAttempt = 1
  /\ cRecvAttempt = 1
  /\ index = 0
  /\ waitCycle = 0
  /\ order = AdjustHeading
  /\ expectedChunks = 0
  /\ fileBuffer = <<>>
  /\ largeTransferCompleted = FALSE
  /\ exitCode = "running"

(***************************************************************************)
(* Steps shared by several actions.                                        *)
(***************************************************************************)
\* An error path of main: close the socket and return 1.
Fail == /\ cPc' = "close"
        /\ exitCode' = "1"
        /\ cSendAttempt' = 1
        /\ cRecvAttempt' = 1

\* Variant: the attempts are not counted.
NextClientSend_Uncounted(pc, attempts) ==
  /\ cRecvAttempt' = 1
  /\ cPc' = pc
  /\ UNCHANGED <<cSendAttempt, exitCode>>

\* Variant: one attempt too many.
NextClientSend_OneMore(pc, attempts) ==
  \/ /\ cSendAttempt <= attempts
     /\ cSendAttempt' = cSendAttempt + 1
     /\ cRecvAttempt' = 1
     /\ cPc' = pc
     /\ UNCHANGED exitCode
  \/ /\ cSendAttempt > attempts
     /\ Fail

\* A sending loop goes to its next attempt, at pc, or has used the last one.
NextClientSend(pc, attempts) ==
  \/ /\ cSendAttempt < attempts
     /\ cSendAttempt' = cSendAttempt + 1
     /\ cRecvAttempt' = 1
     /\ cPc' = pc
     /\ UNCHANGED exitCode
  \/ /\ cSendAttempt = attempts
     /\ Fail

ClientMisses(expectedType) ==
  \/ ClientReceivesNothing
  \/ ClientReceives /\ clientIncoming.type # expectedType

ClientGets(expectedType) == ClientReceives /\ clientIncoming.type = expectedType

\* Variant: one attempt too many.
NextClientReceive_OneMore == /\ cRecvAttempt <= MaxRetransmissions
                             /\ cRecvAttempt' = cRecvAttempt + 1
                             /\ UNCHANGED <<cPc, cSendAttempt, exitCode>>

\* receiveExpectedPacketWithRetransmission has attempts left.
NextClientReceive == /\ cRecvAttempt < MaxRetransmissions
                     /\ cRecvAttempt' = cRecvAttempt + 1
                     /\ UNCHANGED <<cPc, cSendAttempt, exitCode>>

\* Variant: the post-telemetry loop waits for the transfer without a limit.
WindowCloses_NoLimit ==
  /\ index' = IF index < NumSamples THEN index + 1 ELSE index
  /\ waitCycle' = IF index < NumSamples THEN waitCycle ELSE waitCycle + 1
  /\ cPc' = CASE index' < NumSamples                                -> "telemetry"
              [] index' = NumSamples /\ ~largeTransferCompleted'    -> "optional"
              [] OTHER                                              -> "disconnect"
  /\ UNCHANGED <<clientLoopVars, exitCode>>

\* handleOptionalServerMessage returned true: the loop it was called from
\* goes on, after its sleep, with the next sample or the next window, and the
\* post-telemetry loop ends early once the transfer is complete.
WindowCloses ==
  /\ index' = IF index < NumSamples THEN index + 1 ELSE index
  /\ waitCycle' = IF index < NumSamples THEN waitCycle ELSE waitCycle + 1
  /\ cPc' = CASE index' < NumSamples                                  -> "telemetry"
              [] index' = NumSamples /\ waitCycle' < PostCycles
                 /\ ~largeTransferCompleted'                          -> "optional"
              [] OTHER                                                -> "disconnect"
  /\ UNCHANGED <<clientLoopVars, exitCode>>

(***************************************************************************)
(* main: connection and handshake.                                         *)
(***************************************************************************)
\* WSAStartup, socket or inet_pton failed: return 1 without a connection.
StartupFails == /\ cPc = "connect"
                /\ cSendAttempt = 1
                /\ Fail
                /\ UNCHANGED <<netVars, sequenceNumber, windowVars, order, transferVars>>

\* connectWithRetries.
Connect == /\ cPc = "connect"
           /\ ClientConnects
           /\ cPc' = "connectRequest"
           /\ cSendAttempt' = 1
           /\ UNCHANGED <<sequenceNumber, cRecvAttempt, windowVars, order,
                          transferVars, exitCode>>

ConnectFails == /\ cPc = "connect"
                /\ ClientConnectRefused
                /\ NextClientSend("connect", MaxReconnects)
                /\ UNCHANGED <<sequenceNumber, windowVars, order, transferVars>>

SendConnectRequest ==
  /\ cPc = "connectRequest"
  /\ \/ /\ ClientSends(makePacket("CONNECT_REQUEST", sequenceNumber, NoPayload))
        /\ cPc' = "connectAck"
        /\ UNCHANGED <<clientLoopVars, exitCode>>
     \/ /\ ClientSendFails
        /\ NextClientSend("connectRequest", MaxRetransmissions)
  /\ UNCHANGED <<sequenceNumber, windowVars, order, transferVars>>

ReceiveConnectAck ==
  /\ cPc = "connectAck"
  /\ ClientGets("CONNECT_ACK")
  /\ sequenceNumber' = sequenceNumber + 1
  /\ cPc' = "telemetry"
  /\ cSendAttempt' = 1
  /\ cRecvAttempt' = 1
  /\ UNCHANGED <<windowVars, order, transferVars, exitCode>>

MissConnectAck ==
  /\ cPc = "connectAck"
  /\ ClientMisses("CONNECT_ACK")
  /\ \/ NextClientReceive
     \/ /\ cRecvAttempt = MaxRetransmissions
        /\ NextClientSend("connectRequest", MaxRetransmissions)
  /\ UNCHANGED <<sequenceNumber, windowVars, order, transferVars>>

(***************************************************************************)
(* sendTelemetryWithRetransmission: the same packet, built once, up to     *)
(* MaxRetransmissions times, each followed by up to MaxRetransmissions     *)
(* receives.  Any TELEMETRY_ACK will do.                                   *)
(***************************************************************************)
SendTelemetry ==
  /\ cPc = "telemetry"
  /\ \/ /\ ClientSends(makePacket("TELEMETRY", sequenceNumber, index))
        /\ cPc' = "telemetryAck"
        /\ UNCHANGED <<clientLoopVars, exitCode>>
     \/ /\ ClientSendFails
        /\ NextClientSend("telemetry", MaxRetransmissions)
  /\ UNCHANGED <<sequenceNumber, windowVars, order, transferVars>>

ReceiveTelemetryAck ==
  /\ cPc = "telemetryAck"
  /\ ClientGets("TELEMETRY_ACK")
  /\ sequenceNumber' = sequenceNumber + 1
  /\ cPc' = "optional"
  /\ cSendAttempt' = 1
  /\ cRecvAttempt' = 1
  /\ UNCHANGED <<windowVars, order, transferVars, exitCode>>

MissTelemetryAck ==
  /\ cPc = "telemetryAck"
  /\ ClientMisses("TELEMETRY_ACK")
  /\ \/ NextClientReceive
     \/ /\ cRecvAttempt = MaxRetransmissions
        /\ NextClientSend("telemetry", MaxRetransmissions)
  /\ UNCHANGED <<sequenceNumber, windowVars, order, transferVars>>

(***************************************************************************)
(* handleOptionalServerMessage: at most one message per window.            *)
(***************************************************************************)
\* Nothing came within OPTIONAL_WAIT_MS.
NoOptionalMessage ==
  /\ cPc = "optional"
  /\ ClientSeesSilence
  /\ UNCHANGED largeTransferCompleted
  /\ WindowCloses
  /\ UNCHANGED <<sequenceNumber, order, expectedChunks, fileBuffer>>

\* Variant: main leaves the telemetry loop instead of returning.
OptionalReceiveFails_LeavesLoop ==
  /\ cPc = "optional"
  /\ ClientReceiveFails
  /\ cPc' = "disconnect"
  /\ UNCHANGED <<sequenceNumber, clientLoopVars, windowVars, order, transferVars, exitCode>>

OptionalReceiveFails ==
  /\ cPc = "optional"
  /\ ClientReceiveFails
  /\ Fail
  /\ UNCHANGED <<sequenceNumber, windowVars, order, transferVars>>

\* Every other type is ignored, which closes the window all the same.
IgnoreOptionalMessage ==
  /\ cPc = "optional"
  /\ ClientReceives
  /\ clientIncoming.type \notin {"COMMAND", "DATA_REQUEST", "LARGE_DATA_START"}
  /\ UNCHANGED largeTransferCompleted
  /\ WindowCloses
  /\ UNCHANGED <<sequenceNumber, order, expectedChunks, fileBuffer>>

ReceiveCommand ==
  /\ cPc = "optional"
  /\ ClientGets("COMMAND")
  /\ order' = clientIncoming.arg
  /\ cPc' = "answerCommand"
  /\ UNCHANGED <<sequenceNumber, clientLoopVars, windowVars, transferVars, exitCode>>

ReceiveDataRequest ==
  /\ cPc = "optional"
  /\ ClientGets("DATA_REQUEST")
  /\ cPc' = "answerRequest"
  /\ UNCHANGED <<sequenceNumber, clientLoopVars, windowVars, order, transferVars, exitCode>>

\* Variant: the number is not used up.
Answer_SameNumber(packet) ==
  /\ UNCHANGED <<transferVars, order, sequenceNumber>>
  /\ \/ ClientSends(packet) /\ WindowCloses
     \/ ClientSendFails /\ Fail /\ UNCHANGED windowVars

\* handleCommand and handleDataRequest: the number is used up either way.
Answer(packet) ==
  /\ sequenceNumber' = sequenceNumber + 1
  /\ UNCHANGED <<transferVars, order>>
  /\ \/ ClientSends(packet) /\ WindowCloses
     \/ ClientSendFails /\ Fail /\ UNCHANGED windowVars

SendCommandAck == /\ cPc = "answerCommand"
                  /\ Answer(makePacket("COMMAND_ACK", sequenceNumber, order))

SendStatus == /\ cPc = "answerRequest"
              /\ Answer(makePacket("STATUS_RESPONSE", sequenceNumber, EngineStatus))

(***************************************************************************)
(* receiveLargeTransfer: plain receives, any of which ends the session     *)
(* when it yields nothing or another type than the next one due; so does a *)
(* START whose text parseTransferMetadata refuses.                         *)
(***************************************************************************)
metadataParses(chunks) == chunks < CountLimit

ReceiveStart ==
  /\ cPc = "optional"
  /\ ClientGets("LARGE_DATA_START")
  /\ metadataParses(clientIncoming.arg)
  /\ expectedChunks' = clientIncoming.arg
  /\ fileBuffer' = <<>>
  /\ cPc' = IF clientIncoming.arg > 0 THEN "chunk" ELSE "end"
  /\ UNCHANGED <<sequenceNumber, clientLoopVars, windowVars, order,
                 largeTransferCompleted, exitCode>>

ReceiveChunk ==
  /\ cPc = "chunk"
  /\ ClientGets("LARGE_DATA_CHUNK")
  /\ fileBuffer' = Append(fileBuffer, clientIncoming.arg)
  /\ cPc' = IF Len(fileBuffer) + 1 < expectedChunks THEN "chunk" ELSE "end"
  /\ UNCHANGED <<sequenceNumber, clientLoopVars, windowVars, order, expectedChunks,
                 largeTransferCompleted, exitCode>>

ReceiveEnd ==
  /\ cPc = "end"
  /\ ClientGets("LARGE_DATA_END")
  /\ cPc' = "transferStatus"
  /\ UNCHANGED <<sequenceNumber, clientLoopVars, windowVars, order, transferVars, exitCode>>

TransferReceiveFails ==
  /\ \/ /\ cPc = "optional"
        /\ ClientGets("LARGE_DATA_START")
        /\ ~metadataParses(clientIncoming.arg)
     \/ cPc = "chunk" /\ ClientMisses("LARGE_DATA_CHUNK")
     \/ cPc = "end" /\ ClientMisses("LARGE_DATA_END")
  /\ largeTransferCompleted' = FALSE
  /\ Fail
  /\ UNCHANGED <<sequenceNumber, windowVars, order, expectedChunks, fileBuffer>>

SendTransferStatus ==
  /\ cPc = "transferStatus"
  /\ ClientSends(makePacket("STATUS_RESPONSE", sequenceNumber,
                            IF bufferAccepted(fileBuffer) THEN TransferOk
                                                          ELSE TransferFailed))
  /\ sequenceNumber' = sequenceNumber + 1
  /\ largeTransferCompleted' = bufferAccepted(fileBuffer)
  /\ IF bufferAccepted(fileBuffer) THEN WindowCloses
                                   ELSE Fail /\ UNCHANGED windowVars
  /\ UNCHANGED <<order, expectedChunks, fileBuffer>>

\* The number is used up all the same.
TransferStatusFails ==
  /\ cPc = "transferStatus"
  /\ ClientSendFails
  /\ sequenceNumber' = sequenceNumber + 1
  /\ largeTransferCompleted' = FALSE
  /\ Fail
  /\ UNCHANGED <<windowVars, order, expectedChunks, fileBuffer>>

(***************************************************************************)
(* main: disconnection.                                                    *)
(***************************************************************************)
SendDisconnect ==
  /\ cPc = "disconnect"
  /\ \/ /\ ClientSends(makePacket("DISCONNECT", sequenceNumber, NoPayload))
        /\ cPc' = "finalAck"
        /\ UNCHANGED <<clientLoopVars, exitCode>>
     \/ /\ ClientSendFails
        /\ Fail
  /\ UNCHANGED <<sequenceNumber, windowVars, order, transferVars>>

\* Variant: an answer to DISCONNECT is required.
AwaitFinalAck_Required ==
  /\ cPc = "finalAck"
  /\ \/ ClientReceives /\ exitCode' = "0"
     \/ ClientReceivesNothing /\ exitCode' = "1"
  /\ cPc' = "close"
  /\ UNCHANGED <<sequenceNumber, clientLoopVars, windowVars, order, transferVars>>

\* One packet of any type, or nothing: success is printed in every case.
AwaitFinalAck ==
  /\ cPc = "finalAck"
  /\ ClientReceives \/ ClientReceivesNothing
  /\ cPc' = "close"
  /\ exitCode' = "0"
  /\ UNCHANGED <<sequenceNumber, clientLoopVars, windowVars, order, transferVars>>

Close ==
  /\ cPc = "close"
  /\ ClientCloses
  /\ cPc' = "done"
  /\ UNCHANGED <<sequenceNumber, clientLoopVars, windowVars, order, transferVars, exitCode>>

ClientNext ==
  \/ StartupFails \/ Connect \/ ConnectFails
  \/ SendConnectRequest \/ ReceiveConnectAck \/ MissConnectAck
  \/ SendTelemetry \/ ReceiveTelemetryAck \/ MissTelemetryAck
  \/ NoOptionalMessage \/ OptionalReceiveFails \/ IgnoreOptionalMessage
  \/ ReceiveCommand \/ SendCommandAck \/ ReceiveDataRequest \/ SendStatus
  \/ ReceiveStart \/ ReceiveChunk \/ ReceiveEnd \/ TransferReceiveFails
  \/ SendTransferStatus \/ TransferStatusFails
  \/ SendDisconnect \/ AwaitFinalAck \/ Close

\* connectWithRetries has a limit of its own.
sendLimit == IF cPc = "connect" THEN MaxReconnects ELSE MaxRetransmissions

ClientTypeOK ==
  /\ cPc \in ClientPc
  /\ sequenceNumber \in Nat
  /\ cSendAttempt \in 1 .. sendLimit
  /\ cRecvAttempt \in 1 .. MaxRetransmissions
  /\ index \in 0 .. NumSamples
  /\ waitCycle \in 0 .. PostCycles
  /\ order \in Nat
  /\ expectedChunks \in Nat
  /\ fileBuffer \in Seq(Nat)
  /\ largeTransferCompleted \in BOOLEAN
  /\ exitCode \in {"running", "0", "1"}

(***************************************************************************)
(* What the client keeps to, whatever its peer does.                       *)
(***************************************************************************)
\* The client's packets, like the server's, have numbers that never go back and
\* that only a retransmission shares.
ClientNumbersIdentifyPackets ==
  \A j, k \in DOMAIN toServer :
    j < k => /\ toServer[j].seq <= toServer[k].seq
             /\ toServer[j].seq = toServer[k].seq => toServer[j] = toServer[k]

\* main returns 0 only when every sample has been acknowledged and no error path
\* was taken: a session cut off earlier is never reported as complete.
SuccessAfterAllSamples == exitCode = "0" => index = NumSamples
=============================================================================
