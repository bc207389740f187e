------------------------------- MODULE Session -------------------------------
(***************************************************************************)
(* One session: the ground server and the aircraft client, each a process  *)
(* of its own, over the connection between them.                           *)
(***************************************************************************)
EXTENDS GroundServer, AircraftClient

vars == <<netVars, serverVars, clientVars>>

Init == NetInit /\ ServerInit /\ ClientInit

ServerStep == ServerNext /\ UNCHANGED clientVars
ClientStep == ClientNext /\ UNCHANGED serverVars
LinkStep   == ConnectionReset /\ UNCHANGED <<serverVars, clientVars>>

\* Both processes have exited.
Terminated == sPc = "done" /\ cPc = "done" /\ UNCHANGED vars

Next == ServerStep \/ ClientStep \/ LinkStep \/ Terminated

Spec == Init /\ [][Next]_vars

(***************************************************************************)
(* The operating system runs both processes, and every wait but accept     *)
(* ends by itself.  accept returns once a client is connected; nothing     *)
(* makes it fail.  Nothing makes the link fail.                            *)
(***************************************************************************)
Fairness ==
  /\ WF_vars(ServerStep /\ sPc # "accept")
  /\ WF_vars(Accept /\ UNCHANGED clientVars)
  /\ WF_vars(ClientStep)

FairSpec == Spec /\ Fairness

TypeOK == NetTypeOK /\ ServerTypeOK /\ ClientTypeOK

(***************************************************************************)
(* Safety.                                                                 *)
(***************************************************************************)
\* At every point of a transfer the client holds the first chunks of the
\* payload, each once and in order, and largeTransferCompleted means all of
\* them.  Neither side numbers chunks: receiveLargeTransfer appends what comes.
TransferIntact ==
  /\ fileBuffer = SubSeq(Blob, 1, Len(fileBuffer))
  /\ largeTransferCompleted => fileBuffer = Blob

\* performLargeTransfer returns true (and transferTriggered is set) only after
\* the client has verified the payload, although the server takes any
\* STATUS_RESPONSE, whatever it was sent for, as the end of the transfer.
TransferConfirmed == transferTriggered => largeTransferCompleted

\* The server hears DISCONNECT in its session loop only when the whole script
\* has run: the transfer is complete on both sides and the client is waiting
\* for the answer, or has gone, with no error.
CleanSessionAgreed ==
  sState = "DISCONNECTING" =>
    /\ transferTriggered
    /\ largeTransferCompleted
    /\ cPc \in {"finalAck", "close", "done"}
    /\ exitCode # "1"

\* The response an exchange accepts was made for that exchange: the text of
\* COMMAND_ACK and STATUS_RESPONSE, which the server does not look at, is never
\* that of another command or request, resent or answered twice.
ResponsesMatchRequests ==
  [][/\ ReceiveCommandAck => serverIncoming.arg = command
     /\ ReceiveStatus => serverIncoming.arg = EngineStatus
     /\ ReceiveTransferStatus => serverIncoming.arg = TransferOk]_vars

\* The client never has more samples acknowledged than the server has counted,
\* late and repeated acknowledgements included.
AcknowledgedWithinCount ==
  LET acknowledged == IF cPc = "optional" /\ index < NumSamples
                      THEN index + 1 ELSE index
  IN  acknowledged <= telemetryCount

(***************************************************************************)
(* What the session is to its users.                                       *)
(***************************************************************************)
groundPhase ==
  CASE sState = "DISCONNECTING"                                     -> "agreed"
    [] sPc = "done" \/ sState \in {"ERROR_STATE", "SHUTDOWN"}       -> "over"
    [] OTHER                                                        -> "open"

Contract == INSTANCE SessionContract WITH
  counted <- telemetryCount, acknowledged <- index,
  delivered <- Len(fileBuffer), verified <- largeTransferCompleted,
  confirmed <- transferTriggered, phase <- groundPhase

\* The two programs together keep the contract: nothing is acknowledged before
\* it is counted, nothing is counted between the first chunk of the payload and
\* its confirmation, the payload comes at its count, is confirmed only when
\* verified, and the server's DISCONNECTING comes last and after all of it.
ImplementsContract == Contract!Spec

(***************************************************************************)
(* Situations the retransmission loops cannot get out of.                  *)
(***************************************************************************)
\* The client waits for TELEMETRY_ACK and drops the server's request as a
\* wrong type; the server waits for the answer and drops the telemetry.
Carries(stream, types) == \E k \in DOMAIN stream : stream[k].type \in types

CrossWait ==
  /\ sPc \in {"commandAck", "statusResponse"}
  /\ cPc = "telemetryAck"
  /\ ~Carries(toServer, {"COMMAND_ACK", "STATUS_RESPONSE"})
  /\ ~Carries(toClient, {"TELEMETRY_ACK"})

\* Once both wait like that, no resending helps: the server never gets back to
\* ACTIVE and the client never exits with 0.
CrossWaitIsFatal == [](CrossWait => [](sState # "ACTIVE" /\ exitCode # "0"))

\* Once the handshake is resent the session is lost, however fast both sides
\* are from then on: the second CONNECT_REQUEST is an unexpected type for the
\* session loop, so no telemetry is ever counted.
HandshakeRetryIsFatal ==
  [](cPc = "connectAck" /\ cSendAttempt > 1 => [](telemetryCount = 0))

(***************************************************************************)
(* Liveness.                                                               *)
(***************************************************************************)
\* The client exits, whatever the server and the link do.
ClientEnds == <>(cPc = "done")

\* A session the server sees disconnected ends with exit code 0 at the client,
\* whether or not the answer to DISCONNECT gets through.
CleanSessionSucceeds == sState = "DISCONNECTING" ~> exitCode = "0"

(***************************************************************************)
(* What comments say and the code does not do.                             *)
(***************************************************************************)
\* "Advance the sequence only after successful acknowledgement": when the
\* client takes a TELEMETRY_ACK, the sample it sent has been counted.
AcknowledgedSampleCounted ==
  [][ReceiveTelemetryAck => \E k \in DOMAIN samples : samples[k] = index]_vars
=============================================================================
