---------------------------- MODULE FramedExchange ----------------------------
(***************************************************************************)
(* The active session over the bytes of the connection: what the nested    *)
(* retry loops of sendTelemetryWithRetransmission read when a packet from  *)
(* the server stalls in the middle, and how many stalls it takes to defeat *)
(* them.  The acknowledgements and the requests of the server's exchanges  *)
(* share one stream of bytes; the client's packets, which the server reads *)
(* one by one, are kept whole.  LARGE_DATA_START stands for the packets of *)
(* the transfer, which the client reads or fails to read in one window.    *)
(***************************************************************************)
EXTENDS Framing, Protocol

CONSTANTS
  AckSize,      \* bytes of "Telemetry accepted." (19)
  RequestSize   \* bytes of "ADJUST_HEADING:100" (18), and about those of every
                \* other packet of the server

ASSUME ExchangeAssumption ==
  /\ AckSize \in PayloadSize /\ AckSize <= MaxPayload
  /\ RequestSize \in PayloadSize /\ RequestSize <= MaxPayload

VARIABLES
  kinds,           \* the message type of each packet in headers
  toServer,        \* types of the client's packets the server has not read
  telemetryCount,  \* accepted telemetry packets
  exchange,        \* "active": the server is in its session loop; else what it
                   \* has to send: "COMMAND" or "INITIATE" (the two commands),
                   \* "DATA_REQUEST", "LARGE_DATA_START", or "refuse"
  requestAttempt,  \* attempt of the exchange's sending loop
  awaitAttempt,    \* attempt of its receiving loop; 0 when a send is due
  point,           \* the client is about to "send", waits to "receive", is in a
                   \* "window", "done" with its samples, has "failed" to have one
                   \* acknowledged, or is "lost" in a window
  sendAttempt,     \* attempt of sendTelemetryWithRetransmission
  recvAttempt,     \* attempt of receiveExpectedPacketWithRetransmission
  sample,          \* samples acknowledged
  stalls           \* history: waits for an acknowledgement that ended with
                   \* something to come; not counted past MaxRetransmissions

requestVars  == <<telemetryCount, exchange, requestAttempt, awaitAttempt>>
attemptVars  == <<sendAttempt, recvAttempt>>
loopVars     == <<point, attemptVars, sample, stalls>>
exchangeVars == <<frameVars, kinds, toServer, requestVars, loopVars>>

ServerKind == {"TELEMETRY_ACK", "COMMAND", "DATA_REQUEST", "LARGE_DATA_START",
               "ERROR_MESSAGE"}

ClientKind == {"TELEMETRY", "COMMAND_ACK", "STATUS_RESPONSE"}

Exchange == {"active", "COMMAND", "INITIATE", "DATA_REQUEST", "LARGE_DATA_START",
             "refuse"}

ExchangeInit ==
  /\ FrameInit
  /\ kinds = <<>>
  /\ toServer = <<>>
  /\ telemetryCount = 0
  /\ exchange = "active"
  /\ requestAttempt = 1
  /\ awaitAttempt = 0
  /\ point = "send"
  /\ sendAttempt = 1
  /\ recvAttempt = 1
  /\ sample = 0
  /\ stalls = 0

(***************************************************************************)
(* The server: its session loop and the exchanges the counts trigger.      *)
(***************************************************************************)
sizeOf(kind) == IF kind = "TELEMETRY_ACK" THEN AckSize ELSE RequestSize

Writes(kind) == SendPacket(sizeOf(kind)) /\ kinds' = Append(kinds, kind)

BreaksOff(kind) == SendBreaksOff(sizeOf(kind)) /\ kinds' = Append(kinds, kind)

\* The exchange the count triggers; the loop goes on where there is none.
triggered(count) == CASE shouldSendCommand(count)               -> "COMMAND"
                      [] shouldRequestAdditionalStatus(count)   -> "DATA_REQUEST"
                      [] shouldStartLargeTransfer(count, FALSE) -> "INITIATE"
                      [] OTHER                                  -> "active"

GoesTo(next) == /\ exchange' = next
                /\ requestAttempt' = 1
                /\ awaitAttempt' = 0

\* TELEMETRY is counted and acknowledged, a retransmission like a new sample.
AnswerTelemetry ==
  /\ exchange = "active"
  /\ toServer # <<>> /\ Head(toServer) = "TELEMETRY"
  /\ Writes("TELEMETRY_ACK")
  /\ toServer' = Tail(toServer)
  /\ telemetryCount' = telemetryCount + 1
  /\ GoesTo(triggered(telemetryCount + 1))
  /\ UNCHANGED <<receiverVars, loopVars>>

\* Anything else in the loop, and telemetry that is not valid, is refused with an
\* ERROR_MESSAGE.
RefuseAnswer ==
  /\ exchange = "active"
  /\ toServer # <<>>
  /\ Writes("ERROR_MESSAGE")
  /\ toServer' = Tail(toServer)
  /\ GoesTo("refuse")
  /\ UNCHANGED <<receiverVars, telemetryCount, loopVars>>

request == IF exchange = "INITIATE" THEN "COMMAND" ELSE exchange

InExchange == exchange \notin {"active", "refuse"} /\ ~ended

SendRequest ==
  /\ InExchange /\ awaitAttempt = 0
  /\ Writes(request)
  /\ awaitAttempt' = 1
  /\ UNCHANGED <<receiverVars, toServer, telemetryCount, exchange, requestAttempt, loopVars>>

answerTo == IF request = "COMMAND" THEN "COMMAND_ACK" ELSE "STATUS_RESPONSE"

ReceiveAnswer ==
  /\ InExchange /\ awaitAttempt > 0
  /\ toServer # <<>> /\ Head(toServer) = answerTo
  /\ toServer' = Tail(toServer)
  /\ GoesTo(IF exchange = "INITIATE" THEN "LARGE_DATA_START" ELSE "active")
  /\ UNCHANGED <<frameVars, kinds, telemetryCount, loopVars>>

\* requestAdditionalStatus receives once after each send, and performLargeTransfer
\* sends once.
awaitLimit == IF exchange = "DATA_REQUEST" THEN 1 ELSE MaxRetransmissions

requestLimit == IF exchange = "LARGE_DATA_START" THEN 1 ELSE MaxRetransmissions

\* The next attempt, or the end of the session.
NextRequest ==
  \/ /\ awaitAttempt < awaitLimit
     /\ awaitAttempt' = awaitAttempt + 1
     /\ UNCHANGED <<senderVars, requestAttempt>>
  \/ /\ awaitAttempt = awaitLimit
     /\ IF requestAttempt < requestLimit
        THEN /\ requestAttempt' = requestAttempt + 1
             /\ awaitAttempt' = 0
             /\ UNCHANGED senderVars
        ELSE CloseSender /\ UNCHANGED <<requestAttempt, awaitAttempt>>

\* Nothing came in time, a packet was cut in the middle, or a packet of another
\* type is dropped.
MissAnswer ==
  /\ InExchange /\ awaitAttempt > 0
  /\ \/ UNCHANGED toServer
     \/ toServer # <<>> /\ toServer' = Tail(toServer)
  /\ NextRequest
  /\ UNCHANGED <<receiverVars, kinds, telemetryCount, exchange, loopVars>>

\* The session ends where the server is, or the connection breaks under a send.
ServerFails ==
  /\ \/ CloseSender /\ UNCHANGED kinds
     \/ exchange = "active" /\ toServer # <<>> /\ BreaksOff("TELEMETRY_ACK")
     \/ InExchange /\ awaitAttempt = 0 /\ BreaksOff(request)
  /\ UNCHANGED <<receiverVars, toServer, requestVars, loopVars>>

(***************************************************************************)
(* The client.                                                             *)
(***************************************************************************)
\* A window closes: the next sample, or one of the windows after the last, which
\* are not counted here.
WindowCloses ==
  /\ \/ sample < NumSamples /\ point' = "send"
     \/ sample = NumSamples /\ point' \in {"window", "done"}
  /\ UNCHANGED <<attemptVars, sample, stalls>>

SendTelemetry ==
  /\ point = "send"
  /\ point' = "receive"
  /\ recvAttempt' = 1
  /\ toServer' = Append(toServer, "TELEMETRY")
  /\ UNCHANGED <<frameVars, kinds, requestVars, sendAttempt, sample, stalls>>

\* receivePacket goes on.
Reading ==
  /\ point \in {"receive", "window"}
  /\ \/ CallReceivePacket
     \/ \E count \in 1 .. written - consumed : RecvSome(count)
     \/ HeaderOfPayload
  /\ UNCHANGED <<senderVars, kinds, toServer, requestVars, loopVars>>

\* receivePacket returned true, with a packet of one of these types.
Takes(types) == AcceptPacket /\ kinds[accepted'[Len(accepted')]] \in types

\* The acknowledgement, whichever sample it is for.
ReceiveAck ==
  /\ point = "receive"
  /\ Takes({"TELEMETRY_ACK"})
  /\ sample' = sample + 1
  /\ point' = "window"
  /\ sendAttempt' = 1
  /\ recvAttempt' = 1
  /\ UNCHANGED <<senderVars, kinds, toServer, requestVars, stalls>>

\* The telemetry cannot be sent on a connection that is broken.
NextSend ==
  IF sendAttempt < MaxRetransmissions
  THEN sendAttempt' = sendAttempt + 1 /\ point' = "send"
  ELSE point' = "failed" /\ UNCHANGED sendAttempt

TelemetrySendFails ==
  /\ point = "send"
  /\ ended
  /\ NextSend
  /\ UNCHANGED <<frameVars, kinds, toServer, requestVars, recvAttempt, sample, stalls>>

\* Variant: the telemetry is not sent again.
NextAttempt_NoResend ==
  IF recvAttempt < MaxRetransmissions
  THEN recvAttempt' = recvAttempt + 1 /\ UNCHANGED <<point, sendAttempt, sample>>
  ELSE point' = "failed" /\ UNCHANGED <<recvAttempt, sendAttempt, sample>>

\* Variant: one attempt too many.
NextAttempt_OneMore ==
  \/ /\ recvAttempt <= MaxRetransmissions
     /\ recvAttempt' = recvAttempt + 1
     /\ UNCHANGED <<point, sendAttempt, sample>>
  \/ /\ recvAttempt > MaxRetransmissions
     /\ point' = "failed"
     /\ UNCHANGED <<recvAttempt, sendAttempt, sample>>

\* The next attempt of the inner loop, then of the outer one.
NextAttempt ==
  \/ /\ recvAttempt < MaxRetransmissions
     /\ recvAttempt' = recvAttempt + 1
     /\ UNCHANGED <<point, sendAttempt, sample>>
  \/ /\ recvAttempt = MaxRetransmissions
     /\ NextSend
     /\ UNCHANGED <<recvAttempt, sample>>

\* A request, or an error message, is the wrong type: an attempt is used up.
DropRequest ==
  /\ point = "receive"
  /\ Takes(ServerKind \ {"TELEMETRY_ACK"})
  /\ NextAttempt
  /\ UNCHANGED <<senderVars, kinds, toServer, requestVars, stalls>>

\* receivePacket returned false, because what it read was no header.
MisreadAck ==
  /\ point = "receive"
  /\ Misread
  /\ NextAttempt
  /\ UNCHANGED <<senderVars, kinds, toServer, requestVars, stalls>>

\* A wait that ends while bytes are on the way, or the server has something to
\* read, counts as a stall; one with nothing to come is the natural end of an
\* attempt.
SomethingToCome == toServer # <<>> \/ consumed < written

MissAck ==
  /\ point = "receive"
  /\ RecvFails
  /\ NextAttempt
  /\ stalls' = IF SomethingToCome /\ stalls < MaxRetransmissions THEN stalls + 1 ELSE stalls
  /\ UNCHANGED <<senderVars, kinds, toServer, requestVars>>

\* handleOptionalServerMessage: silence, one packet that is answered or ignored,
\* or a receive that fails.
SeeSilence ==
  /\ point = "window" /\ reading = NotReading
  /\ WindowCloses
  /\ UNCHANGED <<frameVars, kinds, toServer, requestVars>>

AnswerRequest ==
  /\ point = "window"
  /\ \/ Takes({"COMMAND"}) /\ toServer' = Append(toServer, "COMMAND_ACK")
     \/ /\ Takes({"DATA_REQUEST", "LARGE_DATA_START"})
        /\ toServer' = Append(toServer, "STATUS_RESPONSE")
  /\ WindowCloses
  /\ UNCHANGED <<senderVars, kinds, requestVars>>

IgnorePacket ==
  /\ point = "window"
  /\ Takes({"TELEMETRY_ACK", "ERROR_MESSAGE"})
  /\ WindowCloses
  /\ UNCHANGED <<senderVars, kinds, toServer, requestVars>>

\* No packet, a transfer that comes in parts, or no connection to answer on.
WindowFails ==
  /\ point = "window"
  /\ \/ Misread \/ RecvFails
     \/ Takes({"LARGE_DATA_START"})
     \/ ended /\ Takes({"COMMAND", "DATA_REQUEST"})
  /\ point' = "lost"
  /\ UNCHANGED <<senderVars, kinds, toServer, requestVars, attemptVars, sample, stalls>>

Finished == point \in {"done", "failed", "lost"} /\ UNCHANGED exchangeVars

ExchangeNext ==
  \/ AnswerTelemetry \/ RefuseAnswer
  \/ SendRequest \/ ReceiveAnswer \/ MissAnswer \/ ServerFails
  \/ SendTelemetry \/ TelemetrySendFails
  \/ Reading \/ ReceiveAck \/ DropRequest \/ MisreadAck \/ MissAck
  \/ SeeSilence \/ AnswerRequest \/ IgnorePacket \/ WindowFails
  \/ Finished

ExchangeSpec == ExchangeInit /\ [][ExchangeNext]_exchangeVars

ExchangeTypeOK ==
  /\ FrameTypeOK
  /\ kinds \in Seq(ServerKind) /\ Len(kinds) = Len(headers)
  /\ toServer \in Seq(ClientKind)
  /\ telemetryCount \in Nat
  /\ exchange \in Exchange
  /\ requestAttempt \in 1 .. requestLimit
  /\ awaitAttempt \in 0 .. awaitLimit
  /\ point \in {"send", "receive", "window", "done", "failed", "lost"}
  /\ sendAttempt \in 1 .. MaxRetransmissions
  /\ recvAttempt \in 1 .. MaxRetransmissions
  /\ sample \in 0 .. NumSamples
  /\ stalls \in Nat

\* A missed read, or a lost acknowledgement, does not fail the telemetry for good.
\* While the server is in its session loop it takes as many stalls as a sample has
\* transmissions, although each stall leaves the client out of step with the
\* packets, and what is left of earlier answers and requests costs attempts too.
\* A server in an exchange drops telemetry: there one stall may be enough
\* (CrossWaitIsFatal), and nothing is claimed.
SurvivesStalls ==
  point = "failed" => ended \/ exchange # "active" \/ stalls >= MaxRetransmissions
=============================================================================
