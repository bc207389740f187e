------------------------------- MODULE Framing -------------------------------
(***************************************************************************)
(* One direction of the connection, byte by byte: sendPacket writes a      *)
(* header and a payload with sendAll, receivePacket reads them back with   *)
(* receiveAll.  TCP cuts and delays the bytes as it likes.  Bytes have no  *)
(* values here, only positions in the stream; a header is told from other  *)
(* bytes by its magic number and version, which no payload contains.       *)
(***************************************************************************)
EXTENDS Naturals, Sequences, FiniteSets

CONSTANTS
  HeaderSize,   \* sizeof(PacketHeader) (48 in the code)
  MaxPayload,   \* MAX_PAYLOAD_SIZE (8192)
  PayloadSize   \* payload sizes of the packets makePacket builds

ASSUME SizeAssumption ==
  /\ HeaderSize \in Nat \ {0}
  /\ MaxPayload \in Nat
  /\ PayloadSize \subseteq Nat

VARIABLES
  headers,    \* for each packet begun: where it starts, and its payload size
  written,    \* bytes written to the connection
  ended,      \* nothing more will be written
  consumed,   \* bytes recv has returned
  reading,    \* the receivePacket in progress
  accepted    \* history: the packets for which receivePacket returned true

senderVars   == <<headers, written, ended>>
receiverVars == <<consumed, reading, accepted>>
frameVars    == <<senderVars, receiverVars>>

\* receivePacket is not running, waits for the rest of a header, or of a
\* payload; start is where the stream was when it was called.
NotReading == [part |-> "none", start |-> 0, missing |-> 0]

FrameInit ==
  /\ headers = <<>>
  /\ written = 0
  /\ ended = FALSE
  /\ consumed = 0
  /\ reading = NotReading
  /\ accepted = <<>>

(***************************************************************************)
(* The sender.                                                             *)
(***************************************************************************)
validatePayloadSize(payloadSize) == payloadSize <= MaxPayload

\* sendPacket returned true.
SendPacket(payloadSize) ==
  /\ ~ended
  /\ validatePayloadSize(payloadSize)
  /\ headers' = Append(headers, [start |-> written, size |-> payloadSize])
  /\ written' = written + HeaderSize + payloadSize
  /\ UNCHANGED ended

\* sendAll gave up after some of the bytes.  It does so for the packets of a
\* transfer, when the peer has stopped reading, and on a broken connection;
\* whoever sends more after that sends to a connection that takes nothing.
SendBreaksOff(payloadSize) ==
  /\ ~ended
  /\ validatePayloadSize(payloadSize)
  /\ \E some \in 0 .. HeaderSize + payloadSize - 1 : written' = written + some
  /\ headers' = Append(headers, [start |-> written, size |-> payloadSize])
  /\ ended' = TRUE

CloseSender == ~ended /\ ended' = TRUE /\ UNCHANGED <<headers, written>>

(***************************************************************************)
(* The receiver.  receiveAll calls recv until it has what it wants; each   *)
(* recv returns some of the bytes that have arrived.                       *)
(***************************************************************************)
CallReceivePacket ==
  /\ reading = NotReading
  /\ reading' = [part |-> "header", start |-> consumed, missing |-> HeaderSize]
  /\ UNCHANGED <<consumed, accepted>>

\* recv returned count bytes: some, but not all, of what is missing.
RecvSome(count) ==
  /\ reading.part # "none"
  /\ count < reading.missing
  /\ consumed + count <= written
  /\ consumed' = consumed + count
  /\ reading' = [reading EXCEPT !.missing = @ - count]
  /\ UNCHANGED accepted

\* Variant: recv is taken to return all it was asked for.
RecvRest_NotCounted ==
  /\ reading.part # "none"
  /\ consumed < written
  /\ consumed' = consumed + reading.missing

\* recv returned the last bytes that were missing.
RecvRest ==
  /\ reading.part # "none"
  /\ consumed + reading.missing <= written
  /\ consumed' = consumed + reading.missing

\* Variant: magic and version are not looked at.
ReadsHeaderOf_AnyBytes(k) == headers[k].start <= reading.start + HeaderSize

\* deserializeHeader and the test of magic and version: what was read is the
\* header of packet k.
ReadsHeaderOf(k) == headers[k].start = reading.start

Accept(k) == /\ reading' = NotReading
             /\ accepted' = Append(accepted, k)

\* The header is there, and announces a payload.
HeaderOfPayload ==
  /\ reading.part = "header"
  /\ RecvRest
  /\ \E k \in DOMAIN headers :
       /\ ReadsHeaderOf(k)
       /\ headers[k].size > 0
       /\ reading' = [reading EXCEPT !.part = "payload", !.missing = headers[k].size]
  /\ UNCHANGED accepted

\* receivePacket returns true: the header of an empty packet, or the payload,
\* is complete.
AcceptEmpty ==
  /\ reading.part = "header"
  /\ RecvRest
  /\ \E k \in DOMAIN headers : ReadsHeaderOf(k) /\ headers[k].size = 0 /\ Accept(k)

AcceptPayload ==
  /\ reading.part = "payload"
  /\ RecvRest
  /\ \E k \in DOMAIN headers : ReadsHeaderOf(k) /\ Accept(k)

AcceptPacket == AcceptEmpty \/ AcceptPayload

\* What was read as a header begins in the middle of a packet.
Misread ==
  /\ reading.part = "header"
  /\ RecvRest
  /\ ~ \E k \in DOMAIN headers : ReadsHeaderOf(k)
  /\ reading' = NotReading
  /\ UNCHANGED accepted

\* Variants: recv returning 0 counts as complete; the bytes are not used up.
RecvFails_EndIsEnough ==
  /\ reading.part # "none"
  /\ \/ \E k \in DOMAIN headers : ended /\ ReadsHeaderOf(k) /\ Accept(k)
     \/ reading' = NotReading /\ UNCHANGED accepted
  /\ UNCHANGED consumed

\* recv timed out, or returned 0 at the end of the stream: receivePacket
\* returns false, and what it has read so far is gone.
RecvFails ==
  /\ reading.part # "none"
  /\ reading' = NotReading
  /\ UNCHANGED <<consumed, accepted>>

Sender ==
  /\ \/ \E payloadSize \in PayloadSize :
          SendPacket(payloadSize) \/ SendBreaksOff(payloadSize)
     \/ CloseSender
  /\ UNCHANGED receiverVars

Receiver ==
  /\ \/ CallReceivePacket
     \/ \E count \in 1 .. written - consumed : RecvSome(count)
     \/ HeaderOfPayload
     \/ AcceptPacket
     \/ Misread
     \/ RecvFails
  /\ UNCHANGED senderVars

FrameNext == Sender \/ Receiver

FrameSpec == FrameInit /\ [][FrameNext]_frameVars

(***************************************************************************)
(* Correctness.                                                            *)
(***************************************************************************)
FrameTypeOK ==
  /\ headers \in Seq([start: Nat, size: Nat])
  /\ written \in Nat
  /\ ended \in BOOLEAN
  /\ consumed \in 0 .. written
  /\ reading \in [part: {"none", "header", "payload"}, start: Nat, missing: Nat]
  /\ accepted \in Seq(Nat)

endOf(k) == headers[k].start + HeaderSize + headers[k].size

\* A packet that is handed to the program was written to its last byte, and all
\* of its bytes have been read: neither the end of the stream nor a timeout
\* passes off a part of a packet, or the middle of one, as a packet.
AcceptedWhole ==
  \A j \in DOMAIN accepted :
    /\ accepted[j] \in DOMAIN headers
    /\ endOf(accepted[j]) <= consumed

(***************************************************************************)
(* Packet by packet, this is PacketStream: a packet is spoilt when the     *)
(* receivePacket that has read into it returns false.                      *)
(***************************************************************************)
position == IF reading.part = "none" THEN consumed ELSE reading.start

WholePackets == {k \in DOMAIN headers : endOf(k) <= written}

Stream == INSTANCE PacketStream WITH
  sentCount <- Cardinality(WholePackets),
  usedUp    <- Cardinality({k \in WholePackets : headers[k].start < position}),
  received  <- {accepted[j] : j \in DOMAIN accepted}

\* receivePacket yields packets in the order they were sent, each at most once,
\* and a call that fails, wherever in the stream, spoils at most one packet.
ImplementsPacketStream == Stream!Spec
=============================================================================
