---------------------------- MODULE MCOpenServer ----------------------------
(***************************************************************************)
(* A peer small enough to enumerate: one packet of every type, at most     *)
(* MaxQueue of them waiting in each direction, and at most one telemetry   *)
(* packet more than MaxTelemetry in the session.  The session loop takes   *)
(* telemetry without end (server_main.cpp:1012-1176), so what it does      *)
(* afterwards is left out here.                                            *)
(***************************************************************************)
EXTENDS OpenServer

CONSTANTS MaxQueue, MaxTelemetry

OnePacketPerType == {makePacket(type, 1, NoPayload) : type \in MessageType}

telemetryWaiting ==
  Len(SelectSeq(toServer, LAMBDA packet : packet.type = "TELEMETRY"))

WithinBounds ==
  /\ Len(toServer) <= MaxQueue
  /\ telemetryCount + telemetryWaiting <= MaxTelemetry + 1

BoundedPeerStep == PeerStep /\ WithinBounds'

BoundedNext == ServerNext \/ BoundedPeerStep

\* The server's process is scheduled; accept waits for as long as it takes.
\* The peer is not fair: it may stop at any time.
BoundedSpec ==
  /\ OpenInit
  /\ [][BoundedNext]_openVars
  /\ WF_openVars(ServerNext /\ sPc # "accept")

\* A peer that gets no more than MaxTelemetry telemetry packets accepted, whatever
\* else it sends, leaves out or breaks, is a peer the server is done with in the
\* end.  The bound is needed: the session loop counts nothing, and a peer that
\* sends one more valid TELEMETRY within every receive timeout keeps it for ever.
TelemetryBounded == telemetryCount <= MaxTelemetry

ServerEnds == []TelemetryBounded => (sPc = "verify" ~> sPc = "done")
=============================================================================
