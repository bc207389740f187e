---------------------------- MODULE MCOpenClient ----------------------------
(***************************************************************************)
(* A server small enough to enumerate: one packet of every type, with any  *)
(* chunk of the payload and any chunk count up to MaxCount, at most        *)
(* MaxQueue of them waiting.  A packet that stalls is, for such a server,  *)
(* one it has not sent.                                                    *)
(***************************************************************************)
EXTENDS OpenClient

CONSTANTS MaxQueue, MaxCount

SmallServerPackets ==
  {makePacket("LARGE_DATA_START", 1, count) : count \in 0 .. MaxCount}
    \cup {makePacket("LARGE_DATA_CHUNK", 1, chunk) : chunk \in 0 .. TotalChunks - 1}
    \cup {makePacket(type, 1, NoPayload) :
            type \in MessageType \ {"LARGE_DATA_START", "LARGE_DATA_CHUNK"}}

BoundedServerStep == AnyServerStep /\ Len(toClient') <= MaxQueue

BoundedClientNext == ClientNext \/ BoundedServerStep

\* The client's process is scheduled; the server may stop at any time.
BoundedClientSpec ==
  /\ OpenClientInit
  /\ [][BoundedClientNext]_openClientVars
  /\ WF_openClientVars(ClientNext)

\* Whatever the server sends or leaves out, the client exits.
ClientEndsAnyhow == <>(cPc = "done")
=============================================================================
