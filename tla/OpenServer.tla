----------------------------- MODULE OpenServer -----------------------------
(***************************************************************************)
(* The ground server against any peer at all.  The peer connects, sends    *)
(* packets of any type in any order, reads or does not read what it is     *)
(* sent, closes and breaks the connection as it likes; only framing is     *)
(* taken for granted.                                                      *)
(***************************************************************************)
EXTENDS GroundServer

CONSTANT PeerPacket   \* the packets the peer may send

ASSUME PeerAssumption == PeerPacket \subseteq Packet

PeerLink ==
  \/ ClientConnects
  \/ \E packet \in PeerPacket : clientEnd = "open" /\ ClientSends(packet)
  \/ clientEnd = "open" /\ ClientReceives
  \/ ClientCloses
  \/ ConnectionReset

PeerStep == PeerLink /\ UNCHANGED serverVars

OpenInit == NetInit /\ ServerInit

OpenNext == ServerNext \/ PeerStep

openVars == <<netVars, serverVars>>

OpenSpec == OpenInit /\ [][OpenNext]_openVars

OpenTypeOK == NetTypeOK /\ ServerTypeOK
=============================================================================
