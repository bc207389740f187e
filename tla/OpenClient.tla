------------------------------ MODULE OpenClient ------------------------------
(***************************************************************************)
(* The aircraft client against any server that announces this payload in   *)
(* its LARGE_DATA_START, with whatever number of chunks.  The server sends *)
(* packets of any type in any order, reads or does not read what it is     *)
(* sent, closes and breaks the connection as it likes.                     *)
(***************************************************************************)
EXTENDS AircraftClient

CONSTANT ServerPacket   \* the packets the server may send

ASSUME ServerAssumption == ServerPacket \subseteq Packet

AnyServerLink ==
  \/ serverEnd = "none" /\ ServerListens
  \/ serverEnd = "listening" /\ ServerAccepts
  \/ \E packet \in ServerPacket : serverEnd = "open" /\ ServerSends(packet)
  \/ serverEnd = "open" /\ ServerReceives
  \/ ServerCloses
  \/ ConnectionReset

AnyServerStep == AnyServerLink /\ UNCHANGED clientVars

OpenClientInit == NetInit /\ ClientInit

OpenClientNext == ClientNext \/ AnyServerStep

openClientVars == <<netVars, clientVars>>

OpenClientSpec == OpenClientInit /\ [][OpenClientNext]_openClientVars

OpenClientTypeOK == NetTypeOK /\ ClientTypeOK
=============================================================================
