---------------------------- MODULE PacketStream ----------------------------
(***************************************************************************)
(* What one direction of the connection promises to those who use it       *)
(* packet by packet: packets are received in the order they were sent,     *)
(* each at most once, and a receive that yields nothing costs at most one  *)
(* packet.  TcpStream takes this for granted; Framing implements it.       *)
(***************************************************************************)
EXTENDS Naturals

VARIABLES
  sentCount,  \* packets sent; a packet is named by its number
  usedUp,     \* packets that can no longer be received: 1 .. usedUp
  received    \* the packets received

streamVars == <<sentCount, usedUp, received>>

Init == sentCount = 0 /\ usedUp = 0 /\ received = {}

Send == sentCount' = sentCount + 1 /\ UNCHANGED <<usedUp, received>>

\* The oldest packet is received.
Receive == /\ usedUp < sentCount
           /\ usedUp' = usedUp + 1
           /\ received' = received \cup {usedUp + 1}
           /\ UNCHANGED sentCount

\* A receive gives up, and has spoilt the oldest packet.
Spoil == /\ usedUp < sentCount
         /\ usedUp' = usedUp + 1
         /\ UNCHANGED <<sentCount, received>>

Next == Send \/ Receive \/ Spoil

Spec == Init /\ [][Next]_streamVars
=============================================================================
