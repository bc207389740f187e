------------------------------ MODULE MCFraming ------------------------------
(***************************************************************************)
(* At most MaxPackets packets are sent.                                    *)
(***************************************************************************)
EXTENDS Framing

CONSTANT MaxPackets

BoundedNext == (Sender /\ Len(headers) < MaxPackets) \/ Receiver

BoundedSpec == FrameInit /\ [][BoundedNext]_frameVars
=============================================================================
