---------------------------- MODULE SessionContract ----------------------------
(***************************************************************************)
(* What a session is to those who run it, whatever the packets, the        *)
(* retransmissions and the timeouts in between: samples are counted and    *)
(* acknowledged, at most one payload is delivered and confirmed, and the   *)
(* two sides part in agreement or not.                                     *)
(***************************************************************************)
EXTENDS Naturals

CONSTANTS
  NumSamples,   \* samples in a session
  TransferAt,   \* the count that brings the payload
  TotalChunks   \* chunks of the payload

VARIABLES
  counted,       \* samples the ground has counted
  acknowledged,  \* samples the aircraft is through with
  delivered,     \* chunks the aircraft holds
  verified,      \* the aircraft has found the payload complete
  confirmed,     \* the ground knows
  phase          \* of the ground: "open", "agreed" (to part) or "over"

contractVars == <<counted, acknowledged, delivered, verified, confirmed, phase>>

Init ==
  /\ counted = 0 /\ acknowledged = 0 /\ delivered = 0
  /\ verified = FALSE /\ confirmed = FALSE
  /\ phase = "open"

\* Not in the middle of a delivery.
Count ==
  /\ phase = "open"
  /\ delivered > 0 => confirmed
  /\ counted' = counted + 1
  /\ UNCHANGED <<acknowledged, delivered, verified, confirmed, phase>>

Acknowledge ==
  /\ acknowledged < counted
  /\ acknowledged < NumSamples
  /\ acknowledged' = acknowledged + 1
  /\ UNCHANGED <<counted, delivered, verified, confirmed, phase>>

Deliver ==
  /\ counted = TransferAt
  /\ delivered < TotalChunks
  /\ delivered' = delivered + 1
  /\ UNCHANGED <<counted, acknowledged, verified, confirmed, phase>>

\* The aircraft verifies the payload at the end of a sample or afterwards.
Verify ==
  /\ delivered = TotalChunks
  /\ ~verified
  /\ verified' = TRUE
  /\ acknowledged' \in {acknowledged, acknowledged + 1}
  /\ acknowledged' <= counted
  /\ UNCHANGED <<counted, delivered, confirmed, phase>>

Confirm ==
  /\ phase = "open"
  /\ verified /\ ~confirmed
  /\ confirmed' = TRUE
  /\ UNCHANGED <<counted, acknowledged, delivered, verified, phase>>

\* The two sides agree to part only when everything has been done.
Agree ==
  /\ phase = "open"
  /\ acknowledged = NumSamples
  /\ confirmed
  /\ phase' = "agreed"
  /\ UNCHANGED <<counted, acknowledged, delivered, verified, confirmed>>

End ==
  /\ phase # "over"
  /\ phase' = "over"
  /\ UNCHANGED <<counted, acknowledged, delivered, verified, confirmed>>

Next == Count \/ Acknowledge \/ Deliver \/ Verify \/ Confirm \/ Agree \/ End

Spec == Init /\ [][Next]_contractVars
=============================================================================
