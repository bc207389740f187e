----------------------------- MODULE OpenProofs -----------------------------
(***************************************************************************)
(* Each end against any peer at all, for every value of the constants.     *)
(* The ground server keeps to its types, to the state table and to its     *)
(* sequence numbers, and runs at most one large transfer; the aircraft     *)
(* client keeps to its types and retry limits and to its sequence numbers, *)
(* and reports success only after its last sample.                         *)
(***************************************************************************)
EXTENDS OpenServer, OpenClient, ProcessProofs

(***************************************************************************)
(* The server: type correctness.                                           *)
(***************************************************************************)
\* The peer, whatever it does, leaves a well-typed connection.
LEMMA PeerTypeStep ==
  ASSUME OpenTypeOK, PeerStep
  PROVE  OpenTypeOK'
<1> USE DEF OpenTypeOK, NetTypeOK, PeerLink, Ends
<1>1. ServerTypeOK'
  BY DEF PeerStep, serverVars, telemetryVars, exchangeVars, loopVars, ServerTypeOK
<1>2. CASE ClientConnects
  BY <1>1, <1>2 DEF ClientConnects
<1>3. ASSUME NEW packet \in PeerPacket, ClientSends(packet)
      PROVE  OpenTypeOK'
  BY <1>1, <1>3, PeerAssumption DEF ClientSends
<1>4. CASE ClientReceives
  BY <1>1, <1>4, HeadTailProperties DEF ClientReceives
<1>5. CASE ClientCloses
  BY <1>1, <1>5 DEF ClientCloses
<1>6. CASE ConnectionReset
  BY <1>1, <1>6 DEF ConnectionReset
<1> QED
  BY <1>2, <1>3, <1>4, <1>5, <1>6 DEF PeerStep

\* OpenTypeOK is inductive.
LEMMA OpenTypeInductive ==
  /\ OpenInit => OpenTypeOK
  /\ OpenTypeOK /\ [OpenNext]_openVars => OpenTypeOK'
<1>1. OpenInit => OpenTypeOK
  <2>1. NetInit => NetTypeOK
    BY EmptySeq DEF NetInit, NetTypeOK
  <2>2. ServerInit => ServerTypeOK
    BY ServerInitType
  <2> QED
    BY <2>1, <2>2 DEF OpenInit, OpenTypeOK
<1>2. ASSUME OpenTypeOK, [OpenNext]_openVars
      PROVE  OpenTypeOK'
  <2>1. CASE ServerNext
    BY <1>2, <2>1, ServerTypeStep DEF OpenTypeOK
  <2>2. CASE PeerStep
    BY <1>2, <2>2, PeerTypeStep
  <2>3. CASE UNCHANGED openVars
    BY <1>2, <2>3 DEF openVars, netVars, serverVars, telemetryVars, exchangeVars,
                      loopVars, OpenTypeOK, NetTypeOK, ServerTypeOK
  <2> QED
    BY <1>2, <2>1, <2>2, <2>3 DEF OpenNext
<1> QED
  BY <1>1, <1>2

\* The server's variables keep their types whatever packets arrive: no retry
\* loop counts past MAX_RETRANSMISSION_ATTEMPTS.
THEOREM OpenTypeCorrect == OpenSpec => []OpenTypeOK
<1>1. OpenInit => OpenTypeOK
  BY OpenTypeInductive
<1>2. OpenTypeOK /\ [OpenNext]_openVars => OpenTypeOK'
  BY OpenTypeInductive
<1> QED
  BY <1>1, <1>2, PTL DEF OpenSpec

(***************************************************************************)
(* The state machine.                                                      *)
(***************************************************************************)
\* A step that is not the server's leaves its point and its state alone.
LEMMA StateTableStep ==
  ASSUME OpenTypeOK, StateAtPoint, [OpenNext]_openVars
  PROVE  StateAtPoint' /\ (sState' = sState \/ isValidTransition(sState, sState'))
<1>1. CASE ServerNext
  BY <1>1, TransitionStep DEF OpenTypeOK
<1>2. CASE PeerStep \/ UNCHANGED openVars
  BY <1>2 DEF PeerStep, openVars, serverVars, StateAtPoint
<1> QED
  BY <1>1, <1>2 DEF OpenNext

\* The server starts in the state of its first point.
LEMMA StateTableInit == OpenInit => StateAtPoint
  BY StatesAtRows DEF OpenInit, ServerInit, StateAtPoint

\* state always agrees with where the server is: the loop's guard against an
\* illegal state and the exchanges' checks for ACTIVE never find anything.
THEOREM StateFollowsTable == OpenSpec => []StateAtPoint
<1>1. StateAtPoint /\ OpenTypeOK /\ [OpenNext]_openVars => StateAtPoint'
  BY StateTableStep
<1> QED
  BY <1>1, StateTableInit, OpenTypeCorrect, PTL DEF OpenSpec

\* Every change of state, direct assignments included, is one that
\* isValidTransition would have accepted.
THEOREM TransitionsLegal == OpenSpec => LegalTransitions
<1>1. StateAtPoint /\ OpenTypeOK /\ [OpenNext]_openVars
        => [isValidTransition(sState, sState')]_sState
  BY StateTableStep
<1> QED
  BY <1>1, StateFollowsTable, OpenTypeCorrect, PTL DEF OpenSpec, LegalTransitions

(***************************************************************************)
(* One large transfer.                                                     *)
(***************************************************************************)
\* A second transfer never starts in the session of one that has returned,
\* although its flag is only set at the end.
THEOREM AtMostOneTransfer == OpenSpec => []TransferNotRepeated
<1>1. OpenInit => FirstTransfer
  BY DEF OpenInit, ServerInit, FirstTransfer
<1>2. FirstTransfer /\ OpenTypeOK /\ [OpenNext]_openVars => FirstTransfer'
  <2> SUFFICES ASSUME FirstTransfer, OpenTypeOK, [OpenNext]_openVars
               PROVE  FirstTransfer'
    OBVIOUS
  <2>1. CASE ServerNext
    BY <2>1, FirstTransferStep DEF OpenTypeOK
  <2>2. CASE PeerStep \/ UNCHANGED openVars
    BY <2>2 DEF PeerStep, openVars, serverVars, exchangeVars, FirstTransfer,
                TransferUnderWay
  <2> QED
    BY <2>1, <2>2 DEF OpenNext
<1>3. OpenTypeOK /\ StateAtPoint /\ FirstTransfer => TransferNotRepeated
  BY StatesAtRows DEF OpenTypeOK, ServerTypeOK, ServerPc, StateAtPoint, FirstTransfer,
                      TransferUnderWay, TransferNotRepeated
<1> QED
  BY <1>1, <1>2, <1>3, OpenTypeCorrect, StateFollowsTable, PTL DEF OpenSpec

(***************************************************************************)
(* Sequence numbers.                                                       *)
(***************************************************************************)
\* Packets in flight to the peer have numbers that never go back, and the same
\* number only if they are the same packet, resent.
THEOREM NumbersInOrder == OpenSpec => []NumbersIdentifyPackets
<1>1. OpenInit => NumbersInv
  BY DEF OpenInit, NetInit, NumbersInv, NumbersUsed, Ordered
<1>2. NumbersInv /\ OpenTypeOK /\ [OpenNext]_openVars => NumbersInv'
  <2> SUFFICES ASSUME NumbersInv, OpenTypeOK, [OpenNext]_openVars
               PROVE  NumbersInv'
    OBVIOUS
  <2>1. CASE ServerNext
    BY <2>1, NumbersStep DEF OpenTypeOK
  <2>2. CASE PeerStep
    <3>1. UNCHANGED serverVars
      BY <2>2 DEF PeerStep
    <3>2. Shortened(toClient, toClient')
      BY <2>2 DEF PeerStep, PeerLink, ClientConnects, ClientSends, ClientReceives,
                  ClientCloses, ConnectionReset, Shortened
    <3> QED
      BY <3>1, <3>2, ShorterQueueNumbers DEF OpenTypeOK
  <2>3. CASE UNCHANGED openVars
    BY <2>3, ShorterQueueNumbers DEF openVars, netVars, OpenTypeOK, Shortened
  <2> QED
    BY <2>1, <2>2, <2>3 DEF OpenNext
<1>3. NumbersInv => NumbersIdentifyPackets
  BY DEF NumbersInv, Ordered, NumbersIdentifyPackets
<1> QED
  BY <1>1, <1>2, <1>3, OpenTypeCorrect, PTL DEF OpenSpec

(***************************************************************************)
(* The client: type correctness.                                           *)
(***************************************************************************)
OpenClientInv == NetTypeOK /\ ClientInv

\* The server, whatever it does, leaves a well-typed connection.
LEMMA AnyServerTypeStep ==
  ASSUME OpenClientInv, AnyServerStep
  PROVE  OpenClientInv'
<1> USE DEF OpenClientInv, NetTypeOK, AnyServerLink, Ends
<1>1. ClientInv'
  BY ClientUnchanged DEF AnyServerStep
<1>2. CASE ServerListens \/ ServerAccepts \/ ServerCloses
  BY <1>1, <1>2 DEF ServerListens, ServerAccepts, ServerCloses
<1>3. ASSUME NEW packet \in ServerPacket, ServerSends(packet)
      PROVE  OpenClientInv'
  BY <1>1, <1>3, ServerAssumption DEF ServerSends
<1>4. CASE ServerReceives
  BY <1>1, <1>4, HeadTailProperties DEF ServerReceives
<1>5. CASE ConnectionReset
  BY <1>1, <1>5, EmptySeq DEF ConnectionReset
<1> QED
  BY <1>2, <1>3, <1>4, <1>5 DEF AnyServerStep

\* OpenClientInv is inductive.
LEMMA OpenClientInductive ==
  /\ OpenClientInit => OpenClientInv
  /\ OpenClientInv /\ [OpenClientNext]_openClientVars => OpenClientInv'
<1>1. OpenClientInit => OpenClientInv
  <2>1. NetInit => NetTypeOK
    BY EmptySeq DEF NetInit, NetTypeOK
  <2> QED
    BY <2>1, ClientInitType DEF OpenClientInit, OpenClientInv
<1>2. ASSUME OpenClientInv, [OpenClientNext]_openClientVars
      PROVE  OpenClientInv'
  <2>1. CASE ClientNext
    BY <1>2, <2>1, ClientTypeStep DEF OpenClientInv
  <2>2. CASE AnyServerStep
    BY <1>2, <2>2, AnyServerTypeStep
  <2>3. CASE UNCHANGED openClientVars
    BY <1>2, <2>3, NetUnchangedType, ClientUnchanged DEF openClientVars, OpenClientInv
  <2> QED
    BY <1>2, <2>1, <2>2, <2>3 DEF OpenClientNext
<1> QED
  BY <1>1, <1>2

\* The client's variables keep their types whatever the server sends: no loop,
\* of connecting, of sending, of receiving or of windows, runs past its limit.
THEOREM OpenClientTypeCorrect == OpenClientSpec => []OpenClientTypeOK
<1>1. OpenClientInv => OpenClientTypeOK
  BY DEF OpenClientInv, ClientInv, OpenClientTypeOK
<1> QED
  BY <1>1, OpenClientInductive, PTL DEF OpenClientSpec

(***************************************************************************)
(* The exit code and the sequence numbers.                                 *)
(***************************************************************************)
\* No server can make the client return 0 before its last sample has been
\* acknowledged.
THEOREM SuccessMeansAllSamples == OpenClientSpec => []SuccessAfterAllSamples
<1>1. OpenClientInit => PastLastSample
  BY DEF OpenClientInit, ClientInit, PastLastSample, SuccessAfterAllSamples
<1>2. PastLastSample /\ OpenClientInv /\ [OpenClientNext]_openClientVars => PastLastSample'
  <2> SUFFICES ASSUME PastLastSample, OpenClientInv, [OpenClientNext]_openClientVars
               PROVE  PastLastSample'
    OBVIOUS
  <2>1. CASE ClientNext
    BY <2>1, PastLastSampleStep DEF OpenClientInv
  <2>2. CASE AnyServerStep \/ UNCHANGED openClientVars
    BY <2>2 DEF AnyServerStep, openClientVars, clientVars, windowVars, PastLastSample,
                SuccessAfterAllSamples
  <2> QED
    BY <2>1, <2>2 DEF OpenClientNext
<1>3. PastLastSample => SuccessAfterAllSamples
  BY DEF PastLastSample
<1> QED
  BY <1>1, <1>2, <1>3, OpenClientInductive, PTL DEF OpenClientSpec

\* Packets in flight to the server have numbers that never go back, and the same
\* number only if they are the same packet, resent, whatever is answered to them.
THEOREM ClientNumbersInOrder == OpenClientSpec => []ClientNumbersIdentifyPackets
<1>1. OpenClientInit => ClientNumbersInv
  BY DEF OpenClientInit, NetInit, ClientNumbersInv, ClientNumbersUsed, Ordered
<1>2. ClientNumbersInv /\ OpenClientInv /\ [OpenClientNext]_openClientVars
        => ClientNumbersInv'
  <2> SUFFICES ASSUME ClientNumbersInv, OpenClientInv, [OpenClientNext]_openClientVars
               PROVE  ClientNumbersInv'
    OBVIOUS
  <2>1. CASE ClientNext
    BY <2>1, ClientNumbersStep DEF OpenClientInv, ClientInv
  <2>2. CASE AnyServerStep
    <3>1. UNCHANGED clientVars
      BY <2>2 DEF AnyServerStep
    <3>2. Shortened(toServer, toServer')
      BY <2>2 DEF AnyServerStep, AnyServerLink, ServerListens, ServerAccepts, ServerSends,
                  ServerReceives, ServerCloses, ConnectionReset, Ends, Shortened
    <3> QED
      BY <3>1, <3>2, ShorterQueueClientNumbers DEF OpenClientInv
  <2>3. CASE UNCHANGED openClientVars
    BY <2>3, ShorterQueueClientNumbers DEF openClientVars, netVars, OpenClientInv, Shortened
  <2> QED
    BY <2>1, <2>2, <2>3 DEF OpenClientNext
<1>3. ClientNumbersInv => ClientNumbersIdentifyPackets
  BY DEF ClientNumbersInv, Ordered, ClientNumbersIdentifyPackets
<1> QED
  BY <1>1, <1>2, <1>3, OpenClientInductive, PTL DEF OpenClientSpec
=============================================================================
