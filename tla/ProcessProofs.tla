---------------------------- MODULE ProcessProofs ----------------------------
(***************************************************************************)
(* Facts about the steps of either program that hold whatever is at the    *)
(* other end of the connection, and about the connection itself and the    *)
(* queues of packets in it.  OpenProofs uses them for each program against *)
(* any peer, SessionProofs for the whole session.                          *)
(***************************************************************************)
EXTENDS GroundServer, AircraftClient, PayloadProofs

(***************************************************************************)
(* Packets and the connection.                                             *)
(***************************************************************************)
\* makePacket builds packets.
LEMMA PacketType ==
  ASSUME NEW type \in MessageType, NEW seq \in Nat, NEW arg \in Nat
  PROVE  makePacket(type, seq, arg) \in Packet
  BY DEF makePacket, Packet

\* A step without the connection keeps its type.
LEMMA NetUnchangedType ==
  ASSUME NetTypeOK, UNCHANGED netVars
  PROVE  NetTypeOK'
  BY DEF NetTypeOK, netVars

\* A packet sent leaves the connection well typed.
LEMMA ServerSendsType ==
  ASSUME NetTypeOK, NEW packet \in Packet, ServerSends(packet)
  PROVE  NetTypeOK'
  BY DEF NetTypeOK, ServerSends, Ends

\* A receive takes a packet, whose payload is a number, off the queue.
LEMMA ServerReceivesType ==
  ASSUME NetTypeOK, ServerReceives
  PROVE  /\ NetTypeOK'
         /\ serverIncoming \in Packet
         /\ serverIncoming.arg \in Nat
<1>1. toServer \in Seq(Packet) /\ toServer # <<>>
  BY DEF NetTypeOK, ServerReceives
<1>2. Head(toServer) \in Packet /\ Tail(toServer) \in Seq(Packet)
  BY <1>1, HeadTailProperties
<1>3. NetTypeOK'
  BY <1>2 DEF NetTypeOK, ServerReceives, Ends
<1>4. serverIncoming \in Packet /\ serverIncoming.arg \in Nat
  BY <1>2 DEF serverIncoming, Packet
<1> QED
  BY <1>3, <1>4

\* A receive that yields nothing has taken nothing, or one packet.
LEMMA ServerReceivesNothingType ==
  ASSUME NetTypeOK, ServerReceivesNothing
  PROVE  NetTypeOK'
  BY ServerReceivesType, NetUnchangedType DEF ServerReceivesNothing

\* A packet the client sends leaves the connection well typed.
LEMMA ClientSendsType ==
  ASSUME NetTypeOK, NEW packet \in Packet, ClientSends(packet)
  PROVE  NetTypeOK'
  BY DEF NetTypeOK, ClientSends, Ends

\* A receive takes a packet, whose payload is a number, off the queue.
LEMMA ClientReceivesType ==
  ASSUME NetTypeOK, ClientReceives
  PROVE  /\ NetTypeOK'
         /\ clientIncoming \in Packet
         /\ clientIncoming.arg \in Nat
<1>1. toClient \in Seq(Packet) /\ toClient # <<>>
  BY DEF NetTypeOK, ClientReceives
<1>2. Head(toClient) \in Packet /\ Tail(toClient) \in Seq(Packet)
  BY <1>1, HeadTailProperties
<1>3. NetTypeOK'
  BY <1>2 DEF NetTypeOK, ClientReceives, Ends
<1>4. clientIncoming \in Packet /\ clientIncoming.arg \in Nat
  BY <1>2 DEF clientIncoming, Packet
<1> QED
  BY <1>3, <1>4

\* A receive that yields nothing has taken nothing, or one packet.
LEMMA ClientReceivesNothingType ==
  ASSUME NetTypeOK, ClientReceivesNothing
  PROVE  NetTypeOK'
  BY ClientReceivesType, NetUnchangedType DEF ClientReceivesNothing

(***************************************************************************)
(* Queues: a packet is appended, or some of the oldest are taken away.     *)
(***************************************************************************)
\* Numbers never go back, and equal numbers mean equal packets.
Ordered(queue) ==
  \A j, k \in DOMAIN queue :
    j < k => /\ queue[j].seq <= queue[k].seq
             /\ queue[j].seq = queue[k].seq => queue[j] = queue[k]

\* What a receive, a reset, or nothing at all leaves of a queue.
Shortened(queue, rest) ==
  \/ rest = queue
  \/ queue # <<>> /\ rest = Tail(queue)
  \/ rest = <<>>

\* The packets of a queue, and their positions, after one has been appended.
LEMMA AppendedQueue ==
  ASSUME NEW queue \in Seq(Packet), NEW packet \in Packet
  PROVE  LET n == Len(queue)
             longer == Append(queue, packet)
         IN  /\ n \in Nat
             /\ DOMAIN queue = 1 .. n
             /\ longer \in Seq(Packet)
             /\ DOMAIN longer = 1 .. n + 1
             /\ \A k \in 1 .. n : longer[k] = queue[k]
             /\ longer[n + 1] = packet
  BY AppendProperties, LenProperties

\* The same after the oldest has been taken.
LEMMA TailQueue ==
  ASSUME NEW queue \in Seq(Packet), queue # <<>>
  PROVE  LET n == Len(queue)
         IN  /\ n \in Nat \ {0}
             /\ DOMAIN queue = 1 .. n
             /\ Head(queue) = queue[1]
             /\ Tail(queue) \in Seq(Packet)
             /\ DOMAIN Tail(queue) = 1 .. n - 1
             /\ \A k \in 1 .. n - 1 : Tail(queue)[k] = queue[k + 1]
  BY EmptySeq, HeadTailProperties, LenProperties

\* A packet whose number is the highest, and its own, can be appended.
LEMMA AppendOrdered ==
  ASSUME NEW queue \in Seq(Packet), NEW packet \in Packet, Ordered(queue),
         \A k \in DOMAIN queue : /\ queue[k].seq <= packet.seq
                                 /\ queue[k].seq = packet.seq => queue[k] = packet
  PROVE  LET longer == Append(queue, packet)
         IN  /\ Ordered(longer)
             /\ \A k \in DOMAIN longer : /\ longer[k].seq <= packet.seq
                                         /\ longer[k].seq = packet.seq => longer[k] = packet
<1> DEFINE n == Len(queue)
           longer == Append(queue, packet)
<1>1. /\ n \in Nat
      /\ DOMAIN queue = 1 .. n
      /\ DOMAIN longer = 1 .. n + 1
      /\ \A k \in 1 .. n : longer[k] = queue[k]
      /\ longer[n + 1] = packet
  BY AppendedQueue
<1> HIDE DEF n, longer
<1>2. packet.seq \in Nat
  BY DEF Packet
<1>3. \A k \in DOMAIN longer : /\ longer[k].seq <= packet.seq
                               /\ longer[k].seq = packet.seq => longer[k] = packet
  BY <1>1, <1>2
<1>4. Ordered(longer)
  <2> SUFFICES ASSUME NEW j \in 1 .. n + 1, NEW k \in 1 .. n + 1, j < k
               PROVE  /\ longer[j].seq <= longer[k].seq
                      /\ longer[j].seq = longer[k].seq => longer[j] = longer[k]
    BY <1>1 DEF Ordered
  <2>1. j \in 1 .. n
    BY <1>1
  <2>2. CASE k = n + 1
    BY <1>1, <1>3, <2>1, <2>2
  <2>3. CASE k \in 1 .. n
    BY <1>1, <2>1, <2>3 DEF Ordered
  <2> QED
    BY <1>1, <2>2, <2>3
<1> QED
  BY <1>3, <1>4 DEF longer

\* Packets that arrive, or are lost together, leave the rest in order.
LEMMA ShortenedOrdered ==
  ASSUME NEW queue \in Seq(Packet), NEW rest, Ordered(queue), Shortened(queue, rest)
  PROVE  /\ Ordered(rest)
         /\ \A k \in DOMAIN rest : \E j \in DOMAIN queue : rest[k] = queue[j]
<1>1. CASE rest = queue
  BY <1>1
<1>2. CASE queue # <<>> /\ rest = Tail(queue)
  <2> DEFINE n == Len(queue)
  <2>1. /\ n \in Nat \ {0}
        /\ DOMAIN queue = 1 .. n
        /\ DOMAIN rest = 1 .. n - 1
        /\ \A k \in 1 .. n - 1 : rest[k] = queue[k + 1]
    BY <1>2, TailQueue
  <2> HIDE DEF n
  <2>2. \A k \in 1 .. n - 1 : k + 1 \in DOMAIN queue
    BY <2>1
  <2>3. Ordered(rest)
    <3> SUFFICES ASSUME NEW j \in DOMAIN rest, NEW k \in DOMAIN rest, j < k
                 PROVE  /\ rest[j].seq <= rest[k].seq
                        /\ rest[j].seq = rest[k].seq => rest[j] = rest[k]
      BY Zenon DEF Ordered
    <3>1. rest[j] = queue[j + 1] /\ rest[k] = queue[k + 1]
      BY <2>1
    <3>2. j + 1 \in DOMAIN queue /\ k + 1 \in DOMAIN queue /\ j + 1 < k + 1
      BY <2>1, <2>2
    <3> QED
      BY <3>1, <3>2 DEF Ordered
  <2> QED
    BY <2>1, <2>2, <2>3
<1>3. CASE rest = <<>>
  <2>1. DOMAIN rest = {}
    BY <1>3
  <2> QED
    BY <2>1 DEF Ordered
<1> QED
  BY <1>1, <1>2, <1>3 DEF Shortened

(***************************************************************************)
(* How many packets of one type are in a queue.                            *)
(***************************************************************************)
Positions(queue, type) == {k \in DOMAIN queue : queue[k].type = type}

CountOf(queue, type) == Cardinality(Positions(queue, type))

\* The count is a number.
LEMMA CountType ==
  ASSUME NEW queue \in Seq(Packet), NEW type
  PROVE  IsFiniteSet(Positions(queue, type)) /\ CountOf(queue, type) \in Nat
<1>1. DOMAIN queue = 1 .. Len(queue) /\ Len(queue) \in Nat
  BY LenProperties
<1>2. IsFiniteSet(DOMAIN queue) /\ Positions(queue, type) \subseteq DOMAIN queue
  BY <1>1, FS_Interval DEF Positions
<1> QED
  BY <1>2, FS_Subset, FS_CardinalityType DEF CountOf

\* A packet appended is one more of its own type.
LEMMA AppendedCount ==
  ASSUME NEW queue \in Seq(Packet), NEW packet \in Packet, NEW type
  PROVE  CountOf(Append(queue, packet), type) =
           IF packet.type = type THEN CountOf(queue, type) + 1 ELSE CountOf(queue, type)
<1> DEFINE n == Len(queue)
           longer == Append(queue, packet)
<1>1. /\ n \in Nat
      /\ DOMAIN queue = 1 .. n
      /\ DOMAIN longer = 1 .. n + 1
      /\ \A k \in 1 .. n : longer[k] = queue[k]
      /\ longer[n + 1] = packet
  BY AppendedQueue
<1> HIDE DEF n, longer
<1>2. \A k \in 1 .. n + 1 : k \in 1 .. n \/ k = n + 1
  BY <1>1
<1>3. Positions(longer, type) = IF packet.type = type
                                THEN Positions(queue, type) \cup {n + 1}
                                ELSE Positions(queue, type)
  BY <1>1, <1>2 DEF Positions
<1>4. n + 1 \notin Positions(queue, type)
  BY <1>1 DEF Positions
<1>5. IsFiniteSet(Positions(queue, type))
  BY CountType
<1> QED
  BY <1>3, <1>4, <1>5, FS_AddElement DEF CountOf, longer

\* Positions shifted by one are as many.
LEMMA ShiftedCount ==
  ASSUME NEW S \in SUBSET Nat, NEW T \in SUBSET Nat, IsFiniteSet(S),
         \A k \in Nat : k \in S <=> k + 1 \in T, 0 \notin T
  PROVE  Cardinality(T) = Cardinality(S)
<1> DEFINE f == [k \in S |-> k + 1]
<1>1. f \in [S -> T]
  OBVIOUS
<1>2. \A j, k \in S : f[j] = f[k] => j = k
  OBVIOUS
<1>3. \A m \in T : \E k \in S : f[k] = m
  <2> TAKE m \in T
  <2>1. m - 1 \in Nat /\ m = (m - 1) + 1
    OBVIOUS
  <2>2. m - 1 \in S
    BY <2>1
  <2> QED
    BY <2>1, <2>2
<1>4. f \in Bijection(S, T)
  BY <1>1, <1>2, <1>3, Zenon DEF Bijection, Injection, Surjection, IsInjective
<1>5. ExistsBijection(S, T)
  BY <1>4 DEF ExistsBijection
<1> QED
  BY <1>5, FS_Bijection

\* A packet taken is one less of its own type.
LEMMA TailCount ==
  ASSUME NEW queue \in Seq(Packet), queue # <<>>, NEW type
  PROVE  CountOf(Tail(queue), type) =
           IF Head(queue).type = type THEN CountOf(queue, type) - 1 ELSE CountOf(queue, type)
<1> DEFINE n == Len(queue)
           rest == Tail(queue)
<1>1. /\ n \in Nat \ {0}
      /\ DOMAIN queue = 1 .. n
      /\ Head(queue) = queue[1]
      /\ rest \in Seq(Packet)
      /\ DOMAIN rest = 1 .. n - 1
      /\ \A k \in 1 .. n - 1 : rest[k] = queue[k + 1]
  BY TailQueue
<1> HIDE DEF n, rest
<1> DEFINE later == Positions(queue, type) \ {1}
<1>2. IsFiniteSet(Positions(queue, type)) /\ IsFiniteSet(Positions(rest, type))
  BY <1>1, CountType
<1>3. Cardinality(later) = IF Head(queue).type = type THEN CountOf(queue, type) - 1
                                                       ELSE CountOf(queue, type)
  <2>1. 1 \in Positions(queue, type) <=> Head(queue).type = type
    BY <1>1 DEF Positions
  <2> QED
    BY <1>2, <2>1, FS_RemoveElement DEF CountOf
<1>4. Cardinality(later) = Cardinality(Positions(rest, type))
  <2>1. Positions(rest, type) \in SUBSET Nat /\ later \in SUBSET Nat /\ 0 \notin later
    BY <1>1 DEF Positions
  <2>2. \A k \in Nat : k \in Positions(rest, type) <=> k + 1 \in later
    <3> TAKE k \in Nat
    <3>1. CASE k \in 1 .. n - 1
      BY <1>1, <3>1 DEF Positions
    <3>2. CASE k \notin 1 .. n - 1
      BY <1>1, <3>2 DEF Positions
    <3> QED
      BY <3>1, <3>2
  <2> QED
    BY <1>2, <2>1, <2>2, ShiftedCount
<1> QED
  BY <1>3, <1>4 DEF CountOf, rest

\* An empty queue has none.
LEMMA EmptyCount == \A type : CountOf(<<>>, type) = 0
  BY FS_EmptySet DEF CountOf, Positions
(***************************************************************************)
(* The packets of a large transfer in a queue.                             *)
(***************************************************************************)
Contains(queue, type) == \E k \in DOMAIN queue : queue[k].type = type

\* A chunk is the first after its START, or the next after another chunk.
Continues(packet, previous) ==
  \/ previous.type = "LARGE_DATA_START" /\ packet.arg = 0
  \/ previous.type = "LARGE_DATA_CHUNK" /\ packet.arg = previous.arg + 1

\* One START at most, which announces total chunks; and every chunk continues
\* the packet in front of it, if that has not been taken yet.
ChunksInOrder(queue, total) ==
  /\ \A k \in DOMAIN queue : queue[k].type = "LARGE_DATA_START" => queue[k].arg = total
  /\ \A j, k \in DOMAIN queue :
       queue[j].type = "LARGE_DATA_START" /\ queue[k].type = "LARGE_DATA_START" => j = k
  /\ \A k \in DOMAIN queue :
       k > 1 /\ queue[k].type = "LARGE_DATA_CHUNK" => Continues(queue[k], queue[k - 1])

\* The two ends of a queue to which a packet has been appended, and its types.
LEMMA AppendedEnds ==
  ASSUME NEW queue \in Seq(Packet), NEW packet \in Packet
  PROVE  LET longer == Append(queue, packet)
         IN  /\ longer # <<>>
             /\ longer[Len(longer)] = packet
             /\ Head(longer) = IF queue = <<>> THEN packet ELSE Head(queue)
             /\ \A type : Contains(longer, type) <=> Contains(queue, type) \/ packet.type = type
<1> DEFINE n == Len(queue)
           longer == Append(queue, packet)
<1>1. /\ n \in Nat
      /\ DOMAIN queue = 1 .. n
      /\ longer \in Seq(Packet)
      /\ DOMAIN longer = 1 .. n + 1
      /\ \A k \in 1 .. n : longer[k] = queue[k]
      /\ longer[n + 1] = packet
  BY AppendedQueue
<1>2. longer # <<>> /\ Len(longer) = n + 1
  BY AppendProperties
<1>3. Head(longer) = longer[1]
  BY <1>1, <1>2, TailQueue
<1>4. queue # <<>> => n >= 1 /\ Head(queue) = queue[1]
  BY TailQueue
<1>5. queue = <<>> => n = 0
  BY EmptySeq
<1> HIDE DEF n, longer
<1>6. Head(longer) = IF queue = <<>> THEN packet ELSE Head(queue)
  BY <1>1, <1>3, <1>4, <1>5
<1>7. ASSUME NEW type
      PROVE  Contains(longer, type) <=> Contains(queue, type) \/ packet.type = type
  <2>1. \A k \in 1 .. n + 1 : k \in 1 .. n \/ k = n + 1
    BY <1>1
  <2>2. \A k \in 1 .. n : k \in 1 .. n + 1
    BY <1>1
  <2>3. n + 1 \in 1 .. n + 1
    BY <1>1
  <2> QED
    BY <1>1, <2>1, <2>2, <2>3 DEF Contains
<1> QED
  BY <1>1, <1>2, <1>6, <1>7 DEF longer

\* What may be appended: a START if there is none, a chunk that continues the
\* packet in front of it, and anything that is neither.
LEMMA AppendedChunks ==
  ASSUME NEW queue \in Seq(Packet), NEW packet \in Packet, NEW total,
         ChunksInOrder(queue, total),
         packet.type = "LARGE_DATA_START" =>
           packet.arg = total /\ ~Contains(queue, "LARGE_DATA_START"),
         packet.type = "LARGE_DATA_CHUNK" =>
           queue = <<>> \/ Continues(packet, queue[Len(queue)])
  PROVE  ChunksInOrder(Append(queue, packet), total)
<1> DEFINE n == Len(queue)
           longer == Append(queue, packet)
<1>1. /\ n \in Nat
      /\ DOMAIN queue = 1 .. n
      /\ DOMAIN longer = 1 .. n + 1
      /\ \A k \in 1 .. n : longer[k] = queue[k]
      /\ longer[n + 1] = packet
  BY AppendedQueue
<1>2. queue = <<>> => n = 0
  BY EmptySeq
<1>3. packet.type = "LARGE_DATA_CHUNK" => n = 0 \/ Continues(packet, queue[n])
  BY <1>2
<1> HIDE DEF n, longer
<1>4. \A k \in 1 .. n + 1 : k \in 1 .. n \/ k = n + 1
  BY <1>1
<1>5. \A k \in DOMAIN longer : longer[k].type = "LARGE_DATA_START" => longer[k].arg = total
  BY <1>1, <1>4 DEF ChunksInOrder
<1>6. ASSUME NEW j \in DOMAIN longer, NEW k \in DOMAIN longer,
             longer[j].type = "LARGE_DATA_START", longer[k].type = "LARGE_DATA_START"
      PROVE  j = k
  BY <1>1, <1>4, <1>6 DEF ChunksInOrder, Contains
<1>7. ASSUME NEW k \in DOMAIN longer, k > 1, longer[k].type = "LARGE_DATA_CHUNK"
      PROVE  Continues(longer[k], longer[k - 1])
  <2>1. CASE k = n + 1
    <3>1. k - 1 = n /\ n \in 1 .. n
      BY <1>1, <1>7, <2>1
    <3> QED
      BY <1>1, <1>3, <1>7, <2>1, <3>1
  <2>2. CASE k \in 1 .. n
    <3>1. k - 1 \in 1 .. n
      BY <1>1, <1>7, <2>2
    <3> QED
      BY <1>1, <1>7, <2>2, <3>1 DEF ChunksInOrder
  <2> QED
    BY <1>1, <1>4, <2>1, <2>2
<1> QED
  BY <1>5, <1>6, <1>7 DEF ChunksInOrder, longer

\* What is left when the oldest packet has been taken is still in order, its
\* first chunk continues the packet taken, and its last packet is the same.
LEMMA TailChunks ==
  ASSUME NEW queue \in Seq(Packet), queue # <<>>, NEW total, ChunksInOrder(queue, total)
  PROVE  LET rest == Tail(queue)
         IN  /\ ChunksInOrder(rest, total)
             /\ \A type : Contains(rest, type) => Contains(queue, type)
             /\ Contains(queue, Head(queue).type)
             /\ Head(queue).type = "LARGE_DATA_START" =>
                  Head(queue).arg = total /\ ~Contains(rest, "LARGE_DATA_START")
             /\ rest # <<>> /\ Head(rest).type = "LARGE_DATA_CHUNK" =>
                  Continues(Head(rest), Head(queue))
             /\ rest # <<>> => rest[Len(rest)] = queue[Len(queue)]
             /\ rest = <<>> => Head(queue) = queue[Len(queue)]
<1> DEFINE n == Len(queue)
           rest == Tail(queue)
<1>1. /\ n \in Nat \ {0}
      /\ DOMAIN queue = 1 .. n
      /\ Head(queue) = queue[1]
      /\ rest \in Seq(Packet)
      /\ DOMAIN rest = 1 .. n - 1
      /\ \A k \in 1 .. n - 1 : rest[k] = queue[k + 1]
  BY TailQueue
<1>2. Len(rest) = n - 1
  BY HeadTailProperties
<1>3. rest = <<>> => n = 1
  <2>1. rest = <<>> => Len(rest) = 0
    BY EmptySeq
  <2> HIDE DEF n, rest
  <2> QED
    BY <1>1, <1>2, <2>1
<1>4. rest # <<>> => n - 1 >= 1 /\ Head(rest) = rest[1]
  <2>1. rest # <<>> => Len(rest) \in Nat \ {0} /\ Head(rest) = rest[1]
    BY <1>1, TailQueue
  <2> HIDE DEF n, rest
  <2> QED
    BY <1>1, <1>2, <2>1
<1> HIDE DEF n, rest
<1>5. /\ \A k \in 1 .. n - 1 : k + 1 \in 1 .. n /\ k + 1 > 1 /\ (k + 1) - 1 = k
      /\ 1 \in 1 .. n
  BY <1>1
<1>6. ChunksInOrder(rest, total)
  <2>1. \A k \in DOMAIN rest : rest[k].type = "LARGE_DATA_START" => rest[k].arg = total
    BY <1>1, <1>5 DEF ChunksInOrder
  <2>2. ASSUME NEW j \in DOMAIN rest, NEW k \in DOMAIN rest,
               rest[j].type = "LARGE_DATA_START", rest[k].type = "LARGE_DATA_START"
        PROVE  j = k
    <3>1. j + 1 = k + 1
      BY <1>1, <1>5, <2>2 DEF ChunksInOrder
    <3> QED
      BY <1>1, <3>1
  <2>3. ASSUME NEW k \in DOMAIN rest, k > 1, rest[k].type = "LARGE_DATA_CHUNK"
        PROVE  Continues(rest[k], rest[k - 1])
    <3>1. k - 1 \in 1 .. n - 1 /\ (k - 1) + 1 = k
      BY <1>1, <2>3
    <3>2. rest[k] = queue[k + 1] /\ rest[k - 1] = queue[k]
      BY <1>1, <3>1
    <3>3. Continues(queue[k + 1], queue[(k + 1) - 1])
      BY <1>1, <1>5, <2>3, <3>2 DEF ChunksInOrder
    <3> QED
      BY <1>1, <1>5, <3>2, <3>3
  <2> QED
    BY <2>1, <2>2, <2>3 DEF ChunksInOrder
<1>7. \A type : Contains(rest, type) => Contains(queue, type)
  BY <1>1, <1>5 DEF Contains
<1>8. Contains(queue, Head(queue).type)
  BY <1>1, <1>5 DEF Contains
<1>9. Head(queue).type = "LARGE_DATA_START" =>
        Head(queue).arg = total /\ ~Contains(rest, "LARGE_DATA_START")
  <2> SUFFICES ASSUME Head(queue).type = "LARGE_DATA_START"
               PROVE  Head(queue).arg = total /\ ~Contains(rest, "LARGE_DATA_START")
    OBVIOUS
  <2>1. Head(queue).arg = total
    BY <1>1, <1>5 DEF ChunksInOrder
  <2>2. ASSUME NEW k \in 1 .. n - 1, rest[k].type = "LARGE_DATA_START"
        PROVE  FALSE
    <3>1. k + 1 = 1
      BY <1>1, <1>5, <2>2 DEF ChunksInOrder
    <3> QED
      BY <1>1, <3>1
  <2> QED
    BY <1>1, <2>1, <2>2 DEF Contains
<1>10. rest # <<>> /\ Head(rest).type = "LARGE_DATA_CHUNK" =>
         Continues(Head(rest), Head(queue))
  <2> SUFFICES ASSUME rest # <<>>, Head(rest).type = "LARGE_DATA_CHUNK"
               PROVE  Continues(Head(rest), Head(queue))
    OBVIOUS
  <2>1. 2 \in 1 .. n /\ 2 - 1 = 1 /\ 2 > 1 /\ Head(rest) = queue[2]
    <3>1. 1 \in 1 .. n - 1 /\ 1 + 1 = 2
      BY <1>1, <1>4
    <3> QED
      BY <1>1, <1>4, <3>1
  <2> QED
    BY <1>1, <2>1 DEF ChunksInOrder
<1>11. rest # <<>> => rest[Len(rest)] = queue[n]
  <2> SUFFICES ASSUME rest # <<>>
               PROVE  rest[Len(rest)] = queue[n]
    OBVIOUS
  <2>1. n - 1 \in 1 .. n - 1 /\ (n - 1) + 1 = n
    BY <1>1, <1>4
  <2> QED
    BY <1>1, <1>2, <2>1
<1>12. rest = <<>> => Head(queue) = queue[n]
  BY <1>1, <1>3
<1> QED
  BY <1>6, <1>7, <1>8, <1>9, <1>10, <1>11, <1>12 DEF rest, n

\* A receive that misses what it waits for either takes a packet or does not.
LEMMA ServerMissesType ==
  ASSUME NetTypeOK, NEW type, ServerMisses(type)
  PROVE  NetTypeOK'
  BY ServerReceivesType, ServerReceivesNothingType DEF ServerMisses

(***************************************************************************)
(* The server's types.                                                     *)
(***************************************************************************)
\* The loop counters stay within the limits, however an attempt ends.
LEMMA GiveUpType ==
  ASSUME GiveUp
  PROVE  /\ sPc' \in ServerPc
         /\ sState' \in ServerState
         /\ sendAttempt' \in 1 .. MaxRetransmissions
         /\ recvAttempt' \in 1 .. MaxRetransmissions
         /\ chunkIndex' \in Nat
  BY RetriesAssumption DEF GiveUp, ServerGoto, ServerPc, ServerState

\* A sending loop, after a failed attempt, is at a next attempt within the limit
\* or out of the loop.
LEMMA NextSendType ==
  ASSUME ServerTypeOK, NEW pc \in ServerPc, NextSend(pc)
  PROVE  /\ sPc' \in ServerPc
         /\ sState' \in ServerState
         /\ sendAttempt' \in 1 .. MaxRetransmissions
         /\ recvAttempt' \in 1 .. MaxRetransmissions
         /\ chunkIndex' \in Nat
<1>1. CASE sendAttempt < MaxRetransmissions /\ ~GiveUp
  BY <1>1, RetriesAssumption DEF NextSend, ServerTypeOK, ServerGoto
<1>2. CASE GiveUp
  BY <1>2, GiveUpType
<1> QED
  BY <1>1, <1>2 DEF NextSend

\* receiveExpectedMessageWithRetransmission stays within its attempts.
LEMMA NextReceiveType ==
  ASSUME ServerTypeOK, NextReceive
  PROVE  /\ sPc' \in ServerPc
         /\ sState' \in ServerState
         /\ sendAttempt' \in 1 .. MaxRetransmissions
         /\ recvAttempt' \in 1 .. MaxRetransmissions
         /\ chunkIndex' \in Nat
  BY RetriesAssumption DEF NextReceive, ServerTypeOK, ServerGoto

\* The server starts well typed.
LEMMA ServerInitType == ServerInit => ServerTypeOK
<1>1. ServerInit => samples \in Seq(Nat)
  BY EmptySeq DEF ServerInit
<1>2. ServerInit => /\ sPc \in ServerPc
                    /\ sState \in ServerState
                    /\ command \in Command
  BY DEF ServerInit, ServerPc, ServerState, Command
<1>3. ServerInit => /\ telemetryCount \in Nat
                    /\ responseSequence \in Nat
                    /\ sendAttempt \in 1 .. MaxRetransmissions
                    /\ recvAttempt \in 1 .. MaxRetransmissions
                    /\ chunkIndex \in Nat
  BY RetriesAssumption DEF ServerInit
<1> QED
  BY <1>1, <1>2, <1>3, Zenon DEF ServerInit, ServerTypeOK

\* Every step of the server keeps the types of its own state and of the
\* connection.
LEMMA ServerTypeStep ==
  ASSUME NetTypeOK, ServerTypeOK, ServerNext
  PROVE  NetTypeOK' /\ ServerTypeOK'
<1> USE DEF ServerTypeOK, telemetryVars, exchangeVars, loopVars, ServerGoto
<1> DEFINE LoopsTyped == /\ sendAttempt \in 1 .. MaxRetransmissions
                         /\ recvAttempt \in 1 .. MaxRetransmissions
                         /\ chunkIndex \in Nat
           PointTyped == sPc \in ServerPc /\ sState \in ServerState
<1>1. CASE Listen
  BY <1>1 DEF Listen, ServerListens, NetTypeOK, ServerPc, ServerState
<1>2. CASE ListenFails
  BY <1>2 DEF ListenFails, ServerCloses, NetTypeOK, ServerPc
<1>3. CASE Accept
  BY <1>3 DEF Accept, ServerAccepts, NetTypeOK, ServerPc, ServerState
<1>4. CASE AcceptFails
  BY <1>4 DEF AcceptFails, ServerCloses, NetTypeOK, ServerPc
<1>5. CASE Verify
  BY <1>5, ServerReceivesType DEF Verify, ServerPc
<1>6. CASE VerifyFails
  BY <1>6, GiveUpType, ServerReceivesNothingType DEF VerifyFails
<1>7. CASE SendConnectAck
  <2>1. makePacket("CONNECT_ACK", responseSequence, NoPayload) \in Packet
    BY PacketType DEF MessageType, NoPayload
  <2>2. NetTypeOK'
    BY <1>7, <2>1, ServerSendsType, NetUnchangedType DEF SendConnectAck, ServerSendFails
  <2>3. ServerTypeOK'
    BY <1>7, GiveUpType DEF SendConnectAck, ServerPc, ServerState
  <2> QED BY <2>2, <2>3
<1>8. CASE Reject
  <2>1. makePacket("ERROR_MESSAGE", responseSequence, NoPayload) \in Packet
    BY PacketType DEF MessageType, NoPayload
  <2>2. NetTypeOK'
    BY <1>8, <2>1, ServerSendsType, NetUnchangedType DEF Reject, ServerSendFails
  <2>3. ServerTypeOK'
    BY <1>8, GiveUpType DEF Reject
  <2> QED BY <2>2, <2>3
<1>9. CASE ReceiveTelemetry
  <2>1. NetTypeOK' /\ serverIncoming.arg \in Nat
    BY <1>9, ServerReceivesType DEF ReceiveTelemetry, ServerGets
  <2>2. samples' \in Seq(Nat)
    BY <1>9, <2>1 DEF ReceiveTelemetry
  <2> QED BY <1>9, <2>1, <2>2 DEF ReceiveTelemetry, ServerPc
<1>10. CASE ReceiveUnexpected
  BY <1>10, ServerReceivesType DEF ReceiveUnexpected, ServerPc
<1>11. CASE ReceiveDisconnect
  BY <1>11, ServerReceivesType DEF ReceiveDisconnect, ServerGets, ServerPc, ServerState
<1>12. CASE ActiveReceiveFails
  BY <1>12, GiveUpType, ServerReceivesNothingType DEF ActiveReceiveFails
<1>13. CASE SendTelemetryAck
  <2>1. makePacket("TELEMETRY_ACK", responseSequence, NoPayload) \in Packet
    BY PacketType DEF MessageType, NoPayload
  <2>2. NetTypeOK'
    BY <1>13, <2>1, ServerSendsType DEF SendTelemetryAck
  <2>3. PointTyped' /\ command' \in Command
    BY <1>13 DEF SendTelemetryAck, ServerPc, ServerState, Command
  <2> QED BY <1>13, <2>2, <2>3 DEF SendTelemetryAck
<1>14. CASE TelemetryAckFails
  BY <1>14, GiveUpType, NetUnchangedType DEF TelemetryAckFails, ServerSendFails
<1>15. CASE SendDisconnectAck
  <2>1. makePacket("DISCONNECT", responseSequence, NoPayload) \in Packet
    BY PacketType DEF MessageType, NoPayload
  <2>2. NetTypeOK'
    BY <1>15, <2>1, ServerSendsType, NetUnchangedType DEF SendDisconnectAck, ServerSendFails
  <2> QED BY <1>15, <2>2 DEF SendDisconnectAck, ServerPc
<1>16. CASE Shutdown
  BY <1>16 DEF Shutdown, ServerCloses, NetTypeOK, ServerPc, ServerState
<1>17. CASE SendCommand
  <2>1. makePacket("COMMAND", responseSequence, command) \in Packet
    BY PacketType DEF MessageType, Command, AdjustHeading, InitiateTransfer
  <2>2. NetTypeOK'
    BY <1>17, <2>1, ServerSendsType, NetUnchangedType DEF SendCommand, ServerSendFails
  <2>3. PointTyped' /\ LoopsTyped'
    <3>1. "sendCommand" \in ServerPc
      BY DEF ServerPc
    <3> QED BY <1>17, <3>1, NextSendType DEF SendCommand, ServerPc
  <2> QED BY <1>17, <2>2, <2>3 DEF SendCommand
<1>18. CASE ReceiveCommandAck
  BY <1>18, ServerReceivesType, RetriesAssumption
     DEF ReceiveCommandAck, ServerGets, ServerPc, ServerState
<1>19. CASE MissCommandAck
  <2>1. "sendCommand" \in ServerPc
    BY DEF ServerPc
  <2>2. PointTyped' /\ LoopsTyped'
    BY <1>19, <2>1, NextSendType, NextReceiveType DEF MissCommandAck
  <2> QED BY <1>19, <2>2, ServerMissesType DEF MissCommandAck
<1>20. CASE SendRequest
  <2>1. makePacket("DATA_REQUEST", responseSequence, NoPayload) \in Packet
    BY PacketType DEF MessageType, NoPayload
  <2>2. NetTypeOK'
    BY <1>20, <2>1, ServerSendsType, NetUnchangedType DEF SendRequest, ServerSendFails
  <2>3. PointTyped' /\ LoopsTyped'
    <3>1. "sendRequest" \in ServerPc
      BY DEF ServerPc
    <3> QED BY <1>20, <3>1, NextSendType DEF SendRequest, ServerPc
  <2> QED BY <1>20, <2>2, <2>3 DEF SendRequest
<1>21. CASE ReceiveStatus
  BY <1>21, ServerReceivesType, RetriesAssumption
     DEF ReceiveStatus, ServerGets, ServerPc, ServerState
<1>22. CASE MissStatus
  <2>1. "sendRequest" \in ServerPc
    BY DEF ServerPc
  <2>2. PointTyped' /\ LoopsTyped'
    BY <1>22, <2>1, NextSendType DEF MissStatus
  <2> QED BY <1>22, <2>2, ServerMissesType DEF MissStatus
<1>23. CASE BeginTransfer
  BY <1>23, NetUnchangedType DEF BeginTransfer, ServerPc, ServerState
<1>24. CASE SendStart
  <2>1. makePacket("LARGE_DATA_START", responseSequence, TotalChunks) \in Packet
    BY PacketType, TotalChunksNat DEF MessageType
  <2> QED BY <1>24, <2>1, ServerSendsType DEF SendStart, ServerPc
<1>25. CASE SendChunk
  <2>1. makePacket("LARGE_DATA_CHUNK", responseSequence, chunkIndex) \in Packet
    BY PacketType DEF MessageType
  <2> QED BY <1>25, <2>1, ServerSendsType DEF SendChunk, ServerSendsBulk, ServerPc
<1>26. CASE SendEnd
  <2>1. makePacket("LARGE_DATA_END", responseSequence, NoPayload) \in Packet
    BY PacketType DEF MessageType, NoPayload
  <2> QED BY <1>26, <2>1, ServerSendsType DEF SendEnd, ServerSendsBulk, ServerPc
<1>27. CASE TransferSendFails
  BY <1>27, GiveUpType, NetUnchangedType
     DEF TransferSendFails, ServerSendFails, ServerBulkSendFails
<1>28. CASE ReceiveTransferStatus
  BY <1>28, ServerReceivesType, RetriesAssumption
     DEF ReceiveTransferStatus, ServerGets, ServerPc, ServerState
<1>29. CASE MissTransferStatus
  <2>1. PointTyped' /\ LoopsTyped'
    BY <1>29, GiveUpType, NextReceiveType DEF MissTransferStatus
  <2> QED BY <1>29, <2>1, ServerMissesType DEF MissTransferStatus
<1> QED
  BY <1>1, <1>2, <1>3, <1>4, <1>5, <1>6, <1>7, <1>8, <1>9, <1>10, <1>11, <1>12,
     <1>13, <1>14, <1>15, <1>16, <1>17, <1>18, <1>19, <1>20, <1>21, <1>22, <1>23,
     <1>24, <1>25, <1>26, <1>27, <1>28, <1>29 DEF ServerNext

(***************************************************************************)
(* The server's state at each point, and its transitions.                  *)
(***************************************************************************)
\* The states at each point, row by row.
LEMMA StatesAtRows ==
  /\ StatesAt["startup"] = {"STARTUP"}
  /\ StatesAt["accept"] = {"IDLE_LISTENING"}
  /\ \A pc \in {"verify", "connectAck"} : StatesAt[pc] = {"VERIFICATION"}
  /\ StatesAt["reject"] = {"VERIFICATION", "ACTIVE"}
  /\ \A pc \in {"active", "telemetryAck", "beginTransfer"} : StatesAt[pc] = {"ACTIVE"}
  /\ \A pc \in {"sendCommand", "commandAck", "sendRequest", "statusResponse"} :
       StatesAt[pc] = {"COMMAND_PROCESSING"}
  /\ \A pc \in {"sendStart", "sendChunk", "sendEnd", "transferStatus"} :
       StatesAt[pc] = {"DATA_TRANSFER"}
  /\ StatesAt["disconnectAck"] = {"DISCONNECTING"}
  /\ StatesAt["closing"] = {"DISCONNECTING", "ERROR_STATE"}
  /\ StatesAt["done"] = {"STARTUP", "IDLE_LISTENING", "SHUTDOWN"}
  BY DEF StatesAt, ServerPc

\* The transitions of isValidTransition that the server takes.
LEMMA SuccessorRows ==
  /\ "IDLE_LISTENING" \in LegalSuccessors["STARTUP"]
  /\ "VERIFICATION" \in LegalSuccessors["IDLE_LISTENING"]
  /\ {"ACTIVE", "ERROR_STATE"} \subseteq LegalSuccessors["VERIFICATION"]
  /\ {"COMMAND_PROCESSING", "DATA_TRANSFER", "DISCONNECTING", "ERROR_STATE"}
       \subseteq LegalSuccessors["ACTIVE"]
  /\ {"ACTIVE", "ERROR_STATE"} \subseteq LegalSuccessors["COMMAND_PROCESSING"]
  /\ {"ACTIVE", "ERROR_STATE"} \subseteq LegalSuccessors["DATA_TRANSFER"]
  /\ "SHUTDOWN" \in LegalSuccessors["DISCONNECTING"]
  /\ "SHUTDOWN" \in LegalSuccessors["ERROR_STATE"]
  BY DEF LegalSuccessors, ServerState

\* Every step leads from a state of the point it starts at to a state of the
\* point it ends at, by a legal transition if the two states differ.
LEMMA TransitionStep ==
  ASSUME ServerTypeOK, StateAtPoint, ServerNext
  PROVE  StateAtPoint' /\ (sState' = sState \/ isValidTransition(sState, sState'))
<1> USE StatesAtRows, SuccessorRows
        DEF StateAtPoint, isValidTransition, ServerGoto, GiveUp
<1>1. CASE Listen \/ ListenFails
  BY <1>1 DEF Listen, ListenFails
<1>2. CASE Accept \/ AcceptFails
  BY <1>2 DEF Accept, AcceptFails
<1>3. CASE Verify \/ VerifyFails
  BY <1>3 DEF Verify, VerifyFails
<1>4. CASE SendConnectAck \/ Reject
  BY <1>4 DEF SendConnectAck, Reject
<1>5. CASE ReceiveTelemetry \/ ReceiveUnexpected \/ ReceiveDisconnect \/ ActiveReceiveFails
  BY <1>5 DEF ReceiveTelemetry, ReceiveUnexpected, ReceiveDisconnect, ActiveReceiveFails
<1>6. CASE SendTelemetryAck \/ TelemetryAckFails
  BY <1>6 DEF SendTelemetryAck, TelemetryAckFails
<1>7. CASE SendDisconnectAck \/ Shutdown
  BY <1>7 DEF SendDisconnectAck, Shutdown
<1>8. CASE SendCommand \/ ReceiveCommandAck \/ MissCommandAck
  BY <1>8 DEF SendCommand, ReceiveCommandAck, MissCommandAck, NextSend, NextReceive
<1>9. CASE SendRequest \/ ReceiveStatus \/ MissStatus
  BY <1>9 DEF SendRequest, ReceiveStatus, MissStatus, NextSend
<1>10. CASE BeginTransfer \/ SendStart \/ SendChunk \/ SendEnd \/ TransferSendFails
  BY <1>10 DEF BeginTransfer, SendStart, SendChunk, SendEnd, TransferSendFails
<1>11. CASE ReceiveTransferStatus \/ MissTransferStatus
  BY <1>11 DEF ReceiveTransferStatus, MissTransferStatus, NextReceive
<1> QED
  BY <1>1, <1>2, <1>3, <1>4, <1>5, <1>6, <1>7, <1>8, <1>9, <1>10, <1>11 DEF ServerNext

(***************************************************************************)
(* One large transfer.                                                     *)
(***************************************************************************)
\* From the INITIATE_DIAGNOSTIC_TRANSFER command to the client's report, no
\* transfer has returned yet: the invariant behind TransferNotRepeated.
TransferUnderWay ==
  \/ sPc \in {"sendCommand", "commandAck"} /\ command = InitiateTransfer
  \/ sPc \in {"beginTransfer", "sendStart", "sendChunk", "sendEnd", "transferStatus"}

FirstTransfer == TransferUnderWay => ~transferTriggered

\* transferTriggered is looked at once, at the count that starts the transfer,
\* and set once, when the transfer returns to ACTIVE; nothing in between
\* can start another.
LEMMA FirstTransferStep ==
  ASSUME ServerTypeOK, FirstTransfer, ServerNext
  PROVE  FirstTransfer'
<1> USE DEF FirstTransfer, TransferUnderWay, ServerGoto, GiveUp, telemetryVars,
            exchangeVars
<1>1. CASE Listen \/ ListenFails \/ Accept \/ AcceptFails
  BY <1>1 DEF Listen, ListenFails, Accept, AcceptFails
<1>2. CASE Verify \/ VerifyFails \/ SendConnectAck \/ Reject
  BY <1>2 DEF Verify, VerifyFails, SendConnectAck, Reject
<1>3. CASE ReceiveTelemetry \/ ReceiveUnexpected \/ ReceiveDisconnect \/ ActiveReceiveFails
  BY <1>3 DEF ReceiveTelemetry, ReceiveUnexpected, ReceiveDisconnect, ActiveReceiveFails
<1>4. CASE SendTelemetryAck
  BY <1>4 DEF SendTelemetryAck, shouldStartLargeTransfer, AdjustHeading, InitiateTransfer
<1>5. CASE TelemetryAckFails \/ SendDisconnectAck \/ Shutdown
  BY <1>5 DEF TelemetryAckFails, SendDisconnectAck, Shutdown
<1>6. CASE SendCommand \/ MissCommandAck
  BY <1>6 DEF SendCommand, MissCommandAck, NextSend, NextReceive
<1>7. CASE ReceiveCommandAck
  BY <1>7 DEF ReceiveCommandAck
<1>8. CASE SendRequest \/ ReceiveStatus \/ MissStatus
  BY <1>8 DEF SendRequest, ReceiveStatus, MissStatus, NextSend
<1>9. CASE BeginTransfer \/ SendStart \/ SendChunk \/ SendEnd \/ TransferSendFails
  BY <1>9 DEF BeginTransfer, SendStart, SendChunk, SendEnd, TransferSendFails
<1>10. CASE ReceiveTransferStatus \/ MissTransferStatus
  BY <1>10 DEF ReceiveTransferStatus, MissTransferStatus, NextReceive
<1> QED
  BY <1>1, <1>2, <1>3, <1>4, <1>5, <1>6, <1>7, <1>8, <1>9, <1>10 DEF ServerNext

\* The packet of the retransmission loop the server is in, if any, is the only
\* one in flight that has the current number; all others have smaller ones.
\* From closing on nothing more is sent.
InProgress(packet) ==
  \/ /\ sPc \in {"sendCommand", "commandAck"}
     /\ packet = makePacket("COMMAND", responseSequence, command)
  \/ /\ sPc \in {"sendRequest", "statusResponse"}
     /\ packet = makePacket("DATA_REQUEST", responseSequence, NoPayload)
  \/ sPc \in {"closing", "done"}

NumbersUsed ==
  \A k \in DOMAIN toClient :
    /\ toClient[k].seq <= responseSequence
    /\ toClient[k].seq = responseSequence => InProgress(toClient[k])

\* The inductive invariant behind NumbersIdentifyPackets.
NumbersInv == Ordered(toClient) /\ NumbersUsed

\* What a packet with the current number does to the queue it is appended to,
\* if any packet there with that number is the same.
LEMMA SendNumbers ==
  ASSUME NetTypeOK, NumbersInv,
         NEW packet \in Packet, packet.seq = responseSequence,
         \A k \in DOMAIN toClient : InProgress(toClient[k]) => toClient[k] = packet,
         toClient' = Append(toClient, packet)
  PROVE  /\ Ordered(toClient')
         /\ \A k \in DOMAIN toClient' :
              /\ toClient'[k].seq <= responseSequence
              /\ toClient'[k].seq = responseSequence => toClient'[k] = packet
<1>1. \A k \in DOMAIN toClient : /\ toClient[k].seq <= packet.seq
                                 /\ toClient[k].seq = packet.seq => toClient[k] = packet
  BY DEF NumbersInv, NumbersUsed
<1> QED
  BY <1>1, AppendOrdered DEF NetTypeOK, NumbersInv

\* Packets that arrive, or are lost together, leave the rest in order.
LEMMA ShorterQueueNumbers ==
  ASSUME NetTypeOK, NumbersInv, UNCHANGED serverVars, Shortened(toClient, toClient')
  PROVE  NumbersInv'
<1>1. \A packet : InProgress(packet)' <=> InProgress(packet)
  BY DEF serverVars, exchangeVars, InProgress
<1>2. /\ Ordered(toClient')
      /\ \A k \in DOMAIN toClient' : \E j \in DOMAIN toClient : toClient'[k] = toClient[j]
  BY ShortenedOrdered DEF NetTypeOK, NumbersInv
<1>3. NumbersUsed'
  BY <1>1, <1>2 DEF NumbersInv, NumbersUsed, serverVars
<1> QED
  BY <1>2, <1>3 DEF NumbersInv

\* A step that sends nothing either keeps the number, and with it the loop the
\* packets in flight belong to, or moves on to the next number.
LEMMA QuietNumbers ==
  ASSUME NetTypeOK, ServerTypeOK, NumbersInv, UNCHANGED toClient,
         \/ /\ UNCHANGED responseSequence
            /\ \A packet : InProgress(packet) => InProgress(packet)'
         \/ responseSequence' = responseSequence + 1
  PROVE  NumbersInv'
<1>1. \A k \in DOMAIN toClient : toClient[k].seq \in Nat
  <2> TAKE k \in DOMAIN toClient
  <2>1. toClient[k] \in Packet
    BY LenProperties, ElementOfSeq DEF NetTypeOK
  <2> QED
    BY <2>1 DEF Packet
<1>2. NumbersUsed'
  BY <1>1 DEF NumbersInv, NumbersUsed, ServerTypeOK
<1> QED
  BY <1>2 DEF NumbersInv, Ordered

\* Every step of the server keeps the numbers in order.
LEMMA NumbersStep ==
  ASSUME NetTypeOK, ServerTypeOK, NumbersInv, ServerNext
  PROVE  NumbersInv'
<1> USE DEF ServerGoto, GiveUp, telemetryVars, exchangeVars, loopVars
<1> DEFINE Sends(type, arg) == ServerSends(makePacket(type, responseSequence, arg))
           Quiet == UNCHANGED toClient
           Keeps == /\ UNCHANGED responseSequence
                    /\ \A packet : InProgress(packet) => InProgress(packet)'
           Advances == responseSequence' = responseSequence + 1
\* The first and only packet of a number, after which the number advances or
\* nothing more is sent.
<1>1. ASSUME NEW type \in MessageType, NEW arg \in Nat, Sends(type, arg),
             sPc \notin {"sendCommand", "commandAck", "sendRequest", "statusResponse",
                         "closing", "done"},
             Advances \/ (UNCHANGED responseSequence /\ sPc' = "closing")
      PROVE  NumbersInv'
  <2> DEFINE packet == makePacket(type, responseSequence, arg)
  <2>1. packet \in Packet /\ packet.seq = responseSequence
    BY PacketType DEF ServerTypeOK, makePacket
  <2>2. toClient' = Append(toClient, packet)
    BY <1>1 DEF ServerSends
  <2>3. \A k \in DOMAIN toClient : InProgress(toClient[k]) => toClient[k] = packet
    BY <1>1 DEF InProgress
  <2> HIDE DEF packet
  <2>4. /\ Ordered(toClient')
        /\ \A k \in DOMAIN toClient' : toClient'[k].seq <= responseSequence
    BY <2>1, <2>2, <2>3, SendNumbers
  <2>5. CASE Advances
    <3>1. \A k \in DOMAIN toClient' : toClient'[k].seq \in Nat
      <4> TAKE k \in DOMAIN toClient'
      <4>1. toClient' \in Seq(Packet)
        BY <2>1, <2>2, AppendProperties DEF NetTypeOK
      <4>2. toClient'[k] \in Packet
        BY <4>1, LenProperties, ElementOfSeq
      <4> QED
        BY <4>2 DEF Packet
    <3> QED
      BY <2>4, <2>5, <3>1 DEF NumbersInv, NumbersUsed, ServerTypeOK
  <2>6. CASE UNCHANGED responseSequence /\ sPc' = "closing"
    BY <2>4, <2>6 DEF NumbersInv, NumbersUsed, InProgress
  <2> QED
    BY <1>1, <2>5, <2>6
\* A packet of a retransmission loop.
<1>2. ASSUME NEW packet \in Packet, packet.seq = responseSequence, ServerSends(packet),
             UNCHANGED responseSequence,
             \A k \in DOMAIN toClient : InProgress(toClient[k]) => toClient[k] = packet,
             InProgress(packet)'
      PROVE  NumbersInv'
  <2>1. toClient' = Append(toClient, packet)
    BY <1>2 DEF ServerSends
  <2>2. /\ Ordered(toClient')
        /\ \A k \in DOMAIN toClient' :
             /\ toClient'[k].seq <= responseSequence
             /\ toClient'[k].seq = responseSequence => toClient'[k] = packet
    BY <1>2, <2>1, SendNumbers
  <2> QED
    BY <1>2, <2>2 DEF NumbersInv, NumbersUsed
<1>3. ASSUME Quiet, Keeps \/ Advances
      PROVE  NumbersInv'
  BY <1>3, QuietNumbers
<1> HIDE DEF Sends
<1>4. CASE Listen \/ ListenFails \/ Accept \/ AcceptFails
  <2>1. Quiet /\ Keeps
    BY <1>4 DEF Listen, ListenFails, Accept, AcceptFails, ServerListens, ServerCloses,
                ServerAccepts, InProgress
  <2> QED BY <1>3, <2>1
<1>5. CASE Verify \/ VerifyFails
  <2>1. Quiet /\ Keeps
    BY <1>5 DEF Verify, VerifyFails, ServerReceives, ServerReceivesNothing, netVars,
                InProgress
  <2> QED BY <1>3, <2>1
<1>6. CASE SendConnectAck
  <2>1. CASE Sends("CONNECT_ACK", NoPayload)
    <3>1. Advances \/ (UNCHANGED responseSequence /\ sPc' = "closing")
      BY <1>6 DEF SendConnectAck
    <3> QED BY <1>1, <1>6, <2>1, <3>1 DEF SendConnectAck, MessageType, NoPayload
  <2>2. CASE ServerSendFails /\ Quiet /\ UNCHANGED responseSequence
    BY <1>3, <1>6, <2>2 DEF SendConnectAck, InProgress
  <2> QED BY <1>6, <2>1, <2>2 DEF SendConnectAck, ServerSendFails, netVars, Sends
<1>7. CASE Reject
  <2>1. CASE Sends("ERROR_MESSAGE", NoPayload)
    BY <1>1, <1>7, <2>1 DEF Reject, MessageType, NoPayload
  <2>2. CASE Quiet
    BY <1>3, <1>7, <2>2 DEF Reject, InProgress
  <2> QED BY <1>7, <2>1, <2>2 DEF Reject, ServerSendFails, netVars, Sends
<1>8. CASE ReceiveTelemetry \/ ReceiveUnexpected \/ ReceiveDisconnect \/ ActiveReceiveFails
  <2>1. Quiet /\ Keeps
    BY <1>8 DEF ReceiveTelemetry, ReceiveUnexpected, ReceiveDisconnect,
                ActiveReceiveFails, ServerGets, ServerReceives, ServerReceivesNothing,
                netVars, InProgress
  <2> QED BY <1>3, <2>1
<1>9. CASE SendTelemetryAck
  BY <1>1, <1>9 DEF SendTelemetryAck, Sends, MessageType, NoPayload
<1>10. CASE TelemetryAckFails \/ Shutdown
  <2>1. Quiet /\ Keeps
    BY <1>10 DEF TelemetryAckFails, Shutdown, ServerSendFails, ServerCloses, netVars,
                 InProgress
  <2> QED BY <1>3, <2>1
<1>11. CASE SendDisconnectAck
  <2>1. CASE Sends("DISCONNECT", NoPayload)
    BY <1>1, <1>11, <2>1 DEF SendDisconnectAck, MessageType, NoPayload
  <2>2. CASE Quiet
    BY <1>3, <1>11, <2>2 DEF SendDisconnectAck, InProgress
  <2> QED BY <1>11, <2>1, <2>2 DEF SendDisconnectAck, ServerSendFails, netVars, Sends
<1>12. CASE SendCommand
  <2>1. CASE /\ ServerSends(makePacket("COMMAND", responseSequence, command))
             /\ sPc' = "commandAck"
    <3>1. makePacket("COMMAND", responseSequence, command) \in Packet
      <4>1. command \in Nat /\ responseSequence \in Nat
        BY DEF ServerTypeOK, Command, AdjustHeading, InitiateTransfer
      <4> QED BY <4>1, PacketType DEF MessageType
    <3>2. PICK packet \in Packet : packet = makePacket("COMMAND", responseSequence, command)
      BY <3>1
    <3>3. packet.seq = responseSequence
      BY <3>2 DEF makePacket
    <3>4. /\ UNCHANGED responseSequence
          /\ \A k \in DOMAIN toClient : InProgress(toClient[k]) => toClient[k] = packet
          /\ InProgress(packet)'
      BY <1>12, <2>1, <3>2 DEF SendCommand, InProgress
    <3> QED BY <1>2, <2>1, <3>2, <3>3, <3>4
  <2>2. CASE ServerSendFails /\ NextSend("sendCommand")
    <3>1. Quiet /\ Keeps
      BY <1>12, <2>2 DEF SendCommand, ServerSendFails, netVars, NextSend, InProgress
    <3> QED BY <1>3, <3>1
  <2> QED BY <1>12, <2>1, <2>2 DEF SendCommand
<1>13. CASE ReceiveCommandAck \/ ReceiveStatus
  <2>1. Quiet /\ Advances
    BY <1>13 DEF ReceiveCommandAck, ReceiveStatus, ServerGets, ServerReceives
  <2> QED BY <1>3, <2>1
<1>14. CASE MissCommandAck \/ MissStatus
  <2>1. Quiet
    BY <1>14 DEF MissCommandAck, MissStatus, ServerMisses, ServerReceives,
                 ServerReceivesNothing, netVars
  <2>2. Keeps
    BY <1>14 DEF MissCommandAck, MissStatus, NextSend, NextReceive, InProgress
  <2> QED BY <1>3, <2>1, <2>2
<1>15. CASE SendRequest
  <2>1. CASE /\ ServerSends(makePacket("DATA_REQUEST", responseSequence, NoPayload))
             /\ sPc' = "statusResponse"
    <3>1. makePacket("DATA_REQUEST", responseSequence, NoPayload) \in Packet
      BY PacketType DEF MessageType, ServerTypeOK, NoPayload
    <3>2. PICK packet \in Packet : packet = makePacket("DATA_REQUEST", responseSequence, NoPayload)
      BY <3>1
    <3>3. packet.seq = responseSequence
      BY <3>2 DEF makePacket
    <3>4. /\ UNCHANGED responseSequence
          /\ \A k \in DOMAIN toClient : InProgress(toClient[k]) => toClient[k] = packet
          /\ InProgress(packet)'
      BY <1>15, <2>1, <3>2 DEF SendRequest, InProgress
    <3> QED BY <1>2, <2>1, <3>2, <3>3, <3>4
  <2>2. CASE ServerSendFails /\ NextSend("sendRequest")
    <3>1. Quiet /\ Keeps
      BY <1>15, <2>2 DEF SendRequest, ServerSendFails, netVars, NextSend, InProgress
    <3> QED BY <1>3, <3>1
  <2> QED BY <1>15, <2>1, <2>2 DEF SendRequest
<1>16. CASE BeginTransfer
  <2>1. Quiet /\ Keeps
    BY <1>16 DEF BeginTransfer, netVars, InProgress
  <2> QED BY <1>3, <2>1
<1>17. CASE SendStart
  BY <1>1, <1>17, TotalChunksNat DEF SendStart, Sends, MessageType
<1>18. CASE SendChunk
  BY <1>1, <1>18 DEF SendChunk, ServerSendsBulk, Sends, MessageType, ServerTypeOK
<1>19. CASE SendEnd
  BY <1>1, <1>19 DEF SendEnd, ServerSendsBulk, Sends, MessageType, NoPayload
<1>20. CASE TransferSendFails
  <2>1. Quiet /\ Keeps
    BY <1>20 DEF TransferSendFails, ServerSendFails, ServerBulkSendFails, netVars,
                 InProgress
  <2> QED BY <1>3, <2>1
<1>21. CASE ReceiveTransferStatus \/ MissTransferStatus
  <2>1. Quiet
    BY <1>21 DEF ReceiveTransferStatus, MissTransferStatus, ServerGets, ServerMisses,
                 ServerReceives, ServerReceivesNothing, netVars
  <2>2. Keeps
    BY <1>21 DEF ReceiveTransferStatus, MissTransferStatus, NextReceive, InProgress
  <2> QED BY <1>3, <2>1, <2>2
<1> QED
  BY <1>4, <1>5, <1>6, <1>7, <1>8, <1>9, <1>10, <1>11, <1>12, <1>13, <1>14, <1>15,
     <1>16, <1>17, <1>18, <1>19, <1>20, <1>21 DEF ServerNext

(***************************************************************************)
(* Counting and acknowledging.                                             *)
(***************************************************************************)
\* What a step of the server means for its count and its acknowledgements: a
\* sample is counted on the way to its acknowledgement, and none is sent
\* otherwise.
LEMMA ServerAckStep ==
  ASSUME NetTypeOK, ServerTypeOK, ServerNext
  PROVE  \/ \E packet \in Packet :
              /\ toClient' = Append(toClient, packet)
              /\ UNCHANGED telemetryCount
              /\ packet.type = "TELEMETRY_ACK" => sPc = "telemetryAck"
              /\ sPc' # "telemetryAck"
         \/ /\ UNCHANGED <<toClient, telemetryCount>>
            /\ sPc' = "telemetryAck" => sPc = "telemetryAck"
         \/ /\ UNCHANGED toClient
            /\ telemetryCount' = telemetryCount + 1
            /\ sPc # "telemetryAck"
<1> USE DEF ServerGoto, GiveUp, telemetryVars, netVars, Ends
<1> DEFINE Sends(type, arg) ==
             /\ type \in MessageType /\ arg \in Nat
             /\ type = "TELEMETRY_ACK" => sPc = "telemetryAck"
             /\ ServerSends(makePacket(type, responseSequence, arg))
             /\ UNCHANGED telemetryCount
             /\ sPc' # "telemetryAck"
           Appends == \E packet \in Packet :
                        /\ toClient' = Append(toClient, packet)
                        /\ UNCHANGED telemetryCount
                        /\ packet.type = "TELEMETRY_ACK" => sPc = "telemetryAck"
                        /\ sPc' # "telemetryAck"
           Quiet == /\ UNCHANGED <<toClient, telemetryCount>>
                    /\ sPc' = "telemetryAck" => sPc = "telemetryAck"
<1>1. ASSUME NEW type, NEW arg, Sends(type, arg)
      PROVE  Appends
  <2>1. makePacket(type, responseSequence, arg) \in Packet
    BY <1>1, PacketType DEF ServerTypeOK
  <2>2. makePacket(type, responseSequence, arg).type = type
    BY DEF makePacket
  <2> QED
    BY <1>1, <2>1, <2>2 DEF ServerSends
<1>2. CASE Listen \/ ListenFails \/ Accept \/ AcceptFails \/ Verify \/ VerifyFails
  BY <1>2 DEF Listen, ListenFails, Accept, AcceptFails, Verify, VerifyFails, ServerListens,
              ServerCloses, ServerAccepts, ServerReceives, ServerReceivesNothing
<1>3. CASE SendConnectAck
  <2>1. Sends("CONNECT_ACK", NoPayload) \/ Quiet
    BY <1>3 DEF SendConnectAck, ServerSendFails, MessageType, NoPayload
  <2> QED BY <1>1, <2>1
<1>4. CASE Reject
  <2>1. Sends("ERROR_MESSAGE", NoPayload) \/ Quiet
    BY <1>4 DEF Reject, ServerSendFails, MessageType, NoPayload
  <2> QED BY <1>1, <2>1
<1>5. CASE ReceiveTelemetry \/ ReceiveUnexpected \/ ReceiveDisconnect \/ ActiveReceiveFails
  BY <1>5 DEF ReceiveTelemetry, ReceiveUnexpected, ReceiveDisconnect, ActiveReceiveFails,
              ServerGets, ServerReceives, ServerReceivesNothing
<1>6. CASE SendTelemetryAck
  <2>1. Sends("TELEMETRY_ACK", NoPayload)
    BY <1>6 DEF SendTelemetryAck, MessageType, NoPayload
  <2> QED BY <1>1, <2>1
<1>7. CASE TelemetryAckFails \/ Shutdown
  BY <1>7 DEF TelemetryAckFails, Shutdown, ServerSendFails, ServerCloses
<1>8. CASE SendDisconnectAck
  <2>1. Sends("DISCONNECT", NoPayload) \/ Quiet
    BY <1>8 DEF SendDisconnectAck, ServerSendFails, MessageType, NoPayload
  <2> QED BY <1>1, <2>1
<1>9. CASE SendCommand
  <2>1. Sends("COMMAND", command) \/ Quiet
    BY <1>9 DEF SendCommand, ServerSendFails, NextSend, MessageType, ServerTypeOK,
                Command, AdjustHeading, InitiateTransfer
  <2> QED BY <1>1, <2>1
<1>10. CASE ReceiveCommandAck \/ MissCommandAck
  BY <1>10 DEF ReceiveCommandAck, MissCommandAck, NextSend, NextReceive, ServerGets,
               ServerMisses, ServerReceives, ServerReceivesNothing
<1>11. CASE SendRequest
  <2>1. Sends("DATA_REQUEST", NoPayload) \/ Quiet
    BY <1>11 DEF SendRequest, ServerSendFails, NextSend, MessageType, NoPayload
  <2> QED BY <1>1, <2>1
<1>12. CASE ReceiveStatus \/ MissStatus
  BY <1>12 DEF ReceiveStatus, MissStatus, NextSend, ServerGets, ServerMisses,
               ServerReceives, ServerReceivesNothing
<1>13. CASE BeginTransfer
  BY <1>13 DEF BeginTransfer
<1>14. CASE SendStart
  <2>1. Sends("LARGE_DATA_START", TotalChunks)
    BY <1>14, TotalChunksNat DEF SendStart, MessageType
  <2> QED BY <1>1, <2>1
<1>15. CASE SendChunk
  <2>1. Sends("LARGE_DATA_CHUNK", chunkIndex)
    BY <1>15 DEF SendChunk, ServerSendsBulk, MessageType, ServerTypeOK
  <2> QED BY <1>1, <2>1
<1>16. CASE SendEnd
  <2>1. Sends("LARGE_DATA_END", NoPayload)
    BY <1>16 DEF SendEnd, ServerSendsBulk, MessageType, NoPayload
  <2> QED BY <1>1, <2>1
<1>17. CASE TransferSendFails
  BY <1>17 DEF TransferSendFails, ServerSendFails, ServerBulkSendFails
<1>18. CASE ReceiveTransferStatus \/ MissTransferStatus
  BY <1>18 DEF ReceiveTransferStatus, MissTransferStatus, NextReceive, ServerGets,
               ServerMisses, ServerReceives, ServerReceivesNothing
<1> QED
  BY <1>2, <1>3, <1>4, <1>5, <1>6, <1>7, <1>8, <1>9, <1>10, <1>11, <1>12, <1>13, <1>14,
     <1>15, <1>16, <1>17, <1>18 DEF ServerNext
(***************************************************************************)
(* The packets of the large transfer.                                      *)
(***************************************************************************)
\* The server has not sent LARGE_DATA_START, and may still do so.
NotBegun == /\ ~transferTriggered
            /\ sPc \notin {"sendChunk", "sendEnd", "transferStatus", "closing", "done"}

\* The next chunk is the first one wherever a transfer can begin.
FromFirstChunk == sPc \notin {"sendChunk", "sendEnd"} => chunkIndex = 0

\* Only SendStart and SendChunk put START and chunks into the connection; every
\* other step leaves the chunks behind, and none takes the transfer back to
\* before its beginning.
LEMMA ServerTransferStep ==
  ASSUME NetTypeOK, ServerTypeOK, FromFirstChunk, ServerNext
  PROVE  \/ SendStart
         \/ SendChunk
         \/ /\ sPc' \notin {"sendChunk", "sendEnd"} /\ chunkIndex' = 0
            /\ NotBegun' => NotBegun
            /\ reset => reset'
            /\ \/ UNCHANGED toClient
               \/ \E packet \in Packet :
                    /\ toClient' = Append(toClient, packet)
                    /\ packet.type \notin {"LARGE_DATA_START", "LARGE_DATA_CHUNK"}
<1> USE DEF ServerGoto, GiveUp, telemetryVars, exchangeVars, loopVars, netVars, Ends,
            FromFirstChunk, NotBegun
<1> DEFINE Elsewhere == /\ sPc' \notin {"sendChunk", "sendEnd"} /\ chunkIndex' = 0
                        /\ NotBegun' => NotBegun
           Quiet == UNCHANGED toClient /\ (reset => reset')
           Sends(type, arg) ==
             /\ type \in MessageType /\ arg \in Nat
             /\ type \notin {"LARGE_DATA_START", "LARGE_DATA_CHUNK"}
             /\ ServerSends(makePacket(type, responseSequence, arg))
           Appends == /\ reset => reset'
                      /\ \E packet \in Packet :
                           /\ toClient' = Append(toClient, packet)
                           /\ packet.type \notin {"LARGE_DATA_START", "LARGE_DATA_CHUNK"}
           Other == Elsewhere /\ (Quiet \/ Appends)
<1>1. ASSUME NEW type, NEW arg, Sends(type, arg)
      PROVE  Appends
  <2>1. makePacket(type, responseSequence, arg) \in Packet
    BY <1>1, PacketType DEF ServerTypeOK
  <2>2. makePacket(type, responseSequence, arg).type = type
    BY DEF makePacket
  <2> QED
    BY <1>1, <2>1, <2>2 DEF ServerSends
\* Closing the sockets can only add to a reset.
<1>c. ServerCloses => Quiet
  BY Zenon DEF ServerCloses
<1>2. CASE Listen \/ ListenFails \/ Accept \/ AcceptFails \/ Verify \/ VerifyFails
  <2>1. Elsewhere
    BY <1>2 DEF Listen, ListenFails, Accept, AcceptFails, Verify, VerifyFails
  <2>2. Quiet
    BY <1>2, <1>c DEF Listen, ListenFails, Accept, AcceptFails, Verify, VerifyFails,
                      ServerListens, ServerAccepts, ServerReceives, ServerReceivesNothing
  <2> QED BY <2>1, <2>2
<1>3. CASE SendConnectAck
  <2>1. Elsewhere
    BY <1>3 DEF SendConnectAck
  <2>2. Sends("CONNECT_ACK", NoPayload) \/ Quiet
    BY <1>3 DEF SendConnectAck, ServerSendFails, MessageType, NoPayload
  <2> QED BY <1>1, <2>1, <2>2
<1>4. CASE Reject
  <2>1. Elsewhere
    BY <1>4 DEF Reject
  <2>2. Sends("ERROR_MESSAGE", NoPayload) \/ Quiet
    BY <1>4 DEF Reject, ServerSendFails, MessageType, NoPayload
  <2> QED BY <1>1, <2>1, <2>2
<1>5. CASE ReceiveTelemetry \/ ReceiveUnexpected \/ ReceiveDisconnect \/ ActiveReceiveFails
  <2>1. Elsewhere
    BY <1>5 DEF ReceiveTelemetry, ReceiveUnexpected, ReceiveDisconnect, ActiveReceiveFails
  <2>2. Quiet
    BY <1>5 DEF ReceiveTelemetry, ReceiveUnexpected, ReceiveDisconnect,
                ActiveReceiveFails, ServerGets, ServerReceives, ServerReceivesNothing
  <2> QED BY <2>1, <2>2
<1>6. CASE SendTelemetryAck
  <2>1. Elsewhere
    BY <1>6 DEF SendTelemetryAck
  <2>2. Sends("TELEMETRY_ACK", NoPayload)
    BY <1>6 DEF SendTelemetryAck, MessageType, NoPayload
  <2> QED BY <1>1, <2>1, <2>2
<1>7. CASE TelemetryAckFails \/ Shutdown
  <2>1. Elsewhere
    BY <1>7 DEF TelemetryAckFails, Shutdown
  <2>2. Quiet
    BY <1>7, <1>c DEF TelemetryAckFails, Shutdown, ServerSendFails
  <2> QED BY <2>1, <2>2
<1>8. CASE SendDisconnectAck
  <2>1. Elsewhere
    BY <1>8 DEF SendDisconnectAck
  <2>2. Sends("DISCONNECT", NoPayload) \/ Quiet
    BY <1>8 DEF SendDisconnectAck, ServerSendFails, MessageType, NoPayload
  <2> QED BY <1>1, <2>1, <2>2
<1>9. CASE SendCommand
  <2>1. Elsewhere
    BY <1>9 DEF SendCommand, NextSend
  <2>2. Sends("COMMAND", command) \/ Quiet
    BY <1>9 DEF SendCommand, ServerSendFails, MessageType, ServerTypeOK, Command,
                AdjustHeading, InitiateTransfer
  <2> QED BY <1>1, <2>1, <2>2
<1>10. CASE ReceiveCommandAck \/ MissCommandAck
  <2>1. Elsewhere
    BY <1>10 DEF ReceiveCommandAck, MissCommandAck, NextSend, NextReceive
  <2>2. Quiet
    BY <1>10 DEF ReceiveCommandAck, MissCommandAck, ServerGets, ServerMisses,
                 ServerReceives, ServerReceivesNothing
  <2> QED BY <2>1, <2>2
<1>11. CASE SendRequest
  <2>1. Elsewhere
    BY <1>11 DEF SendRequest, NextSend
  <2>2. Sends("DATA_REQUEST", NoPayload) \/ Quiet
    BY <1>11 DEF SendRequest, ServerSendFails, MessageType, NoPayload
  <2> QED BY <1>1, <2>1, <2>2
<1>12. CASE ReceiveStatus \/ MissStatus
  <2>1. Elsewhere
    BY <1>12 DEF ReceiveStatus, MissStatus, NextSend
  <2>2. Quiet
    BY <1>12 DEF ReceiveStatus, MissStatus, ServerGets, ServerMisses, ServerReceives,
                 ServerReceivesNothing
  <2> QED BY <2>1, <2>2
<1>13. CASE BeginTransfer
  BY <1>13 DEF BeginTransfer
<1>14. CASE SendEnd
  <2>1. Elsewhere
    BY <1>14 DEF SendEnd
  <2>2. Sends("LARGE_DATA_END", NoPayload)
    BY <1>14 DEF SendEnd, ServerSendsBulk, MessageType, NoPayload
  <2> QED BY <1>1, <2>1, <2>2
<1>15. CASE TransferSendFails
  <2>1. Elsewhere
    BY <1>15 DEF TransferSendFails
  <2>2. Quiet
    BY <1>15 DEF TransferSendFails, ServerSendFails, ServerBulkSendFails
  <2> QED BY <2>1, <2>2
<1>16. CASE ReceiveTransferStatus \/ MissTransferStatus
  <2>1. Elsewhere
    BY <1>16 DEF ReceiveTransferStatus, MissTransferStatus, NextReceive
  <2>2. Quiet
    BY <1>16 DEF ReceiveTransferStatus, MissTransferStatus, ServerGets, ServerMisses,
                 ServerReceives, ServerReceivesNothing
  <2> QED BY <2>1, <2>2
<1> QED
  BY <1>2, <1>3, <1>4, <1>5, <1>6, <1>7, <1>8, <1>9, <1>10, <1>11, <1>12, <1>13, <1>14,
     <1>15, <1>16 DEF ServerNext

(***************************************************************************)
(* The client's types.                                                     *)
(***************************************************************************)
\* The client is in its telemetry loop, or in a window of the post-telemetry
\* loop that has windows left; what ClientTypeOK alone does not tell.
WindowPoint ==
  cPc \in {"optional", "answerCommand", "answerRequest", "chunk", "end", "transferStatus"}

WindowInv ==
  \/ cPc \in {"disconnect", "finalAck", "close", "done"}
  \/ index < NumSamples
  \/ WindowPoint /\ waitCycle < PostCycles

ClientInv == ClientTypeOK /\ WindowInv

\* A receive that misses what it waits for either takes a packet or does not.
LEMMA ClientMissesType ==
  ASSUME NetTypeOK, NEW type, ClientMisses(type)
  PROVE  NetTypeOK'
  BY ClientReceivesType, ClientReceivesNothingType DEF ClientMisses

\* What a step of the client's loops must leave in order.
LoopTyped == /\ cPc \in ClientPc
             /\ cSendAttempt \in 1 .. sendLimit
             /\ cRecvAttempt \in 1 .. MaxRetransmissions
             /\ exitCode \in {"running", "0", "1"}

\* An error path of main closes the socket.
LEMMA FailType ==
  ASSUME Fail
  PROVE  LoopTyped' /\ WindowInv'
  BY RetriesAssumption DEF Fail, LoopTyped, WindowInv, ClientPc, sendLimit

\* A sending loop, after a failed attempt, is at a next attempt or has failed.
LEMMA NextClientSendType ==
  ASSUME ClientInv, NEW pc \in ClientPc, NEW attempts, NextClientSend(pc, attempts),
         UNCHANGED windowVars, index < NumSamples, attempts \in Nat,
         attempts = IF pc = "connect" THEN MaxReconnects ELSE MaxRetransmissions
  PROVE  LoopTyped' /\ WindowInv'
<1>1. CASE cSendAttempt < attempts /\ ~Fail
  BY <1>1, RetriesAssumption
     DEF NextClientSend, ClientInv, ClientTypeOK, LoopTyped, WindowInv, windowVars,
         sendLimit
<1>2. CASE Fail
  BY <1>2, FailType
<1> QED
  BY <1>1, <1>2 DEF NextClientSend

\* receiveExpectedPacketWithRetransmission stays within its attempts.
LEMMA NextClientReceiveType ==
  ASSUME ClientInv, NextClientReceive, UNCHANGED windowVars, index < NumSamples
  PROVE  LoopTyped' /\ WindowInv'
  BY RetriesAssumption
     DEF NextClientReceive, ClientInv, ClientTypeOK, LoopTyped, WindowInv, windowVars,
         sendLimit

\* When a window closes the counters of both loops are within their limits.
LEMMA WindowClosesType ==
  ASSUME ClientInv, WindowPoint, WindowCloses
  PROVE  /\ LoopTyped'
         /\ WindowInv'
         /\ index' \in 0 .. NumSamples
         /\ waitCycle' \in 0 .. PostCycles
<1> USE ClientAssumption DEF ClientInv, ClientTypeOK, sendLimit
<1>1. CASE index < NumSamples
  BY <1>1 DEF WindowCloses, LoopTyped, WindowInv, WindowPoint, ClientPc, clientLoopVars
<1>2. CASE ~(index < NumSamples)
  <2>1. index = NumSamples /\ waitCycle < PostCycles
    BY <1>2 DEF WindowInv, WindowPoint
  <2> QED
    BY <1>2, <2>1
       DEF WindowCloses, LoopTyped, WindowInv, WindowPoint, ClientPc, clientLoopVars
<1> QED
  BY <1>1, <1>2

\* Every step of the client keeps the types of its own state and of the
\* connection.
LEMMA ClientTypeStep ==
  ASSUME NetTypeOK, ClientInv, ClientNext
  PROVE  NetTypeOK' /\ ClientInv'
<1> USE RetriesAssumption DEF ClientInv, ClientTypeOK, sendLimit, windowVars, transferVars
<1> DEFINE IndexTyped    == index \in 0 .. NumSamples /\ waitCycle \in 0 .. PostCycles
           TransferTyped == /\ expectedChunks \in Nat
                            /\ fileBuffer \in Seq(Nat)
                            /\ largeTransferCompleted \in BOOLEAN
           DataTyped     == sequenceNumber \in Nat /\ order \in Nat /\ TransferTyped
           Sends(type, arg) == ClientSends(makePacket(type, sequenceNumber, arg))
<1> USE DEF LoopTyped
<1>0. ASSUME NEW type \in MessageType, NEW arg \in Nat, Sends(type, arg)
      PROVE  NetTypeOK'
  <2>1. makePacket(type, sequenceNumber, arg) \in Packet
    BY PacketType
  <2> QED BY <1>0, <2>1, ClientSendsType
<1>1. CASE Connect
  <2>1. NetTypeOK'
    BY <1>1 DEF Connect, ClientConnects, NetTypeOK
  <2> QED BY <1>1, <2>1 DEF Connect, ClientPc, WindowInv, WindowPoint
<1>2. CASE ConnectFails
  <2>1. LoopTyped' /\ WindowInv'
    BY <1>2, NextClientSendType DEF ConnectFails, ClientPc, WindowInv, WindowPoint
  <2> QED BY <1>2, <2>1, NetUnchangedType DEF ConnectFails, ClientConnectRefused
<1>3. CASE SendConnectRequest
  <2>1. NetTypeOK'
    BY <1>0, <1>3, NetUnchangedType
       DEF SendConnectRequest, ClientSendFails, MessageType, NoPayload
  <2>2. LoopTyped' /\ WindowInv'
    BY <1>3, NextClientSendType
       DEF SendConnectRequest, ClientPc, WindowInv, WindowPoint, clientLoopVars
  <2> QED BY <1>3, <2>1, <2>2 DEF SendConnectRequest
<1>4. CASE ReceiveConnectAck
  BY <1>4, ClientReceivesType, RetriesAssumption
     DEF ReceiveConnectAck, ClientGets, ClientPc, WindowInv, WindowPoint
<1>5. CASE MissConnectAck
  <2>1. LoopTyped' /\ WindowInv'
    BY <1>5, NextClientSendType, NextClientReceiveType
       DEF MissConnectAck, ClientPc, WindowInv, WindowPoint
  <2> QED BY <1>5, <2>1, ClientMissesType DEF MissConnectAck
<1>6. CASE SendTelemetry
  <2>1. NetTypeOK'
    BY <1>0, <1>6, NetUnchangedType DEF SendTelemetry, ClientSendFails, MessageType
  <2>2. LoopTyped' /\ WindowInv'
    BY <1>6, NextClientSendType
       DEF SendTelemetry, ClientPc, WindowInv, WindowPoint, clientLoopVars
  <2> QED BY <1>6, <2>1, <2>2 DEF SendTelemetry
<1>7. CASE ReceiveTelemetryAck
  BY <1>7, ClientReceivesType, RetriesAssumption
     DEF ReceiveTelemetryAck, ClientGets, ClientPc, WindowInv, WindowPoint
<1>8. CASE MissTelemetryAck
  <2>1. LoopTyped' /\ WindowInv'
    BY <1>8, NextClientSendType, NextClientReceiveType
       DEF MissTelemetryAck, ClientPc, WindowInv, WindowPoint
  <2> QED BY <1>8, <2>1, ClientMissesType DEF MissTelemetryAck
<1>9. CASE NoOptionalMessage
  BY <1>9, NetUnchangedType, WindowClosesType
     DEF NoOptionalMessage, ClientSeesSilence, WindowPoint
<1>10. CASE OptionalReceiveFails
  BY <1>10, NetUnchangedType, ClientReceivesType, FailType
     DEF OptionalReceiveFails, ClientReceiveFails
<1>11. CASE IgnoreOptionalMessage
  BY <1>11, ClientReceivesType, WindowClosesType DEF IgnoreOptionalMessage, WindowPoint
<1>12. CASE ReceiveCommand
  BY <1>12, ClientReceivesType
     DEF ReceiveCommand, ClientGets, ClientPc, WindowInv, WindowPoint, clientLoopVars
<1>13. CASE ReceiveDataRequest
  BY <1>13, ClientReceivesType
     DEF ReceiveDataRequest, ClientGets, ClientPc, WindowInv, WindowPoint, clientLoopVars
<1>14. ASSUME NEW type \in MessageType, NEW arg \in Nat, WindowPoint,
              Answer(makePacket(type, sequenceNumber, arg))
       PROVE  NetTypeOK' /\ ClientInv'
  <2>1. NetTypeOK'
    BY <1>0, <1>14, NetUnchangedType DEF Answer, ClientSendFails
  <2>2. LoopTyped' /\ WindowInv' /\ IndexTyped'
    BY <1>14, WindowClosesType, FailType DEF Answer
  <2> QED BY <1>14, <2>1, <2>2 DEF Answer
<1>15. CASE SendCommandAck
  BY <1>14, <1>15 DEF SendCommandAck, MessageType, WindowPoint
<1>16. CASE SendStatus
  BY <1>14, <1>16 DEF SendStatus, MessageType, WindowPoint, EngineStatus
<1>17. CASE ReceiveStart
  <2>1. NetTypeOK' /\ clientIncoming.arg \in Nat
    BY <1>17, ClientReceivesType DEF ReceiveStart, ClientGets
  <2>2. TransferTyped'
    BY <1>17, <2>1, EmptySeq DEF ReceiveStart
  <2> QED
    BY <1>17, <2>1, <2>2 DEF ReceiveStart, ClientPc, WindowInv, WindowPoint, clientLoopVars
<1>18. CASE ReceiveChunk
  <2>1. NetTypeOK' /\ clientIncoming.arg \in Nat
    BY <1>18, ClientReceivesType DEF ReceiveChunk, ClientGets
  <2>2. TransferTyped'
    BY <1>18, <2>1, AppendProperties DEF ReceiveChunk
  <2> QED
    BY <1>18, <2>1, <2>2 DEF ReceiveChunk, ClientPc, WindowInv, WindowPoint, clientLoopVars
<1>19. CASE ReceiveEnd
  BY <1>19, ClientReceivesType
     DEF ReceiveEnd, ClientGets, ClientPc, WindowInv, WindowPoint, clientLoopVars
<1>20. CASE TransferReceiveFails
  BY <1>20, ClientMissesType, ClientReceivesType, FailType
     DEF TransferReceiveFails, ClientGets
<1>21. CASE SendTransferStatus
  <2>1. NetTypeOK'
    BY <1>0, <1>21 DEF SendTransferStatus, MessageType, TransferOk, TransferFailed
  <2>2. bufferAccepted(fileBuffer) \in BOOLEAN
    BY DEF bufferAccepted
  <2>3. LoopTyped' /\ WindowInv' /\ IndexTyped'
    BY <1>21, WindowClosesType, FailType DEF SendTransferStatus, WindowPoint
  <2> HIDE DEF LoopTyped
  <2>4. DataTyped'
    BY <1>21, <2>2 DEF SendTransferStatus
  <2> QED BY <2>1, <2>3, <2>4 DEF LoopTyped
<1>22. CASE TransferStatusFails
  <2>1. NetTypeOK' /\ LoopTyped' /\ WindowInv'
    BY <1>22, NetUnchangedType, FailType DEF TransferStatusFails, ClientSendFails
  <2> HIDE DEF LoopTyped
  <2>2. UNCHANGED <<index, waitCycle, order, expectedChunks, fileBuffer>>
    BY <1>22 DEF TransferStatusFails
  <2>3. sequenceNumber' = sequenceNumber + 1 /\ largeTransferCompleted' = FALSE
    BY <1>22, Zenon DEF TransferStatusFails
  <2>4. sequenceNumber' \in Nat
    BY <2>3
  <2> QED BY <2>1, <2>2, <2>3, <2>4 DEF LoopTyped
<1>23. CASE SendDisconnect
  <2>1. NetTypeOK'
    BY <1>0, <1>23, NetUnchangedType
       DEF SendDisconnect, ClientSendFails, MessageType, NoPayload
  <2>2. LoopTyped' /\ WindowInv'
    BY <1>23, FailType DEF SendDisconnect, ClientPc, WindowInv, clientLoopVars
  <2> QED BY <1>23, <2>1, <2>2 DEF SendDisconnect
<1>24. CASE AwaitFinalAck
  BY <1>24, ClientReceivesType, ClientReceivesNothingType
     DEF AwaitFinalAck, ClientPc, WindowInv, clientLoopVars
<1>25. CASE Close
  <2>1. NetTypeOK'
    BY <1>25 DEF Close, ClientCloses, NetTypeOK
  <2> QED BY <1>25, <2>1 DEF Close, ClientPc, WindowInv, clientLoopVars
<1>26. CASE StartupFails
  BY <1>26, NetUnchangedType, FailType DEF StartupFails
<1> QED
  BY <1>1, <1>2, <1>3, <1>4, <1>5, <1>6, <1>7, <1>8, <1>9, <1>10, <1>11, <1>12, <1>13,
     <1>15, <1>16, <1>17, <1>18, <1>19, <1>20, <1>21, <1>22, <1>23, <1>24, <1>25, <1>26
     DEF ClientNext

\* The client only ever takes the oldest packet off the queue towards it.
LEMMA ClientStepQueue ==
  ASSUME ClientNext
  PROVE  \/ UNCHANGED toClient
         \/ toClient # <<>> /\ toClient' = Tail(toClient)
<1> USE DEF netVars, ClientReceives, ClientReceivesNothing, ClientGets, ClientMisses,
            ClientSends, ClientSendFails
<1>1. CASE StartupFails \/ Connect \/ ConnectFails \/ SendConnectRequest
           \/ ReceiveConnectAck \/ MissConnectAck
  BY <1>1 DEF StartupFails, Connect, ConnectFails, SendConnectRequest, ReceiveConnectAck,
              MissConnectAck, ClientConnects, ClientConnectRefused
<1>2. CASE SendTelemetry \/ ReceiveTelemetryAck \/ MissTelemetryAck
  BY <1>2 DEF SendTelemetry, ReceiveTelemetryAck, MissTelemetryAck
<1>3. CASE NoOptionalMessage \/ OptionalReceiveFails \/ IgnoreOptionalMessage
  BY <1>3 DEF NoOptionalMessage, OptionalReceiveFails, IgnoreOptionalMessage,
              ClientSeesSilence, ClientReceiveFails
<1>4. CASE ReceiveCommand \/ SendCommandAck \/ ReceiveDataRequest \/ SendStatus
  BY <1>4 DEF ReceiveCommand, SendCommandAck, ReceiveDataRequest, SendStatus, Answer
<1>5. CASE ReceiveStart \/ ReceiveChunk \/ ReceiveEnd \/ TransferReceiveFails
  BY <1>5 DEF ReceiveStart, ReceiveChunk, ReceiveEnd, TransferReceiveFails
<1>6. CASE SendTransferStatus \/ TransferStatusFails
  BY <1>6 DEF SendTransferStatus, TransferStatusFails
<1>7. CASE SendDisconnect \/ AwaitFinalAck \/ Close
  BY <1>7 DEF SendDisconnect, AwaitFinalAck, Close, ClientCloses
<1> QED
  BY <1>1, <1>2, <1>3, <1>4, <1>5, <1>6, <1>7 DEF ClientNext

\* The same without its types: a step that is not the client's.
LEMMA ClientUnchanged ==
  ASSUME ClientInv, UNCHANGED clientVars
  PROVE  ClientInv'
  BY DEF ClientInv, ClientTypeOK, sendLimit, WindowInv, WindowPoint, clientVars,
         clientLoopVars, windowVars, transferVars

\* The client starts well typed, before its first sample.
LEMMA ClientInitType ==
  ASSUME ClientInit
  PROVE  ClientInv
<1>1. fileBuffer \in Seq(Nat)
  BY EmptySeq DEF ClientInit
<1>2. cPc \in ClientPc /\ exitCode \in {"running", "0", "1"}
  BY DEF ClientInit, ClientPc
<1>3. /\ sequenceNumber \in Nat
      /\ cSendAttempt \in 1 .. sendLimit
      /\ cRecvAttempt \in 1 .. MaxRetransmissions
      /\ index \in 0 .. NumSamples
      /\ waitCycle \in 0 .. PostCycles
      /\ order \in Nat
      /\ expectedChunks \in Nat
      /\ index < NumSamples
  BY RetriesAssumption, ClientAssumption DEF ClientInit, AdjustHeading, sendLimit
<1>4. largeTransferCompleted \in BOOLEAN
  BY DEF ClientInit
<1> QED
  BY <1>1, <1>2, <1>3, <1>4, Zenon DEF ClientInv, ClientTypeOK, WindowInv

(***************************************************************************)
(* The client's exit code.                                                 *)
(***************************************************************************)
\* main is on its way out with 0 only from the end of its loops: the invariant
\* behind SuccessAfterAllSamples.
PastLastSample ==
  /\ cPc \in {"disconnect", "finalAck"} => index = NumSamples
  /\ SuccessAfterAllSamples

\* The loops are left for the disconnection only at the last sample.
LEMMA PastLastSampleStep ==
  ASSUME ClientInv, PastLastSample, ClientNext
  PROVE  PastLastSample'
<1> USE DEF PastLastSample, SuccessAfterAllSamples, Fail, windowVars
<1>1. ASSUME WindowCloses
      PROVE  PastLastSample'
  BY <1>1, ClientAssumption DEF WindowCloses, ClientInv, ClientTypeOK
<1>2. CASE StartupFails \/ Connect \/ ConnectFails \/ SendConnectRequest
           \/ ReceiveConnectAck \/ MissConnectAck
  BY <1>2 DEF StartupFails, Connect, ConnectFails, SendConnectRequest, ReceiveConnectAck,
              MissConnectAck, NextClientSend, NextClientReceive
<1>3. CASE SendTelemetry \/ ReceiveTelemetryAck \/ MissTelemetryAck
  BY <1>3 DEF SendTelemetry, ReceiveTelemetryAck, MissTelemetryAck, NextClientSend,
              NextClientReceive
<1>4. CASE NoOptionalMessage \/ IgnoreOptionalMessage
  BY <1>1, <1>4 DEF NoOptionalMessage, IgnoreOptionalMessage
<1>5. CASE OptionalReceiveFails \/ ReceiveCommand \/ ReceiveDataRequest
  BY <1>5 DEF OptionalReceiveFails, ReceiveCommand, ReceiveDataRequest
<1>6. CASE SendCommandAck \/ SendStatus
  BY <1>1, <1>6 DEF SendCommandAck, SendStatus, Answer
<1>7. CASE ReceiveStart \/ ReceiveChunk \/ ReceiveEnd \/ TransferReceiveFails
  BY <1>7 DEF ReceiveStart, ReceiveChunk, ReceiveEnd, TransferReceiveFails
<1>8. CASE SendTransferStatus \/ TransferStatusFails
  BY <1>1, <1>8 DEF SendTransferStatus, TransferStatusFails
<1>9. CASE SendDisconnect \/ AwaitFinalAck \/ Close
  BY <1>9 DEF SendDisconnect, AwaitFinalAck, Close
<1> QED
  BY <1>2, <1>3, <1>4, <1>5, <1>6, <1>7, <1>8, <1>9 DEF ClientNext

(***************************************************************************)
(* The client's sequence numbers.                                          *)
(***************************************************************************)
\* The packet the client is resending, if any, is the only one in flight that
\* has the current number.  After DISCONNECT nothing more is sent.
ClientInProgress(packet) ==
  \/ /\ cPc \in {"connectRequest", "connectAck"}
     /\ packet = makePacket("CONNECT_REQUEST", sequenceNumber, NoPayload)
  \/ /\ cPc \in {"telemetry", "telemetryAck"}
     /\ packet = makePacket("TELEMETRY", sequenceNumber, index)
  \/ cPc \in {"finalAck", "close", "done"}

ClientNumbersUsed ==
  \A k \in DOMAIN toServer :
    /\ toServer[k].seq <= sequenceNumber
    /\ toServer[k].seq = sequenceNumber => ClientInProgress(toServer[k])

\* The inductive invariant behind ClientNumbersIdentifyPackets.
ClientNumbersInv == Ordered(toServer) /\ ClientNumbersUsed

\* Packets that arrive, or are lost together, leave the rest in order.
LEMMA ShorterQueueClientNumbers ==
  ASSUME NetTypeOK, ClientNumbersInv, UNCHANGED clientVars, Shortened(toServer, toServer')
  PROVE  ClientNumbersInv'
<1>1. \A packet : ClientInProgress(packet)' <=> ClientInProgress(packet)
  BY DEF clientVars, windowVars, ClientInProgress
<1>2. /\ Ordered(toServer')
      /\ \A k \in DOMAIN toServer' : \E j \in DOMAIN toServer : toServer'[k] = toServer[j]
  BY ShortenedOrdered DEF NetTypeOK, ClientNumbersInv
<1>3. ClientNumbersUsed'
  BY <1>1, <1>2 DEF ClientNumbersInv, ClientNumbersUsed, clientVars
<1> QED
  BY <1>2, <1>3 DEF ClientNumbersInv

\* A step that sends nothing either keeps the number, and with it the loop the
\* packets in flight belong to, or moves on to the next number.
LEMMA QuietClientNumbers ==
  ASSUME NetTypeOK, ClientTypeOK, ClientNumbersInv, UNCHANGED toServer,
         \/ /\ UNCHANGED sequenceNumber
            /\ \A packet : ClientInProgress(packet) => ClientInProgress(packet)'
         \/ sequenceNumber' = sequenceNumber + 1
  PROVE  ClientNumbersInv'
<1>1. \A k \in DOMAIN toServer : toServer[k].seq \in Nat
  <2> TAKE k \in DOMAIN toServer
  <2>1. toServer[k] \in Packet
    BY LenProperties, ElementOfSeq DEF NetTypeOK
  <2> QED
    BY <2>1 DEF Packet
<1>2. ClientNumbersUsed'
  BY <1>1 DEF ClientNumbersInv, ClientNumbersUsed, ClientTypeOK
<1> QED
  BY <1>2 DEF ClientNumbersInv, Ordered

\* A packet with the current number, if any in flight with that number is the
\* same: the number stays in use by its loop, or advances.
LEMMA SentClientNumbers ==
  ASSUME NetTypeOK, ClientTypeOK, ClientNumbersInv,
         NEW packet \in Packet, packet.seq = sequenceNumber, ClientSends(packet),
         \A k \in DOMAIN toServer : ClientInProgress(toServer[k]) => toServer[k] = packet,
         \/ UNCHANGED sequenceNumber /\ ClientInProgress(packet)'
         \/ sequenceNumber' = sequenceNumber + 1
  PROVE  ClientNumbersInv'
<1>1. toServer' = Append(toServer, packet)
  BY DEF ClientSends
<1>2. \A k \in DOMAIN toServer : /\ toServer[k].seq <= packet.seq
                                 /\ toServer[k].seq = packet.seq => toServer[k] = packet
  BY DEF ClientNumbersInv, ClientNumbersUsed
<1>3. /\ Ordered(toServer')
      /\ \A k \in DOMAIN toServer' :
           /\ toServer'[k].seq <= sequenceNumber
           /\ toServer'[k].seq = sequenceNumber => toServer'[k] = packet
  BY <1>1, <1>2, AppendOrdered DEF NetTypeOK, ClientNumbersInv
<1>4. \A k \in DOMAIN toServer' : toServer'[k].seq \in Nat
  <2> TAKE k \in DOMAIN toServer'
  <2>1. toServer' \in Seq(Packet)
    BY <1>1, AppendProperties DEF NetTypeOK
  <2>2. toServer'[k] \in Packet
    BY <2>1, LenProperties, ElementOfSeq
  <2> QED
    BY <2>2 DEF Packet
<1>5. CASE UNCHANGED sequenceNumber /\ ClientInProgress(packet)'
  BY <1>3, <1>5 DEF ClientNumbersInv, ClientNumbersUsed
<1>6. CASE sequenceNumber' = sequenceNumber + 1
  BY <1>3, <1>4, <1>6 DEF ClientNumbersInv, ClientNumbersUsed, ClientTypeOK
<1> QED
  BY <1>5, <1>6

\* Every step of the client keeps its numbers in order.
LEMMA ClientNumbersStep ==
  ASSUME NetTypeOK, ClientTypeOK, ClientNumbersInv, ClientNext
  PROVE  ClientNumbersInv'
<1> USE DEF Fail, windowVars, transferVars, clientLoopVars
<1> DEFINE Sends(type, arg) == ClientSends(makePacket(type, sequenceNumber, arg))
           Quiet == UNCHANGED toServer
           Keeps == /\ UNCHANGED sequenceNumber
                    /\ \A packet : ClientInProgress(packet) => ClientInProgress(packet)'
           Advances == sequenceNumber' = sequenceNumber + 1
<1>1. ASSUME Quiet, Keeps \/ Advances
      PROVE  ClientNumbersInv'
  BY <1>1, QuietClientNumbers
\* A packet of a retransmission loop, or DISCONNECT, keeps its number.
<1>2. ASSUME NEW type \in MessageType, NEW arg \in Nat, Sends(type, arg),
             \A packet : ClientInProgress(packet) =>
                           packet = makePacket(type, sequenceNumber, arg),
             UNCHANGED sequenceNumber,
             ClientInProgress(makePacket(type, sequenceNumber, arg))'
      PROVE  ClientNumbersInv'
  <2>1. PICK packet \in Packet : packet = makePacket(type, sequenceNumber, arg)
    BY PacketType DEF ClientTypeOK
  <2>2. packet.seq = sequenceNumber
    BY <2>1 DEF makePacket
  <2>3. ClientInProgress(packet)'
    BY <1>2, <2>1 DEF ClientInProgress, makePacket
  <2> QED
    BY <1>2, <2>1, <2>2, <2>3, SentClientNumbers
\* An answer is the first and only packet of its number.
<1>3. ASSUME NEW type \in MessageType, NEW arg \in Nat, Sends(type, arg), Advances,
             cPc \in {"answerCommand", "answerRequest", "transferStatus"}
      PROVE  ClientNumbersInv'
  <2>1. PICK packet \in Packet : packet = makePacket(type, sequenceNumber, arg)
    BY PacketType DEF ClientTypeOK
  <2>2. packet.seq = sequenceNumber
    BY <2>1 DEF makePacket
  <2>3. \A k \in DOMAIN toServer : ClientInProgress(toServer[k]) => toServer[k] = packet
    BY <1>3 DEF ClientInProgress
  <2> QED
    BY <1>3, <2>1, <2>2, <2>3, SentClientNumbers
<1> HIDE DEF Sends
<1>4. CASE StartupFails \/ Connect \/ ConnectFails
  <2>1. Quiet /\ Keeps
    BY <1>4 DEF StartupFails, Connect, ConnectFails, ClientConnects, ClientConnectRefused,
                netVars, NextClientSend, ClientInProgress
  <2> QED BY <1>1, <2>1
<1>5. CASE SendConnectRequest
  <2>1. CASE Sends("CONNECT_REQUEST", NoPayload) /\ cPc' = "connectAck"
    BY <1>2, <1>5, <2>1 DEF SendConnectRequest, ClientInProgress, MessageType, NoPayload,
                            makePacket
  <2>2. CASE ClientSendFails /\ NextClientSend("connectRequest", MaxRetransmissions)
    <3>1. Quiet /\ Keeps
      BY <1>5, <2>2 DEF SendConnectRequest, ClientSendFails, netVars, NextClientSend,
                        ClientInProgress
    <3> QED BY <1>1, <3>1
  <2> QED BY <1>5, <2>1, <2>2 DEF SendConnectRequest, Sends
<1>6. CASE ReceiveConnectAck \/ ReceiveTelemetryAck
  <2>1. Quiet /\ Advances
    BY <1>6 DEF ReceiveConnectAck, ReceiveTelemetryAck, ClientGets, ClientReceives
  <2> QED BY <1>1, <2>1
<1>7. CASE MissConnectAck \/ MissTelemetryAck
  <2>1. Quiet
    BY <1>7 DEF MissConnectAck, MissTelemetryAck, ClientMisses, ClientReceives,
                ClientReceivesNothing, netVars
  <2>2. Keeps
    BY <1>7 DEF MissConnectAck, MissTelemetryAck, NextClientSend, NextClientReceive,
                ClientInProgress
  <2> QED BY <1>1, <2>1, <2>2
<1>8. CASE SendTelemetry
  <2>1. CASE Sends("TELEMETRY", index) /\ cPc' = "telemetryAck"
    BY <1>2, <1>8, <2>1, ClientAssumption
       DEF SendTelemetry, ClientInProgress, MessageType, ClientTypeOK, makePacket
  <2>2. CASE ClientSendFails /\ NextClientSend("telemetry", MaxRetransmissions)
    <3>1. Quiet /\ Keeps
      BY <1>8, <2>2 DEF SendTelemetry, ClientSendFails, netVars, NextClientSend,
                        ClientInProgress
    <3> QED BY <1>1, <3>1
  <2> QED BY <1>8, <2>1, <2>2 DEF SendTelemetry, Sends
<1>9. CASE NoOptionalMessage \/ OptionalReceiveFails \/ IgnoreOptionalMessage
  <2>1. Quiet /\ UNCHANGED sequenceNumber /\ cPc = "optional"
    BY <1>9 DEF NoOptionalMessage, OptionalReceiveFails, IgnoreOptionalMessage,
                ClientSeesSilence, ClientReceiveFails, ClientReceives, netVars
  <2>2. Keeps
    BY <2>1 DEF ClientInProgress
  <2> QED BY <1>1, <2>1, <2>2
<1>10. CASE ReceiveCommand \/ ReceiveDataRequest \/ ReceiveStart
  <2>1. Quiet /\ UNCHANGED sequenceNumber /\ cPc = "optional"
    BY <1>10 DEF ReceiveCommand, ReceiveDataRequest, ReceiveStart, ClientGets,
                 ClientReceives
  <2>2. Keeps
    BY <2>1 DEF ClientInProgress
  <2> QED BY <1>1, <2>1, <2>2
<1>11. ASSUME NEW type \in MessageType, NEW arg \in Nat,
              Answer(makePacket(type, sequenceNumber, arg)),
              cPc \in {"answerCommand", "answerRequest"}
       PROVE  ClientNumbersInv'
  <2>1. CASE Sends(type, arg)
    BY <1>3, <1>11, <2>1 DEF Answer
  <2>2. CASE ClientSendFails
    BY <1>1, <1>11, <2>2 DEF Answer, ClientSendFails, netVars
  <2> QED BY <1>11, <2>1, <2>2 DEF Answer, Sends
<1>12. CASE SendCommandAck
  BY <1>11, <1>12 DEF SendCommandAck, MessageType, ClientTypeOK
<1>13. CASE SendStatus
  BY <1>11, <1>13 DEF SendStatus, MessageType, EngineStatus
<1>14. CASE ReceiveChunk \/ ReceiveEnd \/ TransferReceiveFails
  <2>1. Quiet /\ UNCHANGED sequenceNumber /\ cPc \in {"optional", "chunk", "end"}
    BY <1>14 DEF ReceiveChunk, ReceiveEnd, TransferReceiveFails, ClientGets, ClientMisses,
                 ClientReceives, ClientReceivesNothing, netVars
  <2>2. Keeps
    BY <2>1 DEF ClientInProgress
  <2> QED BY <1>1, <2>1, <2>2
<1>15. CASE SendTransferStatus
  BY <1>3, <1>15 DEF SendTransferStatus, Sends, MessageType, TransferOk, TransferFailed
<1>16. CASE TransferStatusFails
  <2>1. Quiet /\ Advances
    BY <1>16 DEF TransferStatusFails, ClientSendFails, netVars
  <2> QED BY <1>1, <2>1
<1>17. CASE SendDisconnect
  <2>1. CASE Sends("DISCONNECT", NoPayload) /\ cPc' = "finalAck"
    BY <1>2, <1>17, <2>1 DEF SendDisconnect, ClientInProgress, MessageType, NoPayload
  <2>2. CASE ClientSendFails /\ Fail
    <3>1. Quiet /\ Keeps
      BY <1>17, <2>2 DEF SendDisconnect, ClientSendFails, netVars, ClientInProgress
    <3> QED BY <1>1, <3>1
  <2> QED BY <1>17, <2>1, <2>2 DEF SendDisconnect, Sends
<1>18. CASE AwaitFinalAck \/ Close
  <2>1. Quiet /\ Keeps
    BY <1>18 DEF AwaitFinalAck, Close, ClientReceives, ClientReceivesNothing, ClientCloses,
                 netVars, ClientInProgress
  <2> QED BY <1>1, <2>1
<1> QED
  BY <1>4, <1>5, <1>6, <1>7, <1>8, <1>9, <1>10, <1>12, <1>13, <1>14, <1>15, <1>16, <1>17,
     <1>18 DEF ClientNext

(***************************************************************************)
(* Samples acknowledged.                                                   *)
(***************************************************************************)
\* The samples whose acknowledgement the client has taken: in the window of the
\* telemetry loop, index has not been advanced yet.
samplesAcknowledged == IF WindowPoint /\ index < NumSamples THEN index + 1 ELSE index

\* A step that acknowledges a sample takes a TELEMETRY_ACK off the queue.
LEMMA ClientAckStep ==
  ASSUME NetTypeOK, ClientInv, ClientNext
  PROVE  \/ samplesAcknowledged' <= samplesAcknowledged
         \/ /\ toClient # <<>>
            /\ toClient' = Tail(toClient)
            /\ Head(toClient).type = "TELEMETRY_ACK"
            /\ samplesAcknowledged' <= samplesAcknowledged + 1
<1> USE DEF samplesAcknowledged, WindowPoint, ClientInv, ClientTypeOK, Fail, windowVars,
            clientLoopVars
<1> DEFINE NoneNew == samplesAcknowledged' <= samplesAcknowledged
<1>1. ASSUME WindowPoint, WindowCloses
      PROVE  NoneNew
  <2>1. CASE index < NumSamples
    <3>1. index' = index + 1 /\ index' \in Nat
      BY <1>1, <2>1 DEF WindowCloses
    <3>2. samplesAcknowledged = index + 1
      BY <1>1, <2>1
    <3>3. samplesAcknowledged' = index'
      BY <1>1, <2>1, <3>1, ClientAssumption DEF WindowCloses
    <3> QED BY <3>1, <3>2, <3>3
  <2>2. CASE ~(index < NumSamples)
    BY <1>1, <2>2, ClientAssumption DEF WindowCloses
  <2> QED BY <2>1, <2>2
<1>2. ASSUME UNCHANGED index, cPc' \notin {"optional", "answerCommand", "answerRequest",
                                           "chunk", "end", "transferStatus"}
      PROVE  NoneNew
  BY <1>2, ClientAssumption
<1>3. ASSUME UNCHANGED index, WindowPoint
      PROVE  NoneNew
  BY <1>3, ClientAssumption
<1> HIDE DEF samplesAcknowledged
<1>4. CASE StartupFails \/ Connect \/ ConnectFails \/ SendConnectRequest
           \/ ReceiveConnectAck \/ MissConnectAck
  BY <1>2, <1>4 DEF StartupFails, Connect, ConnectFails, SendConnectRequest,
                    ReceiveConnectAck, MissConnectAck, NextClientSend, NextClientReceive
<1>5. CASE SendTelemetry \/ MissTelemetryAck
  BY <1>2, <1>5 DEF SendTelemetry, MissTelemetryAck, NextClientSend, NextClientReceive
<1>6. CASE ReceiveTelemetryAck
  <2>1. /\ toClient # <<>>
        /\ toClient' = Tail(toClient)
        /\ Head(toClient).type = "TELEMETRY_ACK"
    BY <1>6 DEF ReceiveTelemetryAck, ClientGets, ClientReceives, clientIncoming
  <2>2. samplesAcknowledged' <= samplesAcknowledged + 1
    BY <1>6, ClientAssumption DEF ReceiveTelemetryAck, samplesAcknowledged
  <2> QED BY <2>1, <2>2
<1>7. CASE NoOptionalMessage \/ IgnoreOptionalMessage
  BY <1>1, <1>7 DEF NoOptionalMessage, IgnoreOptionalMessage
<1>8. CASE OptionalReceiveFails \/ ReceiveCommand \/ ReceiveDataRequest
  BY <1>3, <1>8 DEF OptionalReceiveFails, ReceiveCommand, ReceiveDataRequest
<1>9. CASE SendCommandAck \/ SendStatus
  BY <1>1, <1>3, <1>9 DEF SendCommandAck, SendStatus, Answer
<1>10. CASE ReceiveStart \/ ReceiveChunk \/ ReceiveEnd \/ TransferReceiveFails
  BY <1>3, <1>10 DEF ReceiveStart, ReceiveChunk, ReceiveEnd, TransferReceiveFails
<1>11. CASE SendTransferStatus \/ TransferStatusFails
  BY <1>1, <1>3, <1>11 DEF SendTransferStatus, TransferStatusFails
<1>12. CASE SendDisconnect \/ AwaitFinalAck \/ Close
  BY <1>2, <1>12 DEF SendDisconnect, AwaitFinalAck, Close
<1> QED
  BY <1>4, <1>5, <1>6, <1>7, <1>8, <1>9, <1>10, <1>11, <1>12 DEF ClientNext
(***************************************************************************)
(* The client in a large transfer.                                         *)
(***************************************************************************)
\* receiveLargeTransfer has taken LARGE_DATA_START and has not returned.
Receiving == cPc \in {"chunk", "end", "transferStatus"}

\* Only receiveLargeTransfer changes what has been received: every other step
\* leaves the buffer, is outside it afterwards, and completes nothing.
LEMMA ClientTransferStep ==
  ASSUME ClientNext
  PROVE  \/ ReceiveStart \/ ReceiveChunk \/ ReceiveEnd \/ SendTransferStatus
         \/ /\ ~Receiving'
            /\ UNCHANGED fileBuffer
            /\ largeTransferCompleted' => largeTransferCompleted
<1> USE DEF Receiving, Fail, transferVars
<1> DEFINE Outside == /\ ~Receiving'
                      /\ UNCHANGED fileBuffer
                      /\ largeTransferCompleted' => largeTransferCompleted
<1>1. CASE StartupFails \/ Connect \/ ConnectFails \/ SendConnectRequest
           \/ ReceiveConnectAck \/ MissConnectAck
  <2>1. Outside
    BY <1>1 DEF StartupFails, Connect, ConnectFails, SendConnectRequest,
                ReceiveConnectAck, MissConnectAck, NextClientSend, NextClientReceive
  <2> QED BY <2>1
<1>2. CASE SendTelemetry \/ ReceiveTelemetryAck \/ MissTelemetryAck
  <2>1. Outside
    BY <1>2 DEF SendTelemetry, ReceiveTelemetryAck, MissTelemetryAck, NextClientSend,
                NextClientReceive
  <2> QED BY <2>1
<1>3. CASE NoOptionalMessage \/ OptionalReceiveFails \/ IgnoreOptionalMessage
  <2>1. Outside
    BY <1>3 DEF NoOptionalMessage, OptionalReceiveFails, IgnoreOptionalMessage,
                WindowCloses
  <2> QED BY <2>1
<1>4. CASE ReceiveCommand \/ SendCommandAck \/ ReceiveDataRequest \/ SendStatus
  <2>1. Outside
    BY <1>4 DEF ReceiveCommand, SendCommandAck, ReceiveDataRequest, SendStatus, Answer,
                WindowCloses
  <2> QED BY <2>1
<1>5. CASE TransferReceiveFails \/ TransferStatusFails
  <2>1. Outside
    BY <1>5 DEF TransferReceiveFails, TransferStatusFails
  <2> QED BY <2>1
<1>6. CASE SendDisconnect \/ AwaitFinalAck \/ Close
  <2>1. Outside
    BY <1>6 DEF SendDisconnect, AwaitFinalAck, Close
  <2> QED BY <2>1
<1> QED
  BY <1>1, <1>2, <1>3, <1>4, <1>5, <1>6 DEF ClientNext
=============================================================================
