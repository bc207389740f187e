---------------------------- MODULE PayloadProofs ----------------------------
(***************************************************************************)
(* The chunk arithmetic, for every payload size and every chunk size: how  *)
(* many chunks there are, which bytes each covers, and what the client's   *)
(* test says of a buffer.                                                  *)
(***************************************************************************)
EXTENDS LargeTransfer, SequenceTheorems, FiniteSetTheorems, FunctionTheorems,
        TLAPS

\* computeTotalChunks yields a number LARGE_DATA_START can carry.
LEMMA TotalChunksNat == TotalChunks \in Nat
  BY FileAssumption DEF TotalChunks, computeTotalChunks

\* A number lies between two neighbouring multiples of another.
LEMMA DivBounds ==
  ASSUME NEW a \in Nat, NEW b \in Nat \ {0}
  PROVE  /\ a \div b \in Nat
         /\ (a \div b) * b <= a
         /\ a < (a \div b) * b + b
  OBVIOUS

\* Multiples keep the order of what they are multiples of.
LEMMA MultiplesOrdered ==
  ASSUME NEW i \in Nat, NEW j \in Nat, NEW b \in Nat, i <= j
  PROVE  i * b <= j * b /\ i * b \in Nat /\ j * b \in Nat
  OBVIOUS

\* Rounding up: the chunks are enough for the payload, and without the last one
\* they are not.
LEMMA EnoughChunks ==
  /\ FileSize <= TotalChunks * ChunkSize
  /\ TotalChunks * ChunkSize < FileSize + ChunkSize
<1>1. FileSize + ChunkSize - 1 \in Nat
  BY FileAssumption
<1>2. TotalChunks = (FileSize + ChunkSize - 1) \div ChunkSize
  BY FileAssumption DEF TotalChunks, computeTotalChunks
<1>3. /\ TotalChunks * ChunkSize <= FileSize + ChunkSize - 1
      /\ FileSize + ChunkSize - 1 < TotalChunks * ChunkSize + ChunkSize
  BY <1>1, <1>2, DivBounds, FileAssumption
<1>4. TotalChunks * ChunkSize \in Nat
  BY TotalChunksNat, MultiplesOrdered, FileAssumption
<1> QED
  BY <1>3, <1>4, FileAssumption

\* A payload of at least one byte has at least one chunk.
LEMMA SomeChunks == TotalChunks \in Nat /\ TotalChunks > 0
<1>1. TotalChunks = 0 => TotalChunks * ChunkSize = 0
  BY FileAssumption
<1> QED
  BY <1>1, TotalChunksNat, EnoughChunks, FileAssumption

\* No chunk is empty, so there are no more of them than bytes.
LEMMA NoMoreChunksThanBytes == TotalChunks <= FileSize
<1>1. ASSUME NEW n \in Nat, NEW b \in Nat, n > 0, b > 0
      PROVE  n - 1 <= n * b - b /\ n * b \in Nat
  <2>1. ASSUME NEW i \in Nat, NEW c \in Nat
        PROVE  (i + 1) * (c + 1) = i * c + i + c + 1 /\ i * c \in Nat
    OBVIOUS
  <2>2. /\ n - 1 \in Nat /\ b - 1 \in Nat
        /\ n = (n - 1) + 1 /\ b = (b - 1) + 1
    BY <1>1
  <2>3. n * b = (n - 1) * (b - 1) + (n - 1) + (b - 1) + 1 /\ (n - 1) * (b - 1) \in Nat
    BY <2>1, <2>2
  <2> QED
    BY <2>2, <2>3
<1>2. /\ TotalChunks - 1 <= TotalChunks * ChunkSize - ChunkSize
      /\ TotalChunks * ChunkSize \in Nat
  BY <1>1, SomeChunks, FileAssumption
<1> QED
  BY <1>2, SomeChunks, EnoughChunks, FileAssumption

\* The first n chunks of the payload.
LEMMA BlobPrefix ==
  ASSUME NEW n \in Nat, n <= TotalChunks
  PROVE  SubSeq(Blob, 1, n) = [k \in 1 .. n |-> k - 1]
<1>1. SubSeq(Blob, 1, n) = [k \in 1 .. n |-> Blob[k]]
  OBVIOUS
<1>2. \A k \in 1 .. n : k \in 1 .. TotalChunks
  BY TotalChunksNat
<1> QED
  BY <1>1, <1>2 DEF Blob

\* Where chunk i lies.
LEMMA ChunkBounds ==
  ASSUME NEW i \in 0 .. TotalChunks - 1
  PROVE  /\ i * ChunkSize \in Nat
         /\ i * ChunkSize < FileSize
         /\ chunkOffsets(i) = {n \in 0 .. FileSize - 1 :
                                 i * ChunkSize <= n /\ n < i * ChunkSize + ChunkSize}
<1>1. i \in Nat /\ i + 1 \in Nat /\ i + 1 <= TotalChunks /\ TotalChunks \in Nat
  BY TotalChunksNat
<1>2. /\ i * ChunkSize \in Nat
      /\ (i + 1) * ChunkSize <= TotalChunks * ChunkSize
      /\ TotalChunks * ChunkSize \in Nat
  BY <1>1, MultiplesOrdered, FileAssumption
<1>3. (i + 1) * ChunkSize = i * ChunkSize + ChunkSize
  BY <1>1, FileAssumption
<1>4. i * ChunkSize < FileSize
  BY <1>2, <1>3, EnoughChunks, FileAssumption
<1> QED
  BY <1>2, <1>4, FileAssumption DEF chunkOffsets

\* Every byte of the payload is sent in exactly one chunk, and no chunk is empty
\* or longer than the client's receive expects, for every payload size and every
\* chunk size: the division rounds up, and the last chunk is cut.
THEOREM ChunksPartitionEveryPayload == ChunksPartition
<1> DEFINE chunks == 0 .. TotalChunks - 1
<1>1. \A n \in 0 .. FileSize - 1 : \E i \in chunks : n \in chunkOffsets(i)
  <2> SUFFICES ASSUME NEW n \in 0 .. FileSize - 1
               PROVE  \E i \in chunks : n \in chunkOffsets(i)
    OBVIOUS
  <2> DEFINE i == n \div ChunkSize
  <2>1. /\ i \in Nat
        /\ i * ChunkSize <= n
        /\ n < i * ChunkSize + ChunkSize
    BY DivBounds, FileAssumption
  <2> HIDE DEF i
  <2>2. i < TotalChunks
    <3> SUFFICES ASSUME TotalChunks <= i
                 PROVE  FALSE
      BY <2>1, TotalChunksNat
    <3>1. /\ TotalChunks * ChunkSize <= i * ChunkSize
          /\ TotalChunks * ChunkSize \in Nat
          /\ i * ChunkSize \in Nat
      BY <2>1, TotalChunksNat, MultiplesOrdered, FileAssumption
    <3> QED
      BY <2>1, <3>1, EnoughChunks, FileAssumption
  <2>3. i \in chunks
    BY <2>1, <2>2, TotalChunksNat
  <2>4. n \in chunkOffsets(i)
    BY <2>1, <2>3, ChunkBounds
  <2> QED
    BY <2>3, <2>4
<1>2. \A i \in chunks : chunkOffsets(i) \subseteq 0 .. FileSize - 1
  BY ChunkBounds
<1>3. ASSUME NEW i \in chunks
      PROVE  Cardinality(chunkOffsets(i)) \in 1 .. ChunkSize
  <2> DEFINE first == i * ChunkSize
             last  == IF first + ChunkSize > FileSize
                      THEN FileSize - 1 ELSE first + ChunkSize - 1
  <2>1. first \in Nat /\ first < FileSize
    BY ChunkBounds
  <2>2. chunkOffsets(i) = first .. last
    BY <2>1, FileAssumption DEF chunkOffsets
  <2> HIDE DEF first
  <2>3. last \in Int /\ last >= first /\ last - first + 1 <= ChunkSize
    BY <2>1, FileAssumption
  <2> HIDE DEF last
  <2>4. Cardinality(chunkOffsets(i)) = last - first + 1
    BY <2>1, <2>2, <2>3, FS_Interval
  <2> QED
    BY <2>1, <2>3, <2>4, FileAssumption
<1>4. ASSUME NEW i \in chunks, NEW j \in chunks, i < j
      PROVE  chunkOffsets(i) \cap chunkOffsets(j) = {}
  <2>1. i \in Nat /\ j \in Nat /\ i + 1 <= j
    BY <1>4, TotalChunksNat
  <2>2. (i + 1) * ChunkSize <= j * ChunkSize /\ i * ChunkSize \in Nat
        /\ j * ChunkSize \in Nat
    BY <2>1, MultiplesOrdered, FileAssumption
  <2>3. (i + 1) * ChunkSize = i * ChunkSize + ChunkSize
    BY <2>1, FileAssumption
  <2> QED
    BY <2>2, <2>3, ChunkBounds, FileAssumption
<1>5. \A i, j \in chunks : i # j => i < j \/ j < i
  BY TotalChunksNat
<1>6. \A i, j \in chunks : i # j => chunkOffsets(i) \cap chunkOffsets(j) = {}
  BY <1>4, <1>5
<1>7. UNION {chunkOffsets(i) : i \in chunks} = 0 .. FileSize - 1
  BY <1>1, <1>2
<1> QED
  BY <1>3, <1>6, <1>7 DEF ChunksPartition

\* No byte is in two chunks: the sizes of the first n chunks add up.
LEMMA PrefixSize ==
  ASSUME NEW n \in 0 .. TotalChunks
  PROVE  bufferSize(SubSeq(Blob, 1, n)) = Cardinality(UNION {chunkOffsets(i) : i \in 0 .. n - 1})
<1> DEFINE buffer  == SubSeq(Blob, 1, n)
           bytes   == UNION {{k} \X chunkOffsets(buffer[k]) : k \in DOMAIN buffer}
           covered == UNION {chunkOffsets(i) : i \in 0 .. n - 1}
           offset  == [byte \in bytes |-> byte[2]]
<1>1. n \in Nat /\ n <= TotalChunks /\ TotalChunks \in Nat
  BY TotalChunksNat
<1>2. /\ DOMAIN buffer = 1 .. n
      /\ \A k \in 1 .. n : buffer[k] = k - 1 /\ k - 1 \in 0 .. n - 1
      /\ \A i \in 0 .. n - 1 : i + 1 \in 1 .. n /\ buffer[i + 1] = i
      /\ 0 .. n - 1 \subseteq 0 .. TotalChunks - 1
  BY <1>1, BlobPrefix
<1> HIDE DEF buffer
<1>3. \A byte \in bytes : /\ byte = <<byte[1], byte[2]>>
                          /\ byte[1] \in 1 .. n
                          /\ byte[2] \in chunkOffsets(byte[1] - 1)
  BY <1>2
<1>4. \A i \in 0 .. n - 1 : \A b \in chunkOffsets(i) : <<i + 1, b>> \in bytes
  <2> TAKE i \in 0 .. n - 1
  <2> TAKE b \in chunkOffsets(i)
  <2>1. i + 1 \in DOMAIN buffer /\ buffer[i + 1] = i
    BY <1>2
  <2> QED
    BY <2>1
<1> HIDE DEF bytes
<1>5. \A byte \in bytes : offset[byte] \in covered
  BY <1>2, <1>3
<1>6. ASSUME NEW a \in bytes, NEW b \in bytes, offset[a] = offset[b]
      PROVE  a = b
  <2>1. /\ a[1] - 1 \in 0 .. TotalChunks - 1 /\ b[1] - 1 \in 0 .. TotalChunks - 1
        /\ a[2] \in chunkOffsets(a[1] - 1) /\ a[2] \in chunkOffsets(b[1] - 1)
    BY <1>2, <1>3, <1>6
  <2>2. a[1] - 1 = b[1] - 1
    BY <2>1, ChunksPartitionEveryPayload DEF ChunksPartition
  <2>3. a[1] = b[1]
    BY <1>1, <1>3, <2>2
  <2> QED
    BY <1>3, <1>6, <2>3
<1>7. ASSUME NEW b \in covered
      PROVE  \E byte \in bytes : offset[byte] = b
  <2>1. PICK i \in 0 .. n - 1 : b \in chunkOffsets(i)
    BY <1>7
  <2>2. <<i + 1, b>> \in bytes
    BY <1>4, <2>1
  <2> QED
    BY <2>2
<1> HIDE DEF covered
<1>8. offset \in Bijection(bytes, covered)
  BY <1>5, <1>6, <1>7 DEF Bijection, Injection, Surjection, IsInjective
<1>9. ExistsBijection(covered, bytes)
  BY <1>8, Fun_ExistsBijSymmetric DEF ExistsBijection
<1>10. IsFiniteSet(covered)
  <2>1. covered \subseteq 0 .. FileSize - 1
    BY <1>2, ChunkBounds DEF covered
  <2>2. IsFiniteSet(0 .. FileSize - 1)
    BY FileAssumption, FS_Interval
  <2> HIDE DEF covered
  <2> QED
    BY <2>1, <2>2, FS_Subset
<1>11. Cardinality(bytes) = Cardinality(covered)
  BY <1>9, <1>10, FS_Bijection
<1> QED
  BY <1>11 DEF bytes, buffer, covered, bufferSize

\* Size and count agree, in receiveLargeTransfer and in the text of
\* LARGE_DATA_START: the chunks announced bring the size announced, and the first
\* of them never do, so the client cannot take a part of the payload for the whole.
THEOREM OnlyAllChunksBringTheSize ==
  \A n \in 0 .. TotalChunks : bufferSize(SubSeq(Blob, 1, n)) = FileSize <=> n = TotalChunks
<1> TAKE n \in 0 .. TotalChunks
<1>1. IsFiniteSet(0 .. FileSize - 1) /\ Cardinality(0 .. FileSize - 1) = FileSize
  BY FileAssumption, FS_Interval
<1>2. ASSUME n = TotalChunks
      PROVE  bufferSize(SubSeq(Blob, 1, n)) = FileSize
  <2>1. UNION {chunkOffsets(i) : i \in 0 .. n - 1} = 0 .. FileSize - 1
    BY <1>2, ChunksPartitionEveryPayload DEF ChunksPartition
  <2> QED
    BY <1>1, <2>1, PrefixSize
<1>3. ASSUME n # TotalChunks
      PROVE  bufferSize(SubSeq(Blob, 1, n)) # FileSize
  <2>1. /\ TotalChunks \in Nat /\ TotalChunks - 1 \in Nat /\ n \in Nat
        /\ n <= TotalChunks - 1
    BY <1>3, SomeChunks
  <2>2. TotalChunks - 1 \in 0 .. TotalChunks - 1
    BY <2>1
  <2>3. /\ (TotalChunks - 1) * ChunkSize < FileSize
        /\ (TotalChunks - 1) * ChunkSize \in Nat
    BY <2>2, ChunkBounds
  <2>4. n * ChunkSize \in Nat /\ n * ChunkSize < FileSize
    BY <2>1, <2>3, MultiplesOrdered, FileAssumption
  <2>b. PICK bound \in Nat : bound = n * ChunkSize
    BY <2>4
  <2> DEFINE covered == UNION {chunkOffsets(i) : i \in 0 .. n - 1}
  <2>5. ASSUME NEW i \in 0 .. n - 1, NEW b \in chunkOffsets(i)
        PROVE  b \in 0 .. bound - 1
    <3>1. i \in 0 .. TotalChunks - 1 /\ i \in Nat /\ i + 1 <= n
      BY <2>1
    <3>2. (i + 1) * ChunkSize <= n * ChunkSize /\ (i + 1) * ChunkSize = i * ChunkSize + ChunkSize
      BY <2>1, <3>1, MultiplesOrdered, FileAssumption
    <3>3. b \in Nat /\ b < i * ChunkSize + ChunkSize /\ i * ChunkSize \in Nat
      BY <2>5, <3>1, ChunkBounds
    <3> QED
      BY <2>4, <2>b, <3>2, <3>3, FileAssumption
  <2>6. covered \subseteq 0 .. bound - 1
    BY <2>5
  <2>7. IsFiniteSet(0 .. bound - 1) /\ Cardinality(0 .. bound - 1) = bound
    <3>1. bound \in Nat
      BY <2>b
    <3>2. 0 \in Int /\ bound - 1 \in Int /\ (0 > bound - 1 => bound = 0)
      BY <3>1
    <3> QED
      BY <3>1, <3>2, FS_Interval
  <2> HIDE DEF covered
  <2>8. Cardinality(covered) <= bound /\ Cardinality(covered) \in Nat
    BY <2>b, <2>6, <2>7, FS_Subset, FS_CardinalityType
  <2>9. bufferSize(SubSeq(Blob, 1, n)) = Cardinality(covered)
    BY PrefixSize DEF covered
  <2> QED
    BY <2>4, <2>b, <2>8, <2>9, FileAssumption
<1> QED
  BY <1>2, <1>3

\* What receiveLargeTransfer compares at the end, for the payload in order: the
\* size adds up, and the checksum is the announced one.  The client never rejects
\* the payload it was sent.
THEOREM WholePayloadAccepted == bufferAccepted(Blob)
<1>1. SubSeq(Blob, 1, TotalChunks) = Blob
  BY TotalChunksNat, BlobPrefix DEF Blob
<1>2. bufferSize(SubSeq(Blob, 1, TotalChunks)) = FileSize
  BY TotalChunksNat, OnlyAllChunksBringTheSize
<1> QED
  BY <1>1, <1>2 DEF bufferAccepted
=============================================================================
