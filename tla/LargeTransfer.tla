---------------------------- MODULE LargeTransfer ----------------------------
(***************************************************************************)
(* The diagnostic payload: how the server cuts it into chunks and how the  *)
(* client judges what it has put together.  A chunk is named by its index; *)
(* its bytes follow from the index, because the payload is deterministic.  *)
(***************************************************************************)
EXTENDS Integers, Sequences, FiniteSetsExt

CONSTANTS
  FileSize,   \* LARGE_FILE_SIZE_BYTES (1049600 in the code)
  ChunkSize,  \* LARGE_FILE_CHUNK_SIZE (4096)
  Modulus     \* the checksum is kept modulo this (2^32: a uint32_t)

ASSUME FileAssumption ==
  /\ FileSize \in Nat \ {0}
  /\ ChunkSize \in Nat \ {0}
  /\ Modulus \in Nat \ {0}

\* Variant: one chunk is always added for the rest.
computeTotalChunks_RestAlways(totalSize, chunkSize) == totalSize \div chunkSize + 1

computeTotalChunks(totalSize, chunkSize) ==
  IF chunkSize = 0 THEN 0 ELSE (totalSize + chunkSize - 1) \div chunkSize

TotalChunks == computeTotalChunks(FileSize, ChunkSize)

\* generateDiagnosticBlob: byte number n of the payload.
blobByte(n) == n % 251

\* Variant: the last chunk is not cut.
chunkOffsets_Uncut(i) == i * ChunkSize .. (i + 1) * ChunkSize - 1

\* The offsets chunk i covers: [i * ChunkSize, endOffset) with the last chunk cut.
chunkOffsets(i) ==
  LET startOffset == i * ChunkSize
      endOffset   == IF startOffset + ChunkSize > FileSize
                     THEN FileSize ELSE startOffset + ChunkSize
  IN  startOffset .. endOffset - 1

\* The chunks cut the payload into pieces that are not empty, fit a chunk, do
\* not overlap and leave no byte out.
ChunksPartition ==
  LET chunks == 0 .. TotalChunks - 1
  IN  /\ UNION {chunkOffsets(i) : i \in chunks} = 0 .. FileSize - 1
      /\ \A i \in chunks : Cardinality(chunkOffsets(i)) \in 1 .. ChunkSize
      /\ \A i, j \in chunks : i # j => chunkOffsets(i) \cap chunkOffsets(j) = {}

\* The size, and computeChecksum, of the chunks in buffer, laid end to end:
\* a sum of bytes that wraps around, so it does not see the order of the chunks.
bufferSize(buffer) ==
  Cardinality(UNION {{k} \X chunkOffsets(buffer[k]) : k \in DOMAIN buffer})

computeChecksum(buffer) ==
  MapThenSumSet(LAMBDA k : MapThenSumSet(blobByte, chunkOffsets(buffer[k])),
                DOMAIN buffer) % Modulus

\* The payload in order: what the server reads its chunks from.
Blob == [k \in 1 .. TotalChunks |-> k - 1]

\* The client's sizeOk && checksumOk against the metadata of the payload.
bufferAccepted(buffer) ==
  /\ bufferSize(buffer) = FileSize
  /\ computeChecksum(buffer) = computeChecksum(Blob)
=============================================================================
