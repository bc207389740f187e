----------------------------- MODULE TransferPlan -----------------------------
(***************************************************************************)
(* The numbers of a transfer from the server's payload to the client's     *)
(* verdict, for every small payload and chunk size: the server counts its  *)
(* chunks and writes size, count and checksum into the text of             *)
(* LARGE_DATA_START; the client reads them back, takes as many chunks as   *)
(* they say and compares what it has.                                      *)
(***************************************************************************)
EXTENDS TransferMetadata

CONSTANTS
  MaxFileSize,   \* payloads of 1 .. MaxFileSize bytes
  MaxChunkSize,  \* chunks of 1 .. MaxChunkSize bytes
  Modulus        \* as in LargeTransfer

\* Sizes fit a size_t, counts and checksums an unsigned long.
ASSUME PlanAssumption ==
  /\ MaxFileSize \in Nat /\ MaxFileSize < SizeLimit /\ MaxFileSize < UlongLimit
  /\ MaxChunkSize \in Nat
  /\ Modulus \in Nat \ {0} /\ Modulus <= UlongLimit

VARIABLES
  fileSize, chunkSize,  \* of this transfer
  startText,            \* payload of LARGE_DATA_START
  announced,            \* what the client has read in it, if anything
  chunkCount,           \* chunks the client has taken
  verdict               \* "none", "accepted" or "refused"

Payload == INSTANCE LargeTransfer WITH FileSize <- fileSize, ChunkSize <- chunkSize

planVars == <<fileSize, chunkSize, startText, announced, chunkCount, verdict>>

PlanInit ==
  /\ fileSize \in 1 .. MaxFileSize
  /\ chunkSize \in 1 .. MaxChunkSize
  /\ startText = <<>>
  /\ announced = {}
  /\ chunkCount = 0
  /\ verdict = "none"

blob == Payload!Blob
checksumOfBlob == Payload!computeChecksum(blob)

Announce ==
  /\ startText = <<>>
  /\ startText' = buildTransferStartText(
                    fileSize, Payload!TotalChunks, checksumOfBlob)
  /\ UNCHANGED <<fileSize, chunkSize, announced, chunkCount, verdict>>

Understand ==
  /\ startText # <<>> /\ announced = {} /\ verdict = "none"
  /\ announced' = parseTransferMetadata(startText)
  /\ verdict' = IF announced' = {} THEN "refused" ELSE "none"
  /\ UNCHANGED <<fileSize, chunkSize, startText, chunkCount>>

TakeChunk ==
  /\ verdict = "none"
  /\ \E plan \in announced : chunkCount < plan.chunks
  /\ chunkCount' = chunkCount + 1
  /\ UNCHANGED <<fileSize, chunkSize, startText, announced, verdict>>

received == SubSeq(blob, 1, chunkCount)

Verify ==
  /\ verdict = "none"
  /\ \E plan \in announced :
       /\ chunkCount = plan.chunks
       /\ verdict' = IF /\ Payload!bufferSize(received) = plan.size
                        /\ Payload!computeChecksum(received) = plan.checksum
                     THEN "accepted" ELSE "refused"
  /\ UNCHANGED <<fileSize, chunkSize, startText, announced, chunkCount>>

PlanNext == Announce \/ Understand \/ TakeChunk \/ Verify

PlanSpec == PlanInit /\ [][PlanNext]_planVars

\* The client reads in the text exactly the numbers the server wrote into it,
\* up to the largest numbers its conversions can return.
AnnouncementUnderstood ==
  announced # {} \/ verdict = "refused" =>
    announced = {[size     |-> fileSize,
                  chunks   |-> Payload!TotalChunks,
                  checksum |-> checksumOfBlob]}

\* The chunks the server cuts the payload into are not empty, fit a chunk, do not
\* overlap and leave no byte out, the last one included.
ChunksPartitionPayload == Payload!ChunksPartition

\* Size and count agree: the chunks announced are accepted, and with any fewer
\* of them the size falls short, so none of them is an extra that brings nothing.
AcceptedExactlyWhenWhole ==
  /\ verdict # "refused"
  /\ startText # <<>> =>
       (chunkCount = Len(blob)
          <=> Payload!bufferSize(received) = fileSize)
=============================================================================
