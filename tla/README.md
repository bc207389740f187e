# Aircraft - ground control session: TLA+ models, model checking, proofs

This directory models the two programs of the repository, the ground-control
server and the aircraft client, and the protocol they run over one TCP
connection. TLC checks the models on small instances; TLAPS proves a part of
what it checks for every value of the constants. `PROJECT.json` lists the runs,
the line ranges each definition was read from, the hazards and the theorems.

    tlc -config Session.cfg Session                  # both programs: safety, refinement
    tlc -config SessionProgress.cfg Session          # both programs: liveness
    tlc -config MCOpenServer.cfg MCOpenServer        # the server against any peer
    tlc -config MCOpenClient.cfg MCOpenClient        # the client against any server
    tlc -config MCFraming.cfg MCFraming              # one direction, byte by byte
    tlc -config FramedExchange.cfg FramedExchange    # telemetry and requests over those bytes
    tlc -config FramedTransfer.cfg FramedExchange    # the same, with the transfer
    tlc -config TimedSession.cfg TimedSession        # both programs with a clock
    tlc -config TimedSlowServer.cfg TimedSession     # the same, a very late server
    tlc -config TransferPlan.cfg TransferPlan        # sizes, chunks, checksum, START text
    tlc -config SessionStaleAck.cfg Session          # ends with a counterexample, see below
    tlc -config ForeignStartText.cfg ForeignStartText  # ends with a counterexample, see below
    tlapm SessionProofs.tla                          # proofs; likewise the other *Proofs modules

## 1. The system

| Component | Source | State it keeps | Operations |
|---|---|---|---|
| Ground-control server | `server_main.cpp` | `state`, `telemetryCount`, `transferTriggered`, `responseSequence`, the attempt counters of its loops, its two sockets | startup, accept, verification, the session loop, `sendCommandAndAwaitAck`, `requestAdditionalStatus`, `performLargeTransfer`, shutdown |
| Server decisions | `server_logic.cpp` | none | `validateActivePacket`, `computeTotalChunks`, the three triggers, the START text |
| Aircraft client | `client_main.cpp` | `sequenceNumber`, loop indices and attempts, `largeTransferCompleted`, the receive buffer, its socket | connect, handshake, telemetry, optional windows, `handleCommand`, `handleDataRequest`, `receiveLargeTransfer`, disconnect |
| Client decisions | `client_logic.cpp` | none | `generateTelemetry`, `parseTransferMetadata`, `buildTransferStatusText`, a range test used by tests only |
| Packet transport | `common.cpp` | what is in flight in each direction | `sendPacket`, `receivePacket`, `waitForReadable`, the 5 s socket timeouts, `closeSocket` |
| Framing and validation | `common.cpp` | none | header (de)serialisation, magic, version, size, timestamp, aircraft id |
| Large payload | `common.cpp` | none | `generateDiagnosticBlob`, `computeChecksum` |
| Telemetry codec, logger | `common.cpp` | a log file, never read back | text formatting and parsing, CSV lines |

Both programs have one thread and block in `accept`, `recv`, `send`, `select`
or a sleep. They share nothing but the connection, so all interaction is by
packets:

    client                                   server
      CONNECT_REQUEST  ------------------->    VERIFICATION
                       <-------------------    CONNECT_ACK
      TELEMETRY        ------------------->    counted
                       <-------------------    TELEMETRY_ACK
      window (750 ms)  <-------------------    at count 2: COMMAND
      COMMAND_ACK      ------------------->
      window           <-------------------    at count 3: DATA_REQUEST
      STATUS_RESPONSE  ------------------->
      window           <-------------------    at count 5: COMMAND, then START,
      COMMAND_ACK, STATUS_RESPONSE  ------>              chunks, END
      DISCONNECT       ------------------->
                       <-------------------    DISCONNECT

What makes this hard is not parallelism inside a program but that each side
waits for *one* packet type at a time, drops or rejects all others, resends on
its own timer, and never compares sequence numbers:

* TCP loses nothing, so a retransmission is always a *second* copy. Both copies
  are handled: telemetry is counted twice, a command is answered twice.
* A type is taken for the answer to whatever was asked last: any
  `TELEMETRY_ACK`, any `COMMAND_ACK`, any `STATUS_RESPONSE`.
* The server may start an exchange while the client is not in a window; each
  then drops what the other sends.
* A resent `CONNECT_REQUEST` reaches a server that has gone on.
* Waits can time out anywhere, the connection can break anywhere, and the
  chunks of a transfer may not fit into the socket buffers.
* A send or a receive that times out may do so in the middle of a packet; the
  next receive then starts there.
* Nothing but timing (a 750 ms window, 5 s waits, a 2 s sleep) brings a request
  of the server to a client that is listening for it.

What makes each part correct:

* *Server:* its state always agrees with where it is and changes only along
  `isValidTransition`; its retry loops stay within their limits; once it has
  accepted a client it ends, unless the client keeps sending it valid telemetry
  (the session loop, server_main.cpp:1012-1176, counts nothing); at most one
  large transfer; packet numbers are never reused for another packet.
* *Client:* it always exits; its loops stay within their limits; it holds the
  payload complete and in order before it reports so; exit code 0 after any
  session the server saw disconnected.
* *Transport:* a packet is received whole, in order and at most once, wherever
  a send or a receive gives up; a failed receive costs at most one packet, and
  against a server that is in its session loop the retransmission loops find
  back to the packets.
* *Large payload:* the chunks partition the payload, the announced numbers are
  read as they were written, and the client accepts exactly the whole payload.
* *Both together:* the client never has more samples acknowledged than the
  server has counted; an accepted answer was made for that exchange; a session
  that ends in DISCONNECTING has done everything on both sides.

## 2. Modules

| Module | Models |
|---|---|
| `Protocol` | message types, states, transition table, packets, retry limits, triggers |
| `LargeTransfer` | chunk arithmetic, payload, checksum, the client's acceptance test |
| `TcpStream` | the connection, packet by packet, as the wrappers of `common.cpp` present it |
| `GroundServer` | the server: 29 actions, and the properties it keeps against any peer |
| `AircraftClient` | the client: 25 actions, and the properties it keeps against any server |
| `Session` | server, client and link composed; end-to-end properties |
| `SessionContract` | abstract: what a session is to its users; `Session` refines it |
| `TimedSession` | `Session` with a clock, the waits and sleeps, and the age of packets |
| `OpenServer`, `MCOpenServer` | the server and an arbitrary peer; bounds and liveness |
| `OpenClient`, `MCOpenClient` | the client and an arbitrary server; bounds and liveness |
| `PacketStream` | abstract: what one direction promises packet by packet |
| `Framing`, `MCFraming` | `sendAll`, `receiveAll`, `sendPacket`, `receivePacket` byte by byte; refines `PacketStream` |
| `FramedExchange` | the active session over `Framing`: telemetry, acknowledgements, the server's exchanges, the windows |
| `TransferMetadata` | the text of LARGE_DATA_START, written and parsed |
| `TransferPlan` | a transfer's numbers, from the payload to the verdict, for all small sizes |
| `ForeignStartText` | `parseTransferMetadata` on damaged texts |
| `PayloadProofs` | theorems: the chunks of the payload and the client's test, for every size |
| `ProcessProofs` | lemmas about the connection and its queues, and about the steps of either program |
| `OpenProofs` | theorems: the server against any peer, the client against any server |
| `SessionProofs` | theorems: types, states, numbers, acknowledgements and payload of a session |
| `SessionExchangeProofs` | theorems: the exchanges of a session |
| `SessionContractProofs` | theorems: what a session is to its users, its dead ends, and the session with a clock |
| `FramingProofs` | theorems: framing, and the loops of the active session over it |
| `TransferPlanProofs` | theorems: the numbers of a transfer, through the text and back, for every size |

`GroundServer` and `AircraftClient` extend `TcpStream` (which extends
`Protocol`) and `LargeTransfer`; `Session` extends both, and `TimedSession`
extends `Session`. `Session` and `Framing` instantiate their abstract
specifications; `TransferPlan` instantiates `LargeTransfer` with the sizes of
the transfer at hand. Every step of `TimedSession` is a step of `Session` or a tick.

### State and code

* `sPc` and `cPc` name the point a program has reached: before each send, each
  receive, and each local step another process could tell apart. One action is
  one blocking call with everything the code does up to the next one. A send
  and the following receive are two actions.
* `sState`, `telemetryCount`, `transferTriggered`, `responseSequence`,
  `sequenceNumber`, `index`, `waitCycle`, `largeTransferCompleted` are the
  variables of those names (`sState` is `state`). `sendAttempt` / `recvAttempt`
  and `cSendAttempt` / `cRecvAttempt` are the loop counters named `attempt` of
  the outer and the inner retry loop. They are 1 outside the loops, where the
  code has no such variable.
* `samples` is a history variable: the indices of the samples behind
  `telemetryCount`. No action reads it.
* `exitCode` is the value `main` returns, or "running".
* A packet is a type, a sequence number and the part of the payload that some
  property tells apart: the sample index, the command, the report, the number
  of chunks, the chunk index.

### Where the code branches and the model chooses

* A wait that has nothing to receive may time out at any time. `Session` has no
  clock: it has every behaviour of every relative speed of the two programs,
  also speeds far from those of the 5 s, 750 ms, 2 s and 250 ms the code uses.
* With `LinkMayStall` a wait may end although a packet has been sent (its bytes
  are still on the way), and a receive may give up in the middle of a packet.
  The packet is then used up; that this costs one packet, and not more, is what
  `Framing` shows.
* `validateActivePacket` compares a timestamp with the clock, so a packet may
  be accepted or refused. (`ReceiveUnexpected` is the refusal as well as the
  branch for unexpected types; both send an ERROR_MESSAGE and end the session.)
* A send fails when the connection has been reset. Packets other than those of
  a transfer are small and few and never fill the buffers. A chunk, or the END
  behind the chunks, needs room: `SendBuffer` chunks fit, and the send either
  waits for room or fails after SO_SNDTIMEO.
* The connection is reset by TCP when data reaches a closed end, or, if
  `LinkMayFail`, at any time. What was in flight is then lost. Without a reset
  packets arrive once and in order.
* Branches the code has and no behaviour reaches (the exchanges' test for
  `ACTIVE`, the loop's test for an illegal state, a refused `transitionState`)
  are not separate actions: `StateAtPoint` and `LegalTransitions` say they are
  never taken. `Shutdown` keeps its test.
* A chunk carries its index; its bytes follow from the index because the
  payload is deterministic. The metadata of START is the chunk count; the size
  and the checksum it carries are those of `Blob`. That the text brings these
  numbers across is checked in `TransferPlan`. The arbitrary server of
  `OpenClient` therefore announces the size and checksum of this payload, with
  any chunk count and any chunks.

### Bytes

`Framing` models one direction of the connection as positions in a stream.
`sendPacket` writes a header and a payload; a sender breaks off in the middle
only where the code can (a chunk that does not fit the socket buffers in time,
or a broken connection) and sends nothing after it: every send failure in
`performLargeTransfer` ends the session, and on a broken connection nothing
gets through. `receiveAll` is a sequence of `recv` calls that return any part
of what has arrived; it may give up at any of them, and the bytes it has read
are gone. Bytes have no values. A header is told from other bytes by magic
number and version, so the model takes for granted that MAGIC_NUMBER ("AGC1")
stands only at the start of a packet. The payloads of the code satisfy this:
the texts do not contain it, and the bytes of the diagnostic payload count
upwards. A header read from the middle of a packet may have a part of a
timestamp where the magic number is expected; that a clock shows these four
bytes is not considered.

`FramedExchange` puts the active session on top of this stream in the direction
of the client: the session loop of the server, the exchanges its counts trigger
(COMMAND, DATA_REQUEST, and the command and the packets of a transfer), and
`sendTelemetryWithRetransmission` with the optional windows. Acknowledgements,
requests and error messages share the stream, so the client may read out of
step into any of them, or drop a request as a wrong type
(client_main.cpp:232-240), and a server in an exchange drops telemetry
(server_main.cpp:451-487). What the client sends is a queue of whole packets:
its bytes belong to the other direction, which is independent.

* `waitForReadable` and `receivePacket` returning false are one step, `MissAck`
  on the client's side and `MissAnswer` on the server's, since both end the
  attempt.
* One packet, LARGE_DATA_START, stands for those of a transfer; the client
  answers it or fails in the window, as it would with the chunks.
* The windows after the last sample are not counted, and the model stops there:
  the question is whether the telemetry gets through.
* `stalls` is a history variable. It counts the client's waits for an
  acknowledgement that end although bytes are on their way or the server has a
  packet to read; a wait with nothing to come is the natural end of an attempt.

### Time

`TimedSession` adds the ticks each program has been blocked or late, and the
ages of the telemetry in the connection. A process that is free to go on may
take up to `ServerLag` or `ClientLag` ticks for its next step; a process that
has overslept its wait sees what has come in the meantime. A packet is stamped
when it is built: CONNECT_REQUEST for each attempt, TELEMETRY once for its
three transmissions. Ages beyond `MaxDrift` count as one. Both programs run on
one machine (the client connects to 127.0.0.1) and the clock does not jump.

### Texts

A text is a sequence of tokens (a key with its equals sign, a semicolon, a
digit, another character). `std::stoul` and `std::stoull` convert the digits a
text begins with and throw where there are none or the number is too large;
signs and leading white space, which they also accept, are left out.
`unsigned long` has 32 bits on Windows, the platform of the code.

## 3. Runs

**`session`** (`Session.cfg`, 202,295 states). The limits and counts of the
code: three attempts, five samples, ten windows, triggers 2, 3 and 5. The
payload has three chunks, two full and one cut, as the smallest with a first, a
middle and a short last chunk (the code has 256 full chunks and one of 1024
bytes); two of them fill the buffers, so that a transfer may have to wait. The
payload's bytes are 0 to 4 and the checksum is kept modulo 8, below their sum
of 10, so that it wraps. The link may stall and fail. Nothing else is bounded:
both programs are finite. It checks

* `TransferIntact`: the client's buffer is always a prefix of the payload, and
  complete when it reports success;
* `TransferConfirmed`: the server regards a transfer as done only if the client
  has verified it, although it looks at neither the number nor the text of the
  STATUS_RESPONSE. (Here the client never reports TRANSFER_OK=FALSE: the payload
  it holds is whole or the transfer has failed before. A report of FALSE would
  be counted as done, since the server does not read it.)
* `ResponsesMatchRequests`: the answers the server accepts are the right ones,
  although it never compares them. What saves it is that a response in excess
  is always followed by an exchange that fails;
* `CleanSessionAgreed`: the server hears DISCONNECT in its session loop only
  after the complete script, on both sides. Every session in which something
  was resent at the wrong moment ends in ERROR_STATE instead;
* `AcknowledgedWithinCount`: late and repeated acknowledgements never put the
  client ahead of the server's count;
* `ImplementsContract`: the refinement. `SessionContract` has six variables and
  no packets: samples are counted and acknowledged, nothing is counted between
  the first chunk and the confirmation of the payload, the payload comes at its
  count, and the two sides agree to part when all of it has happened. The
  mapping: `counted` is `telemetryCount`, `acknowledged` is `index`,
  `delivered` the chunks in `fileBuffer`, `verified` and `confirmed` are
  `largeTransferCompleted` and `transferTriggered`, and `phase` is read off
  `sState` (`groundPhase`).

**`session_progress`** (`SessionProgress.cfg`, the same states). The same
instance under fairness:

* `CrossWaitIsFatal`, `HandshakeRetryIsFatal`: two situations in which the
  retransmission loops run but cannot help. They document limits of the
  protocol: when the server's request misses the client's window, and when the
  handshake has been resent, the session is lost;
* `ClientEnds`, `CleanSessionSucceeds`: liveness.

**`open_server`** (`MCOpenServer.cfg`, 57,740 states). The server against a
peer that sends a packet of any of the 13 types at any time. One packet waits
for the server at a time (`MaxQueue`): the server takes them one by one, so
what matters is which one is next. The session loop takes telemetry without
end, so the run has to stop somewhere: up to one telemetry packet more than
`MaxTelemetry` (4) is sent in the loop, with the triggers at 1, 2 and 3, so that
every exchange happens and is followed by more telemetry. TLC may stop where the
peer has gone and the server is done or waits in `accept`; the deadlock check is
therefore off. It checks `StateAtPoint`, `LegalTransitions`,
`NumbersIdentifyPackets`, `TransferNotRepeated`, and

* `ServerEnds`: once a client is accepted, the server ends, if the client gets no
  more than `MaxTelemetry` telemetry packets accepted (`TelemetryBounded`).
  Whatever else the client sends, fails to send or breaks is up to it. The
  condition is part of the property because the code needs it: each wait of the
  session loop is bounded by a timeout, their number by nothing, and a client
  that sends one more valid TELEMETRY within every 5 s stays for ever. The run
  has behaviours that go past the bound, of which nothing is claimed.

**`open_client`** (`MCOpenClient.cfg`, 696,337 states). The client against a
server that sends a packet of any type at any time (one waits at a time),
including a START with no chunk, the right count, one too many or a count whose
text `parseTransferMetadata` refuses, and any chunk. Two samples, two windows and
two attempts, so that every loop goes round; a payload of one chunk. TLC may stop
where the client is done; the deadlock check is off. It checks
`ClientNumbersIdentifyPackets`, `SuccessAfterAllSamples` (exit code 0 only with
every sample acknowledged, although the code looks at nothing when it prints
success) and `ClientEndsAnyhow`: unlike the server the client has no loop without
a count, so it exits whatever it is sent.

**`framing`** (`MCFraming.cfg`, 306,164 states). Four packets with a header of
four bytes; payloads of none, of two (shorter than a header) and of six bytes
(longer, so that a read that starts in the middle may end in the same packet),
and a size that is not allowed. Every cut of the stream and every place to give
up occurs. It checks `AcceptedWhole` and the refinement `ImplementsPacketStream`:
packets are received in order, at most once, and each failed `receivePacket`
spoils at most one. TLC stops where everything has been sent and read, so the
deadlock check is off.

**`framed_exchange`** (`FramedExchange.cfg`, 2,975,043 states). Three samples with
the limits and triggers of the code, so that the command and the status request
happen, and the transfer does when retransmissions have been counted. Headers of
three bytes and payloads of one: a header-sized read holds the leftovers of
several packets. `SurvivesStalls`: when the client gives a sample up, then the
server has ended, or is in an exchange, or at least three waits ended with an
answer still to come. In other words, as long as the server is in its session
loop it takes as many stalls as a sample has transmissions, however far they put
the client out of step. Nothing is claimed of a server that is in an exchange:
it drops the resent telemetry, and there one torn acknowledgement is enough, as
`CrossWaitIsFatal` says.

**`framed_transfer`** (`FramedTransfer.cfg`, 1,920,843 states). The same two
properties with the command at the first of two samples and the transfer at the
second, headers of five bytes and payloads of two, about in the proportion of
the code's 48 to 19.

**`prompt_session`** (`TimedSession.cfg`, 1,741 states). Ticks of 250 ms, the
waits and sleeps of the code (20 for 5 s, 3 for 750 ms, 120 for 30 s, 4, 8 and 1
for the sleeps of 1 s, 2 s and 250 ms), a link without faults, and processes up
to 500 ms late. `PromptSessionSucceeds`: every such session counts each sample
once and in order, transfers the payload and ends with success on both sides.
With no window for optional messages (the mutant) it does not.

**`slow_server`** (`TimedSlowServer.cfg`, 216,193 states). Ticks of 5 s, so the
shorter waits and sleeps are none; the server may take 50 s for a step, well
beyond the drift limit of six ticks. `DepartedNotCounted`: the server never
counts a sample of a client that has given up or gone: when its three
transmissions have been in vain for 45 s, the stamp they share is too old.

**`transfer_plan`** (`TransferPlan.cfg`, 540 states). Every payload of 1 to 14
bytes in chunks of 1 to 5: shorter than a chunk, whole chunks, and with a rest;
one- and two-digit numbers. Both conversions meet the largest number they can
return: sizes go up to 14 with `SizeLimit` 15, and the checksum, which wraps at
16 here, is 15 for the payload of six bytes, one below `UlongLimit`. A conversion
that refuses its largest number (the mutant) is found. `AnnouncementUnderstood`,
`ChunksPartitionPayload`, `AcceptedExactlyWhenWhole`. A behaviour ends with the
verdict; the deadlock check is off.

**`stale_ack`** (`SessionStaleAck.cfg`) is expected to fail, over a link that
never does. `client_main.cpp:290` says "Advance the sequence only after
successful acknowledgement." `AcknowledgedSampleCounted` states that: when the
client takes a TELEMETRY_ACK, the sample it sent has been counted. It does not
hold. The client resends a sample to a server that has been slow for its three
waits of 5 s; the server counts and acknowledges both copies; the client takes
the second acknowledgement for the next sample, which the server has not seen.
`AcknowledgedWithinCount` is what holds instead: the *number* is never wrong,
the sample may be.

**`foreign_text`** (`ForeignStartText.cfg`) is expected to fail.
`client_logic.cpp:170` says "Missing or malformed values cause a false return
instead of partial acceptance." `MalformedRejected` states that of START texts
no server of this repository writes. It does not hold: a number followed by
other characters is accepted, as far as its digits go.

### Fairness

* `WF(ServerStep)` except in `accept`, `WF(ClientStep)`: the operating system
  schedules both processes, and every blocking call but `accept` has a timeout
  (`setSocketTimeouts`, `waitForReadable`), so each step is eventually over.
* `WF(Accept)`: `accept` returns once a client is connected. Nothing forces it
  to fail, and with no client it waits for ever.
* No fairness for the link, nor, in `open_server` and `open_client`, for the
  other side.
* `prompt_session`: the clock ticks, and a tick waits for a process that is
  overdue. That is the assumption of the run, two processes on one machine that
  are never 500 ms late, and not something the code can ensure. Without it no
  property relies on a packet being received before a wait times out.

## 4. Proofs

Proved for all values of the constants that satisfy the named assumptions
(`RetriesAssumption`: at least one attempt; `ClientAssumption`;
`TriggerAssumption`: the three triggers differ; `FileAssumption`,
`LinkAssumption`, `PeerAssumption`, `ServerAssumption`, `MetadataAssumption`,
`SizeAssumption`, `ExchangeAssumption`, `TimeAssumption`; `PlanAssumption`: sizes are below the
limit of `stoull`, chunk counts and checksums below that of `stoul`, as they are
in the code with 1,049,600 bytes and 32-bit checksums), and, where the table says so, of one
hypothesis about the values the code gives its constants:

* `TransferInTime`: the transfer is due no later than the last sample. Both are
  5 in the code (server_logic.cpp:223 and client_main.cpp:689). If the transfer
  were due later, the client would disconnect before it, and
  `CleanSessionAgreed` would fail.

| Theorem | States |
|---|---|
| `OpenTypeCorrect` | `OpenSpec => []OpenTypeOK` |
| `StateFollowsTable` | `OpenSpec => []StateAtPoint` |
| `TransitionsLegal` | `OpenSpec => LegalTransitions` |
| `AtMostOneTransfer` | `OpenSpec => []TransferNotRepeated` |
| `NumbersInOrder` | `OpenSpec => []NumbersIdentifyPackets` |
| `OpenClientTypeCorrect` | `OpenClientSpec => []OpenClientTypeOK` |
| `SuccessMeansAllSamples` | `OpenClientSpec => []SuccessAfterAllSamples` |
| `ClientNumbersInOrder` | `OpenClientSpec => []ClientNumbersIdentifyPackets` |
| `SessionTypeCorrect` | `Spec => []TypeOK` |
| `SessionTransitionsLegal` | `Spec => LegalTransitions` |
| `SessionNumbersInOrder` | `Spec => []NumbersIdentifyPackets` |
| `SessionAcknowledgedWithinCount` | `Spec => []AcknowledgedWithinCount` |
| `SessionTransferIntact` | `Spec => []TransferIntact` |
| `SessionResponsesMatch` | `Spec => ResponsesMatchRequests` |
| `SessionTransferConfirmed` | `Spec => []TransferConfirmed` |
| `SessionPartsAgreed` | `TransferInTime`: `Spec => []CleanSessionAgreed` |
| `SessionKeepsContract` | `TransferInTime`: `Spec => ImplementsContract` |
| `CrossWaitEndsSession` | `Spec => CrossWaitIsFatal` |
| `HandshakeRetryEndsSession` | `Spec => HandshakeRetryIsFatal` |
| `TimedTypeCorrect` | `TimedSpec => []TimedTypeOK` |
| `FrameTypeCorrect` | `FrameSpec => []FrameTypeOK` |
| `OnlyWholePackets` | `FrameSpec => []AcceptedWhole` |
| `FramingImplementsPacketStream` | `FrameSpec => ImplementsPacketStream` |
| `ExchangeTypeCorrect` | `ExchangeSpec => []ExchangeTypeOK` |
| `PlanUnderstood` | `PlanSpec => []AnnouncementUnderstood` |
| `PlanPartitioned` | `PlanSpec => []ChunksPartitionPayload` |
| `PlanAccepted` | `PlanSpec => []AcceptedExactlyWhenWhole` |
| `StartTextUnderstood` | `parseTransferMetadata` of what `buildTransferStartText` writes gives back its three numbers, if they are below the limits of the conversions |
| `ChunksPartitionEveryPayload` | `ChunksPartition`, for every size |
| `OnlyAllChunksBringTheSize` | the first n chunks have the size announced exactly when n is the count announced |
| `WholePayloadAccepted` | `bufferAccepted(Blob)`, for every size and checksum width |

How the arguments go:

* *Types.* `ServerTypeStep` and `ClientTypeStep` take the actions one by one.
  The server's types are inductive as they stand. The client's are not: that
  `waitCycle` stays within `PostCycles` needs `WindowInv`, which says that the
  client is in its telemetry loop or in a window of a post-telemetry loop that
  has windows left. The connecting and the sending loop share one counter whose
  limit depends on where the client is (`sendLimit`).
* *States.* `StateAtPoint` is inductive; with it every step that changes
  `state` starts and ends in known rows of the table (`TransitionStep`), and
  `LegalTransitions` follows.
* *One transfer.* `TransferNotRepeated` alone is not inductive, because the
  flag is read when the exchange starts and set when it is over.
  `FirstTransfer` adds the points in between: from the command on,
  `transferTriggered` is still FALSE.
* *Numbers.* `NumbersInv` adds that no packet in flight has a number above
  `responseSequence`, and that those *at* it are copies of the packet the
  current retransmission loop sends (`InProgress`), or the server has stopped
  sending. Then a packet with the current number can be appended, a number can
  be advanced, and receiving from the other end or losing everything keeps the
  order (`SendNumbers`, `QuietNumbers`, `ShorterQueueNumbers`).
  `ClientNumbersInv` is the same for the client and `sequenceNumber`.
* *Success.* `PastLastSample` adds to `SuccessAfterAllSamples` that the client
  reaches its DISCONNECT only with `index = NumSamples`.
* *Acknowledgements.* `AcksInv` counts: samples acknowledged, plus
  acknowledgements in flight, plus the one the server is about to send, are at
  most the samples counted. Counting a sample adds to the right before the
  acknowledgement adds to the left (`ServerAckStep`); the client acknowledges a
  sample only by taking an acknowledgement off the connection
  (`ClientAckStep`); receiving, losing and tearing packets only take away.
* *The transfer.* Neither side numbers chunks, so `TransferIntact` rests on
  where they are. `TransferInv` says that the session has at most one START,
  which comes before the client has received anything (`PipeInv`, from
  `FirstTransfer`); that every chunk on its way continues the packet in front of
  it (`ChunksInOrder`); that the two ends fit: the chunk the server sends next
  continues its last packet (`NextFromServer`), and the chunk the client takes
  next is the first one it lacks (`NextForClient`); and that the client stops
  asking for chunks exactly when it has all (`BufferInv`). The server only
  appends (`ServerKeepsTransfer`); the client appends to its buffer what it takes
  (`ClientKeepsTransfer`) and leaves the transfer for good when a receive yields
  nothing, which is why a torn or late chunk cannot leave a gap; a reset empties
  the connection and ends all receiving (`LinkKeepsTransfer`).
* *Exchanges.* Neither side compares the text of a response, or a number, with
  the request. `ResponsesMatchRequests` and `TransferConfirmed` therefore rest
  on what can still be on its way. `Answerable` says which packets in flight the
  client may yet answer: it answers one request per window, and while it waits
  for TELEMETRY_ACK it throws away every request in front of that. So when the
  server counts a sample nothing is pending (`NothingPending`); during an
  exchange every answer pending or still possible is the exchange's own
  (`OnlyOwn`), and samples come after it (`InOrder`); afterwards late answers
  may be left, but only in front of the next sample, where the session loop
  ends on them before it can start an exchange (`Leftovers`). `ExchangeInv`
  puts these at the points of the server; `ClientExchangeStep` and
  `ServerExchangeStep` sort all actions into a few kinds, and the proof goes by
  kinds.
* *Parting.* `ServedInv` adds that the transfer begins at its count and that
  past this count without a transfer the session is over (`TransferDue`); that
  a DISCONNECT in the connection means a client that has acknowledged all its
  samples (`PartingInv`); and what the contract needs of the payload during a
  transfer (`DeliveryInv`). A client that has parted has had `NumSamples`
  samples counted, by `AcksInv`, so with `TransferInTime` the transfer was due,
  and in the session loop it is over. `ServerKeepsContract` and
  `ClientKeepsContract` map each step to a step of `SessionContract` or to
  none.
* *Dead ends.* `Wedged` is what `CrossWait` leads to; no step leads out of it,
  because the only answers that could are not on their way and neither side
  makes another. For the handshake, `HandshakeInv` says that until the client
  is answered the connection holds exactly the CONNECT_REQUESTs it has sent, but
  for the one verification took; a second one makes `OneTooMany`, which holds
  until the server meets it in its session loop and stops.
* *Time.* By its definition every step of `TimedSession` is one of `Session` or a
  tick that leaves it alone (`TimedSessionIsSession`, a lemma), so `FullInv`
  may be used in the proof of `TimedTypeOK`: the server only takes packets and
  the client only adds them, hence every packet keeps its age (`StepClocks`,
  `TickClocks`).
* *Framing.* `FrameInv` is `FrameTypeOK`, `LaidOut` (packets lie behind one
  another, and only the last may be incomplete, when the sender has ended),
  `ReadingInv` (where a read in progress will stop) and `AcceptedWhole`. For
  the refinement, the abstract `usedUp` is the number of whole packets that
  start before the receiver's position; each kind of step moves it by none or
  one, because a read never extends past the packet it started in or, from the
  middle of one, past the header behind it.
* *The session over bytes.* `ExchangeInv` is `FrameInv` with the types of the
  packets, of the server's loops and of the client's. Every step is one of
  `Framing` or leaves it alone (`ExchangeStepsFrame`), so `FrameInv` carries over;
  each packet in the stream has a kind because a kind is added with every header.
* *Chunks.* Rounded-up division gives enough chunks to cover the payload and
  not one too many (`EnoughChunks`), and consecutive chunks meet
  (`ChunkBounds`). As they do not overlap, their sizes add up (`PrefixSize`).
* *Recursion.* `digitsOf` is a recursive function, `numberOf` a fold, the
  checksum a sum of sums. The library's induction principle takes an operator
  and cannot be instantiated here; `Induction` is the same with a set, from the
  least element of a well-founded set (`WFMin`). `Recursion` then shows that a
  function whose values depend on smaller arguments only exists, by iterating
  its equation until every argument is settled. It gives `DigitsDefined`,
  `FoldDefined` and `SumDefined`: the three are what their equations say.
* *The text of a transfer.* Writing a number and reading its digits gives the
  number back (`DigitsRead`, by induction over the number), and nothing but the
  digits is read (`AllDigitsRead`). In the text of LARGE_DATA_START no key
  occurs before its own place and a semicolon or the end follows the digits
  (`TextLayout`), so `extractField` returns them (`FieldFound`). That the
  numbers are below the limits comes from `NoMoreChunksThanBytes` and
  `ChecksumRange`. `PlanInv` says that the text and what was read in it are those
  of the two sizes. A step leaves the sizes alone, and with them the count and
  the checksum (`NumbersKept`).

The lemmas about server steps do not mention the peer, and those about client
steps not the server, so the theorems about `Session`, `OpenServer` and
`OpenClient` use the same ones. The inductive invariants were checked by TLC
before they were proved.

Only model-checked:

* the liveness properties (`ServerEnds`, `ClientEnds`, `CleanSessionSucceeds`,
  `PromptSessionSucceeds` and those of the other runs): fairness and ENABLED are
  out of the prover's reach here;
* `SurvivesStalls`: which bytes of which packets a misread may take depends on
  the sizes of all of them and on where the server is in its exchanges;
* `DepartedNotCounted`, which depends on how the values of the waits, the number
  of attempts and the drift limit compare.

## 5. Not modelled

* The telemetry text: `telemetryToPayload` and `payloadToTelemetry` print and
  parse four decimal numbers. That the server may find a packet's telemetry
  unreadable is part of the choice to refuse it.
* The values of bytes, in headers and payloads (byte order, padding of the
  header, the aircraft id): both programs are built from the same source.
* A header with the right magic number in the middle of other data, see
  *Bytes* above.
* Clocks that disagree or jump; `validateTimestamp` compares the clocks of two
  programs that run on one machine.
* The CSV log, console output, the output file of the transfer, and operations
  only tests call (`isTelemetryWithinExpectedOperationalRange`) or nothing calls
  (`sendPacketWithRetransmission`).
* Running out of memory: `fileBuffer.reserve` with an announced size.

## 6. Plan

1. `DepartedNotCounted` for all waits with nine receives longer than the drift
   limit: an invariant that relates the age of the client's telemetry to its
   attempts. It has to account for receives that a request of the server ends
   early.
2. `SurvivesStalls` for every header and payload size: an invariant that relates
   the bytes between the client's position and the next whole acknowledgement to
   the attempts used up, with requests of the server in between.
3. The other direction of `FramedExchange` byte by byte: a server that reads out
   of step in its session loop, where one misread ends the session.
