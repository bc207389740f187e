------------------------------ MODULE Protocol ------------------------------
(***************************************************************************)
(* What the ground-control server and the aircraft client share: message   *)
(* types, packets, server states, the numbers that bound the retry loops   *)
(* and the telemetry counts that trigger the server's exchanges.           *)
(***************************************************************************)
EXTENDS Naturals, Sequences

CONSTANTS
  MaxRetransmissions,  \* MAX_RETRANSMISSION_ATTEMPTS (3 in the code)
  MaxReconnects,       \* MAX_RECONNECT_ATTEMPTS (3)
  NumSamples,          \* telemetry samples the client sends (5)
  PostCycles,          \* optional windows after the last sample (10)
  CommandAt,           \* telemetry count that triggers ADJUST_HEADING (2)
  StatusAt,            \* telemetry count that triggers DATA_REQUEST (3)
  TransferAt           \* telemetry count that triggers the large transfer (5)

ASSUME RetriesAssumption ==
  /\ MaxRetransmissions \in Nat \ {0}
  /\ MaxReconnects \in Nat \ {0}

ASSUME ClientAssumption ==
  /\ NumSamples \in Nat \ {0}
  /\ PostCycles \in Nat

\* The three triggers are different counts, so one acknowledged sample starts
\* at most one of the three exchanges.
ASSUME TriggerAssumption ==
  /\ CommandAt \in Nat \ {0}
  /\ StatusAt \in Nat \ {0, CommandAt}
  /\ TransferAt \in Nat \ {0, CommandAt, StatusAt}

MessageType ==
  {"CONNECT_REQUEST", "CONNECT_ACK", "TELEMETRY", "TELEMETRY_ACK", "COMMAND",
   "COMMAND_ACK", "DATA_REQUEST", "STATUS_RESPONSE", "LARGE_DATA_START",
   "LARGE_DATA_CHUNK", "LARGE_DATA_END", "DISCONNECT", "ERROR_MESSAGE"}

ServerState ==
  {"STARTUP", "IDLE_LISTENING", "VERIFICATION", "ACTIVE",
   "COMMAND_PROCESSING", "DATA_TRANSFER", "DISCONNECTING", "ERROR_STATE",
   "SHUTDOWN"}

\* The states the switch of isValidTransition accepts after each state.
LegalSuccessors ==
  [s \in ServerState |->
     CASE s = "STARTUP"            -> {"IDLE_LISTENING", "ERROR_STATE"}
       [] s = "IDLE_LISTENING"     -> {"VERIFICATION", "SHUTDOWN", "ERROR_STATE"}
       [] s = "VERIFICATION"       -> {"ACTIVE", "ERROR_STATE", "IDLE_LISTENING"}
       [] s = "ACTIVE"             -> {"COMMAND_PROCESSING", "DATA_TRANSFER",
                                       "DISCONNECTING", "ERROR_STATE"}
       [] s = "COMMAND_PROCESSING" -> {"ACTIVE", "ERROR_STATE"}
       [] s = "DATA_TRANSFER"      -> {"ACTIVE", "ERROR_STATE"}
       [] s = "DISCONNECTING"      -> {"SHUTDOWN", "IDLE_LISTENING", "ERROR_STATE"}
       [] s = "ERROR_STATE"        -> {"SHUTDOWN"}
       [] s = "SHUTDOWN"           -> {}]

isValidTransition(currentState, nextState) ==
  nextState \in LegalSuccessors[currentState]

(***************************************************************************)
(* A packet is its type, its sequence number and the part of its payload   *)
(* the protocol can tell apart: the sample index of TELEMETRY, the command *)
(* of COMMAND and COMMAND_ACK, the report of STATUS_RESPONSE, the chunk    *)
(* count of LARGE_DATA_START and the chunk index of LARGE_DATA_CHUNK.      *)
(* Payloads nobody reads are 0.                                            *)
(***************************************************************************)
Packet == [type: MessageType, seq: Nat, arg: Nat]

makePacket(messageType, sequenceNumber, payload) ==
  [type |-> messageType, seq |-> sequenceNumber, arg |-> payload]

NoPayload        == 0
AdjustHeading    == 0  \* "ADJUST_HEADING:100"
InitiateTransfer == 1  \* "INITIATE_DIAGNOSTIC_TRANSFER"
Command == {AdjustHeading, InitiateTransfer}

EngineStatus   == 0  \* "ENGINE_TEMP=...;SYSTEM=NOMINAL"
TransferFailed == 1  \* "TRANSFER_OK=FALSE;..."
TransferOk     == 2  \* "TRANSFER_OK=TRUE;..."

\* The server's triggers, functions of the telemetry count alone.
shouldSendCommand(telemetryCount) == telemetryCount = CommandAt

shouldRequestAdditionalStatus(telemetryCount) == telemetryCount = StatusAt

\* Variant: neither the exact count nor the flag stops a second transfer.
shouldStartLargeTransfer_Repeats(telemetryCount, transferTriggered) ==
  telemetryCount >= TransferAt

shouldStartLargeTransfer(telemetryCount, transferTriggered) ==
  telemetryCount = TransferAt /\ ~transferTriggered
=============================================================================
