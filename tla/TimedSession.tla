----------------------------- MODULE TimedSession -----------------------------
(***************************************************************************)
(* The session with a clock: how long each blocking call and each sleep    *)
(* lasts, how late a process may be, and how old a packet is when it is    *)
(* validated.  Session leaves all of this open; every step here is a step  *)
(* of Session, or a tick.                                                  *)
(***************************************************************************)
EXTENDS Session

CONSTANTS  \* all in ticks
  SocketTimeout,  \* SOCKET_TIMEOUT_MS (5 s)
  OptionalWait,   \* OPTIONAL_WAIT_MS (750 ms)
  MaxDrift,       \* MAX_TIMESTAMP_DRIFT_MS (30 s)
  ConnectPause,   \* sleep between two attempts to connect (1 s)
  SamplePause,    \* sleep after a telemetry sample (2 s)
  WindowPause,    \* sleep after a window of the post-telemetry loop (250 ms)
  ServerLag,      \* ticks the server may take for a step it is free to take
  ClientLag       \* the same for the client

ASSUME TimeAssumption ==
  /\ {SocketTimeout, OptionalWait, MaxDrift} \subseteq Nat
  /\ {ConnectPause, SamplePause, WindowPause} \subseteq Nat
  /\ {ServerLag, ClientLag} \subseteq Nat

VARIABLES
  sWait,  \* ticks the server has been blocked at its point
  sLag,   \* ticks it has been free to go on
  cWait,  \* the same for the client, sleeping included
  cLag,
  stamp,  \* age of the telemetry packet the client is sending
  ages    \* ages of the packets in toServer

timeVars == <<sWait, sLag, cWait, cLag, stamp, ages>>

TimedInit ==
  /\ Init
  /\ sWait = 0 /\ sLag = 0
  /\ cWait = 0 /\ cLag = 0
  /\ stamp = 0
  /\ ages = <<>>

(***************************************************************************)
(* The server's time.                                                      *)
(***************************************************************************)
\* Variant: no timeout is set for what the server receives.
ServerBlocked_NoTimeout ==
  \/ /\ sPc = "accept"
     /\ clientEnd = "none"
  \/ /\ sPc \in {"verify", "active", "commandAck", "statusResponse", "transferStatus"}
     /\ toServer = <<>> /\ clientEnd # "closed" /\ ~reset

\* accept, recv or select, and a send behind the chunks of a transfer.
ServerBlocked ==
  \/ /\ sPc = "accept"
     /\ clientEnd = "none"
  \/ /\ sPc \in {"verify", "active", "commandAck", "statusResponse", "transferStatus"}
     /\ toServer = <<>> /\ clientEnd # "closed" /\ ~reset
     /\ sWait < SocketTimeout
  \/ /\ sPc \in {"sendChunk", "sendEnd"}
     /\ chunksInFlight >= SendBuffer /\ ~reset
     /\ sWait < SocketTimeout

\* Variant: the age of a packet is not looked at.
validateActivePacket_AnyAge == Head(ages) >= 0

\* The client's packets have the right aircraft id and size.
validateActivePacket == Head(ages) <= MaxDrift

\* The outcome of validateActivePacket where it is called.
ValidatesByAge ==
  /\ sPc = "verify" /\ toServer # <<>> =>
       (sPc' = "connectAck" <=> serverIncoming.type = "CONNECT_REQUEST"
                                /\ validateActivePacket)
  /\ sPc = "active" /\ toServer # <<>> =>
       (sPc' = "telemetryAck" <=> serverIncoming.type = "TELEMETRY"
                                  /\ validateActivePacket)

\* Nothing is wrong with the sockets, so main does not return before its end.
TimedServerStep ==
  /\ ~ServerBlocked
  /\ ServerStep
  /\ sPc' = "done" => sPc = "closing"
  /\ ValidatesByAge
  /\ sWait' = 0 /\ sLag' = 0
  /\ ages' = IF Len(toServer') < Len(toServer) THEN Tail(ages) ELSE ages
  /\ UNCHANGED <<cWait, cLag, stamp>>

(***************************************************************************)
(* The client's time.                                                      *)
(***************************************************************************)
\* How long it sleeps before its next step: after a connection that was
\* refused, after the window of a sample, after a post-telemetry window.
clientPause ==
  CASE cPc = "connect" /\ cSendAttempt > 1                     -> ConnectPause
    [] cPc = "telemetry" /\ index > 0 /\ cSendAttempt = 1      -> SamplePause
    [] cPc \in {"optional", "disconnect"} /\ index = NumSamples ->
         IF waitCycle = 0 THEN SamplePause ELSE WindowPause
    [] OTHER                                                   -> 0

\* Variant: the window looks whether something has come and does not wait.
clientTimeout_NoWindow == IF cPc = "optional" THEN 0 ELSE SocketTimeout

clientTimeout == IF cPc = "optional" THEN OptionalWait ELSE SocketTimeout

ClientBlocked ==
  \/ cWait < clientPause
  \/ /\ cPc \in {"connectAck", "telemetryAck", "optional", "chunk", "end", "finalAck"}
     /\ toClient = <<>> /\ serverEnd # "closed" /\ ~reset
     /\ cWait < clientPause + clientTimeout

\* CONNECT_REQUEST is built for each attempt, TELEMETRY once for all of them.
FirstSend == cPc # "telemetry" \/ cSendAttempt = 1

TimedClientStep ==
  /\ ~ClientBlocked
  /\ ClientStep
  /\ ~(StartupFails /\ UNCHANGED serverVars)
  /\ cWait' = 0 /\ cLag' = 0
  /\ stamp' = IF cPc = "telemetryAck" \/ ~FirstSend THEN stamp ELSE 0
  /\ ages' = IF Len(toServer') > Len(toServer)
             THEN Append(ages, IF FirstSend THEN 0 ELSE stamp) ELSE ages
  /\ UNCHANGED <<sWait, sLag>>

TimedLinkStep == LinkStep /\ ages' = <<>> /\ UNCHANGED <<sWait, sLag, cWait, cLag, stamp>>

(***************************************************************************)
(* A tick passes unless a process is overdue.  Ages past MaxDrift are all  *)
(* the same.                                                               *)
(***************************************************************************)
Older(age) == IF age <= MaxDrift THEN age + 1 ELSE age

Tick ==
  /\ ~(sPc = "done" /\ cPc = "done")
  /\ ServerBlocked \/ sPc = "done" \/ sLag < ServerLag
  /\ ClientBlocked \/ cPc = "done" \/ cLag < ClientLag
  /\ sWait' = IF ServerBlocked /\ sPc # "accept" THEN sWait + 1 ELSE sWait
  /\ sLag' = IF ServerBlocked \/ sPc = "done" THEN sLag ELSE sLag + 1
  /\ cWait' = IF ClientBlocked THEN cWait + 1 ELSE cWait
  /\ cLag' = IF ClientBlocked \/ cPc = "done" THEN cLag ELSE cLag + 1
  /\ stamp' = Older(stamp)
  /\ ages' = [k \in DOMAIN ages |-> Older(ages[k])]
  /\ UNCHANGED vars

TimedNext ==
  \/ TimedServerStep \/ TimedClientStep \/ TimedLinkStep \/ Tick
  \/ Terminated /\ UNCHANGED timeVars

timedSessionVars == <<vars, timeVars>>

TimedSpec == TimedInit /\ [][TimedNext]_timedSessionVars

\* The clock runs, and no process is later than its lag.
TimedFairSpec ==
  /\ TimedSpec
  /\ WF_timedSessionVars(Tick)
  /\ WF_timedSessionVars(TimedServerStep)
  /\ WF_timedSessionVars(TimedClientStep)

TimedTypeOK ==
  /\ TypeOK
  /\ sWait \in 0 .. SocketTimeout /\ sLag \in 0 .. ServerLag
  /\ cWait \in Nat /\ cLag \in 0 .. ClientLag
  /\ stamp \in 0 .. MaxDrift + 1
  /\ ages \in Seq(0 .. MaxDrift + 1)
  /\ Len(ages) = Len(toServer)

\* Two prompt processes complete the whole script: each sample is counted once
\* and in order, the transfer is complete on both sides, and both exit with
\* success.  The lags must stay below the 750 ms window for this to hold.
SessionComplete ==
  /\ sPc = "done" /\ sState = "SHUTDOWN"
  /\ cPc = "done" /\ exitCode = "0"
  /\ samples = [k \in 1 .. NumSamples |-> k - 1]
  /\ transferTriggered /\ largeTransferCompleted

PromptSessionSucceeds == <>[]SessionComplete

\* However late the server is, it never counts a sample of an aircraft that has
\* given up its three transmissions of 15 s each: by then every copy it may
\* still find in the connection is too old.
DepartedNotCounted == [][ReceiveTelemetry => cPc \notin {"close", "done"}]_vars
=============================================================================
