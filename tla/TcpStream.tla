------------------------------ MODULE TcpStream ------------------------------
(***************************************************************************)
(* The one TCP connection of a session, as the Winsock wrappers of         *)
(* common.cpp present it: packets of one direction arrive in order and at  *)
(* most once, and a receive either yields the oldest packet or nothing     *)
(* (select or SO_RCVTIMEO timed out, the peer has closed, the connection   *)
(* was reset).  Time is not modelled: a receive may come back with nothing *)
(* whenever no packet has arrived yet.  A receive that gives up in the     *)
(* middle of a packet has used that packet up; Framing shows, byte by      *)
(* byte, that it costs one packet and no more.                             *)
(***************************************************************************)
EXTENDS Protocol

CONSTANTS
  SendBuffer,     \* chunk packets the kernel buffers towards the client hold
  LinkMayFail,    \* TRUE: the connection may be reset while both ends are open
  LinkMayStall    \* TRUE: bytes may be on the way for longer than a receive waits

ASSUME LinkAssumption ==
  /\ SendBuffer \in Nat \ {0}
  /\ LinkMayFail \in BOOLEAN
  /\ LinkMayStall \in BOOLEAN

VARIABLES
  toServer,   \* packets sent by the client and not yet received, oldest first
  toClient,   \* the same for the server
  serverEnd,  \* "none" | "listening" | "open" | "closed"
  clientEnd,  \* "none" | "open" | "closed"
  reset       \* the connection was reset: every send and receive fails

netVars == <<toServer, toClient, serverEnd, clientEnd, reset>>

NetTypeOK ==
  /\ toServer \in Seq(Packet)
  /\ toClient \in Seq(Packet)
  /\ serverEnd \in {"none", "listening", "open", "closed"}
  /\ clientEnd \in {"none", "open", "closed"}
  /\ reset \in BOOLEAN

NetInit ==
  /\ toServer = <<>>
  /\ toClient = <<>>
  /\ serverEnd = "none"
  /\ clientEnd = "none"
  /\ reset = FALSE

Ends == <<serverEnd, clientEnd, reset>>

(* The server's end. *)

ServerListens == /\ serverEnd' = "listening"
                 /\ UNCHANGED <<toServer, toClient, clientEnd, reset>>

ServerAccepts == /\ clientEnd # "none"
                 /\ serverEnd' = "open"
                 /\ UNCHANGED <<toServer, toClient, clientEnd, reset>>

\* sendPacket returned true / false.
ServerSends(packet) == /\ ~reset
                       /\ toClient' = Append(toClient, packet)
                       /\ UNCHANGED <<toServer, Ends>>

ServerSendFails == reset /\ UNCHANGED netVars

\* A packet sent behind the chunks of a transfer needs room in the buffers
\* they fill; the send waits for it and gives up after SO_SNDTIMEO.
chunksInFlight ==
  Len(SelectSeq(toClient, LAMBDA packet : packet.type = "LARGE_DATA_CHUNK"))

ServerSendsBulk(packet) == chunksInFlight < SendBuffer /\ ServerSends(packet)

ServerBulkSendFails == /\ reset \/ chunksInFlight >= SendBuffer
                       /\ UNCHANGED netVars

serverIncoming == Head(toServer)

ServerReceives == /\ ~reset
                  /\ toServer # <<>>
                  /\ toServer' = Tail(toServer)
                  /\ UNCHANGED <<toClient, Ends>>

\* Timeout, end of stream or connection error; or the bytes of the oldest
\* packet stall, before the receive has read any of them or halfway.
ServerReceivesNothing ==
  \/ /\ reset \/ toServer = <<>> \/ LinkMayStall
     /\ UNCHANGED netVars
  \/ LinkMayStall /\ ServerReceives

\* Both sockets of the server are closed.  A client still in the backlog
\* (accept never returned it) is reset.
ServerCloses == /\ serverEnd' = "closed"
                /\ reset' = (reset \/ (serverEnd = "listening" /\ clientEnd = "open"))
                /\ UNCHANGED <<toServer, toClient, clientEnd>>

(* The client's end. *)

\* connect: completes as soon as the server listens, before it accepts.
ClientConnects == /\ serverEnd = "listening"
                  /\ clientEnd' = "open"
                  /\ UNCHANGED <<toServer, toClient, serverEnd, reset>>

ClientConnectRefused == serverEnd # "listening" /\ UNCHANGED netVars

ClientSends(packet) == /\ ~reset
                       /\ toServer' = Append(toServer, packet)
                       /\ UNCHANGED <<toClient, Ends>>

ClientSendFails == reset /\ UNCHANGED netVars

clientIncoming == Head(toClient)

ClientReceives == /\ ~reset
                  /\ toClient # <<>>
                  /\ toClient' = Tail(toClient)
                  /\ UNCHANGED <<toServer, Ends>>

ClientReceivesNothing ==
  \/ /\ reset \/ toClient = <<>> \/ LinkMayStall
     /\ UNCHANGED netVars
  \/ LinkMayStall /\ ClientReceives

\* waitForReadable(OPTIONAL_WAIT_MS) returned false: nothing has arrived,
\* and neither the end of the stream nor an error, which would be readable.
ClientSeesSilence == /\ ~reset
                     /\ LinkMayStall \/ (toClient = <<>> /\ serverEnd # "closed")
                     /\ UNCHANGED netVars

\* The wait ended, but with the end of the stream, an error, or the first bytes
\* of a packet whose others stall.
ClientReceiveFails ==
  \/ /\ reset \/ (toClient = <<>> /\ serverEnd = "closed")
     /\ UNCHANGED netVars
  \/ LinkMayStall /\ ClientReceives

ClientCloses == /\ clientEnd' = IF clientEnd = "open" THEN "closed" ELSE clientEnd
                /\ UNCHANGED <<toServer, toClient, serverEnd, reset>>

(***************************************************************************)
(* The connection is reset: bytes reach an end that is closed (unread when *)
(* it closed, or sent afterwards), or the link fails.  What was in flight  *)
(* is lost.                                                                *)
(***************************************************************************)
BytesAtClosedEnd == \/ serverEnd = "closed" /\ toServer # <<>>
                    \/ clientEnd = "closed" /\ toClient # <<>>

ConnectionReset == /\ clientEnd # "none"
                   /\ serverEnd \in {"open", "closed"}
                   /\ ~reset
                   /\ BytesAtClosedEnd \/ LinkMayFail
                   /\ reset' = TRUE
                   /\ toServer' = <<>>
                   /\ toClient' = <<>>
                   /\ UNCHANGED <<serverEnd, clientEnd>>
=============================================================================
