---------------------------- MODULE TelemetryClient ----------------------------
(* OpenPlanetClient: frames out of a byte stream.  The plugin sends fixed-size
   packets for as long as somebody is connected; the client cuts the stream into
   packets again, keeps what follows the last whole one for the next read, and
   reconnects when the plugin goes away.  A packet is PacketSize pieces; TCP may
   deliver any number of them at a time.  Field checks are left out.          *)
EXTENDS Integers, Sequences

CONSTANTS PacketSize,      \* pieces of a packet
          MaxFrames,       \* bound: frames the plugin sends
          MaxConnections   \* bound: connections the plugin accepts

ASSUME TelemetryAssumption ==
    PacketSize \in Nat \ {0} /\ MaxFrames \in Nat /\ MaxConnections \in Nat

VARIABLES
    \* external: the plugin and the connection
    plugin,      \* [frame, piece]: the last piece sent
    wire,        \* pieces on their way to the client
    peer,        \* "open", "eof", "reset": what the client meets behind the wire; "none"
    connections, \* connections accepted so far
    \* the client
    buffer,      \* _buffer
    reading,     \* the read under way: "idle", "latest", "next"
    stage,       \* "receive", "drain", "failed"
    packet,      \* the first packet of the read
    expired,     \* reconnect_deadline has passed
    \* history
    read         \* what the last read gave: [frame, pieces, skipped, connection, how]

telemetryVars ==
    <<plugin, wire, peer, connections, buffer, reading, stage, packet, expired, read>>

Connected == peer # "none"
Take(pieces) == SubSeq(pieces, 1, PacketSize)
Rest(pieces) == SubSeq(pieces, PacketSize + 1, Len(pieces))
Whole(pieces) == Len(pieces) \div PacketSize

TelemetryInit ==
    /\ plugin = [frame |-> 0, piece |-> PacketSize] /\ wire = <<>> /\ peer = "none"
    /\ connections = 0 /\ buffer = <<>> /\ reading = "idle" /\ stage = "receive"
    /\ packet = <<>> /\ expired = FALSE
    /\ read = [how |-> "none", frame |-> 0, pieces |-> <<>>, skipped |-> 0, connection |-> 0]

-----------------------------------------------------------------------------
(* External: the plugin sends the packets in order, and may vanish anywhere.  *)
SendPiece ==
    /\ peer = "open"
    /\ IF plugin.piece < PacketSize
         THEN plugin' = [plugin EXCEPT !.piece = @ + 1]
         ELSE plugin.frame < MaxFrames /\ plugin' = [frame |-> plugin.frame + 1, piece |-> 1]
    /\ wire' = Append(wire, <<plugin'.frame, plugin'.piece>>)
    /\ UNCHANGED <<peer, connections, buffer, reading, stage, packet, expired, read>>

PeerLeaves(how) ==
    /\ peer = "open" /\ peer' = how
    /\ wire' = IF how = "reset" THEN <<>> ELSE wire
    /\ UNCHANGED <<plugin, connections, buffer, reading, stage, packet, expired, read>>

-----------------------------------------------------------------------------
(* close: the socket and the half-received packet go together.               *)
CloseKeepingBuffer == peer' = "none" /\ wire' = <<>> /\ UNCHANGED buffer \* faulty: not cleared
Close == peer' = "none" /\ wire' = <<>> /\ buffer' = <<>>

BeginRead(kind) ==
    /\ reading = "idle" /\ reading' = kind /\ stage' = "receive" /\ expired' = FALSE
    /\ UNCHANGED <<plugin, wire, peer, connections, buffer, packet, read>>

(* connect: the plugin starts a new connection with a new packet.            *)
Connect ==
    /\ reading # "idle" /\ stage = "receive" /\ ~Connected
    /\ connections < MaxConnections
    /\ connections' = connections + 1 /\ peer' = "open" /\ wire' = <<>>
    /\ plugin' = [plugin EXCEPT !.piece = PacketSize]
    /\ UNCHANGED <<buffer, reading, stage, packet, expired, read>>

ConnectRefused ==
    /\ reading # "idle" /\ stage = "receive" /\ ~Connected
    /\ stage' = "failed"
    /\ UNCHANGED <<plugin, wire, peer, connections, buffer, reading, packet, expired, read>>

(* recv inside _receive_packet: never more than the packet still lacks.       *)
ReceivePieces ==
    /\ reading # "idle" /\ stage = "receive" /\ Connected /\ Len(buffer) < PacketSize
    /\ \E count \in 1 .. PacketSize - Len(buffer) :
         /\ count <= Len(wire)
         /\ buffer' = buffer \o SubSeq(wire, 1, count)
         /\ wire' = SubSeq(wire, count + 1, Len(wire))
    /\ UNCHANGED <<plugin, peer, connections, reading, stage, packet, expired, read>>

ReceiveFails ==
    /\ reading # "idle" /\ stage = "receive" /\ Len(buffer) < PacketSize
    /\ wire = <<>> /\ peer \in {"eof", "reset"}
    /\ Close /\ stage' = "failed"
    /\ UNCHANGED <<plugin, connections, reading, packet, expired, read>>

(* The read gives up: TimeoutError at once, ConnectionError after the deadline. *)
Raised(how) ==
    /\ reading' = "idle" /\ stage' = "receive"
    /\ read' = [how |-> how, frame |-> 0, pieces |-> <<>>, skipped |-> 0, connection |-> 0]
    /\ Close
    /\ UNCHANGED <<plugin, connections, packet, expired>>
ReceiveTimesOut ==
    /\ reading # "idle" /\ stage = "receive" /\ Connected
    /\ Len(buffer) < PacketSize /\ wire = <<>> /\ peer = "open"
    /\ Raised("timeout")
ConnectTimesOut ==
    reading # "idle" /\ stage = "receive" /\ ~Connected /\ Raised("timeout")
Retry ==
    /\ stage = "failed" /\ ~expired /\ stage' = "receive" /\ Close
    /\ UNCHANGED <<plugin, connections, reading, packet, expired, read>>
GiveUp == stage = "failed" /\ expired /\ Raised("disconnected")
DeadlinePasses ==
    /\ reading # "idle" /\ ~expired /\ expired' = TRUE
    /\ UNCHANGED <<plugin, wire, peer, connections, buffer, reading, stage, packet, read>>

(* A frame for the caller.                                                   *)
Returned(pieces, skipped) ==
    read' = [how |-> reading, frame |-> pieces[1][1], pieces |-> pieces,
             skipped |-> skipped, connection |-> connections]

TakePacket ==
    /\ reading # "idle" /\ stage = "receive" /\ Len(buffer) >= PacketSize
    /\ buffer' = Rest(buffer)
    /\ IF reading = "next"
         THEN reading' = "idle" /\ Returned(Take(buffer), 0) /\ UNCHANGED <<stage, packet>>
         ELSE stage' = "drain" /\ packet' = Take(buffer) /\ UNCHANGED <<reading, read>>
    /\ UNCHANGED <<plugin, wire, peer, connections, expired>>

(* Drain what has arrived and return the newest whole packet; a peer that has
   left is closed afterwards, the bytes behind the last packet with it.       *)
NewestPacket(pieces) ==
    IF Whole(pieces) = 0 THEN packet
    ELSE SubSeq(pieces, (Whole(pieces) - 1) * PacketSize + 1, Whole(pieces) * PacketSize)
DrainQueue ==
    LET pieces == buffer \o wire IN
    /\ stage = "drain" /\ peer \in {"open", "eof"}
    /\ reading' = "idle" /\ stage' = "receive"
    /\ Returned(NewestPacket(pieces), Whole(pieces))
    /\ IF peer = "eof" THEN Close
       ELSE /\ buffer' = SubSeq(pieces, Whole(pieces) * PacketSize + 1, Len(pieces))
            /\ wire' = <<>> /\ UNCHANGED peer
    /\ UNCHANGED <<plugin, connections, packet, expired>>
DrainFails ==
    /\ stage = "drain" /\ peer = "reset"
    /\ Close /\ stage' = "failed"
    /\ UNCHANGED <<plugin, connections, reading, packet, expired, read>>

ClientStep ==
    \/ Connect \/ ConnectRefused \/ ReceivePieces \/ ReceiveFails \/ ReceiveTimesOut
    \/ ConnectTimesOut \/ Retry \/ GiveUp \/ TakePacket \/ DrainQueue \/ DrainFails

TelemetryNext ==
    \/ SendPiece \/ \E how \in {"eof", "reset"} : PeerLeaves(how)
    \/ \E kind \in {"latest", "next"} : BeginRead(kind)
    \/ ClientStep \/ DeadlinePasses

TelemetrySpec == TelemetryInit /\ [][TelemetryNext]_telemetryVars

(* The client's thread runs and its clock advances; the plugin owes nothing. *)
TelemetryFairness == WF_telemetryVars(ClientStep) /\ WF_telemetryVars(DeadlinePasses)

-----------------------------------------------------------------------------
TelemetryTypeOK ==
    /\ plugin \in [frame : Nat, piece : 1 .. PacketSize]
    /\ wire \in Seq(Nat \X (1 .. PacketSize)) /\ buffer \in Seq(Nat \X (1 .. PacketSize))
    /\ peer \in {"none", "open", "eof", "reset"} /\ connections \in 0 .. MaxConnections
    /\ reading \in {"idle", "latest", "next"} /\ stage \in {"receive", "drain", "failed"}
    /\ expired \in BOOLEAN

Gave == read.how \in {"latest", "next"}

(* A frame is one packet the plugin sent, never the end of one and the start
   of another, whatever was lost when a connection ended in between.          *)
FrameIsWhole == read.pieces = [i \in 1 .. PacketSize |-> <<read.frame, i>>]

(* Nothing is read twice or out of order, and inside a connection every frame
   that was not returned was counted as skipped.                             *)
FramesAreAccounted ==
    [][ (read' # read /\ Gave') =>
          /\ FrameIsWhole'
          /\ Gave => read'.frame > read.frame
          /\ Gave /\ read'.connection = read.connection =>
               read'.skipped = read'.frame - read.frame - 1 ]_telemetryVars

(* A read ends, with a frame or an error, however often the plugin goes away. *)
ReadsEnd == reading # "idle" ~> reading = "idle"

(* What a read gives is true, and it gives something.                        *)
ReadsAreAnswered == FramesAreAccounted /\ ReadsEnd

=============================================================================
