----------------------------- MODULE AsioServer -----------------------------
(***************************************************************************)
(* The file connections, byte by byte.  A message is its type, its size    *)
(* and its body, sent one after the other with asio::write; the peer takes *)
(* type and size with one receive each and the body with asio::read.  One  *)
(* thread of the server takes the connections in turn and blocks in every  *)
(* receive and write.  A call that fails throws: on a client sendUpdate    *)
(* catches it and the round is over, on the server nobody does and the     *)
(* process ends.  A byte stands for any number of bytes that always travel *)
(* together.                                                               *)
(***************************************************************************)
EXTENDS Integers, Sequences

CONSTANTS
  Clients,
  SizeBytes,  \* bytes of messageSize, 8 in the code
  Body,       \* Body[kind]: bytes of a serialised message of that type
  Window,     \* bytes a socket holds before its writer blocks
  MaxConns,   \* connections the listening socket holds
  Pieces,     \* TRUE if messageSize may be sent or received in pieces
  Garbage     \* what messageSize may hold when only a piece was received

Kinds == {"File", "FileMetadata"}

ASSUME AsioAssumption ==
  /\ "nobody" \notin Clients
  /\ SizeBytes \in Nat \ {0}
  /\ Body \in [Kinds -> Nat]
  /\ Window \in Nat /\ Window >= SizeBytes
  /\ MaxConns \in Nat \ {0}
  /\ Pieces \in BOOLEAN
  /\ Garbage \subseteq Nat

VARIABLES
  up,      \* the server process runs
  conns,   \* the connections the server has not closed, in order
  server,  \* the asio thread
  client,  \* client[c]: the client's thread, in uploadFile or downloadFile
  reply,   \* reply[c]: the answer that c receives
  cut      \* cut[c]: the server is gone from the other end of c's connection

vars == <<up, conns, server, client, reply, cut>>

\* Where a thread is in sendProto or receiveProtoMessage; left counts the bytes
\* of the body still to read; whole is FALSE if messageSize came in pieces.
Receiving == {"type", "size", "body"}
Threads == [pc : {"idle", "send"} \cup Receiving, left : Nat, whole : BOOLEAN]
Idle == [pc |-> "idle", left |-> 0, whole |-> TRUE]
At(pc) == [Idle EXCEPT !.pc = pc]

\* One direction of a connection: bytes written and bytes received.
Streams == [sent : Nat, got : Nat]
NoBytes == [sent |-> 0, got |-> 0]

\* end is what the client has done with the socket.
Conns == [client : Clients, kind : Kinds, sent : Nat, got : Nat,
          end : {"open", "closed", "stopped"}]

Length(kind) == 1 + SizeBytes + Body[kind]

TypeOK ==
  /\ up \in BOOLEAN
  /\ conns \in Seq(Conns)
  /\ server \in Threads
  /\ client \in [Clients -> Threads]
  /\ reply \in [Clients -> Streams]
  /\ cut \in [Clients -> BOOLEAN]

Init ==
  /\ up = TRUE
  /\ conns = <<>>
  /\ server = Idle
  /\ client = [c \in Clients |-> Idle]
  /\ reply = [c \in Clients |-> NoBytes]
  /\ cut = [c \in Clients |-> FALSE]

-----------------------------------------------------------------------------
(***************************************************************************)
(* asioNetworking.hpp over the calls of asio that it makes.                *)
(***************************************************************************)
\* asio::write calls write_some until all is written; each call takes what
\* fits in the socket.
MayWrite(s, kind, n) ==
  /\ n >= 1
  /\ s.sent + n <= Length(kind)
  /\ s.sent + n <= s.got + Window
  /\ Pieces \/ s.sent + n \notin 2 .. SizeBytes

\* Mutant: asio::read returns after its first read_some.
ReceivedSome(t, kind, n) ==
  CASE t.pc = "type" /\ n = 1 -> {At("size")}
    [] t.pc = "size" /\ n = SizeBytes -> {[At("body") EXCEPT !.left = Body[kind]]}
    [] t.pc = "body" /\ n <= t.left -> {[t EXCEPT !.left = 0]}
    [] OTHER -> {}

\* Mutant: the size is taken to count the header.
ReceivedHeaderToo(t, kind, n) ==
  CASE t.pc = "type" /\ n = 1 -> {At("size")}
    [] t.pc = "size" /\ n = SizeBytes -> {[At("body") EXCEPT !.left = Body[kind] - 1 - SizeBytes]}
    [] t.pc = "body" /\ n <= t.left -> {[t EXCEPT !.left = @ - n]}
    [] OTHER -> {}

\* Mutant: the body is taken to be as long as the message.
ReceivedTooLong(t, kind, n) ==
  CASE t.pc = "type" /\ n = 1 -> {At("size")}
    [] t.pc = "size" /\ n = SizeBytes -> {[At("body") EXCEPT !.left = Length(kind)]}
    [] t.pc = "body" /\ n <= t.left -> {[t EXCEPT !.left = @ - n]}
    [] OTHER -> {}

\* What a thread may be after it has received n bytes: a receive returns what
\* is there, up to what was asked for, and asio::read asks again.
Received(t, kind, n) ==
  CASE t.pc = "type" /\ n = 1 -> {At("size")}
    [] t.pc = "size" /\ n = SizeBytes -> {[At("body") EXCEPT !.left = Body[kind]]}
    [] t.pc = "size" /\ n < SizeBytes /\ Pieces ->
         {[pc |-> "body", left |-> size, whole |-> FALSE] : size \in Garbage}
    [] t.pc = "body" /\ n <= t.left -> {[t EXCEPT !.left = @ - n]}
    [] OTHER -> {}

HasMessage(t) == t.pc = "body" /\ t.left = 0

Ready(s) == 1 .. s.sent - s.got

\* The peer has closed and there is nothing left to receive.
EndOfFile(t, s) == t.pc \in Receiving /\ ~ HasMessage(t) /\ s.sent = s.got

-----------------------------------------------------------------------------
(***************************************************************************)
(* uploadFile (kind "File") and downloadFile (kind "FileMetadata").        *)
(***************************************************************************)
Connect(c, kind) ==
  /\ client[c] = Idle
  /\ up
  /\ Len(conns) < MaxConns
  /\ conns' = Append(conns, [client |-> c, kind |-> kind, sent |-> 0, got |-> 0, end |-> "open"])
  /\ client' = [client EXCEPT ![c] = At("send")]
  /\ reply' = [reply EXCEPT ![c] = NoBytes]
  /\ cut' = [cut EXCEPT ![c] = FALSE]
  /\ UNCHANGED <<up, server>>

Mine(c, i) == conns[i].client = c /\ conns[i].end = "open"

\* Mutant: downloadFile closes the socket before the answer.
ClientWriteAndClose(c) ==
  \E i \in 1 .. Len(conns), n \in 1 .. Window :
    /\ client[c].pc = "send"
    /\ Mine(c, i)
    /\ MayWrite(conns[i], conns[i].kind, n)
    /\ LET all == conns[i].sent + n = Length(conns[i].kind)
       IN  /\ conns' = [conns EXCEPT ![i].sent = @ + n, ![i].end = IF all THEN "closed" ELSE @]
           /\ client' = [client EXCEPT ![c] = IF all THEN Idle ELSE @]
    /\ UNCHANGED <<up, server, reply, cut>>

\* After its last byte uploadFile closes the socket and is done, downloadFile
\* waits for the answer.
ClientWrite(c) ==
  \E i \in 1 .. Len(conns), n \in 1 .. Window :
    /\ client[c].pc = "send"
    /\ Mine(c, i)
    /\ MayWrite(conns[i], conns[i].kind, n)
    /\ LET all == conns[i].sent + n = Length(conns[i].kind)
           upload == conns[i].kind = "File"
       IN  /\ conns' = [conns EXCEPT ![i].sent = @ + n,
                                     ![i].end = IF all /\ upload THEN "closed" ELSE @]
           /\ client' = [client EXCEPT ![c] = IF ~ all THEN @
                                              ELSE IF upload THEN Idle ELSE At("type")]
    /\ UNCHANGED <<up, server, reply, cut>>

ClientReceive(c) ==
  \E n \in Ready(reply[c]) : \E t \in Received(client[c], "File", n) :
    /\ client' = [client EXCEPT ![c] = t]
    /\ reply' = [reply EXCEPT ![c].got = @ + n]
    /\ UNCHANGED <<up, conns, server, cut>>

\* c's end of its connection, if the server has not closed it yet, is left.
Leave(c, how) ==
  conns' = [i \in 1 .. Len(conns) |-> IF Mine(c, i) THEN [conns[i] EXCEPT !.end = how] ELSE conns[i]]

\* The file is written and the socket closed.
ClientDone(c) ==
  /\ HasMessage(client[c])
  /\ Leave(c, "closed")
  /\ client' = [client EXCEPT ![c] = Idle]
  /\ UNCHANGED <<up, server, reply, cut>>

\* Mutant: the end of the answer is not noticed.
ClientThrowsInWrite(c) ==
  /\ cut[c]
  /\ client[c].pc = "send"
  /\ client' = [client EXCEPT ![c] = Idle]
  /\ UNCHANGED <<up, conns, server, reply, cut>>

\* write or receive throws; sendUpdate catches it.
ClientThrows(c) ==
  /\ cut[c]
  /\ client[c].pc = "send" \/ EndOfFile(client[c], reply[c])
  /\ client' = [client EXCEPT ![c] = Idle]
  /\ UNCHANGED <<up, conns, server, reply, cut>>

\* The client's process is stopped, and perhaps started again.
ClientStop(c) ==
  /\ client[c] # Idle
  /\ Leave(c, "stopped")
  /\ client' = [client EXCEPT ![c] = Idle]
  /\ UNCHANGED <<up, server, reply, cut>>

-----------------------------------------------------------------------------
(***************************************************************************)
(* Server::startAsioServer.                                                *)
(***************************************************************************)
Peer == Head(conns)

Accept ==
  /\ up
  /\ server.pc = "idle"
  /\ conns # <<>>
  /\ server' = At("type")
  /\ UNCHANGED <<up, conns, client, reply, cut>>

ServerReceive ==
  /\ server.pc \in Receiving
  /\ \E n \in Ready(Peer) : \E t \in Received(server, Peer.kind, n) :
       /\ server' = t
       /\ conns' = [conns EXCEPT ![1].got = @ + n]
  /\ UNCHANGED <<up, client, reply, cut>>

\* The server closes the socket: a client that still waits finds the end of
\* what it was sent.
ServerClose ==
  /\ conns' = Tail(conns)
  /\ server' = Idle
  /\ cut' = [c \in Clients |-> IF Mine(c, 1) THEN TRUE ELSE cut[c]]

\* An upload is written to the tree and the disk.
ServeFile ==
  /\ HasMessage(server)
  /\ Peer.kind = "File"
  /\ ServerClose
  /\ UNCHANGED <<up, client, reply>>

\* Mutant: a request is not answered.
DropRequest ==
  /\ HasMessage(server)
  /\ Peer.kind = "FileMetadata"
  /\ ServerClose
  /\ UNCHANGED <<up, client, reply>>

ServeRequest ==
  /\ HasMessage(server)
  /\ Peer.kind = "FileMetadata"
  /\ server' = At("send")
  /\ UNCHANGED <<up, conns, client, reply, cut>>

\* The answer to a client that has stopped may still be accepted by the socket.
ServerWrite ==
  /\ server.pc = "send"
  /\ Peer.end = "open"
  /\ \E n \in 1 .. Window :
       /\ MayWrite(reply[Peer.client], "File", n)
       /\ reply' = [reply EXCEPT ![Peer.client].sent = @ + n]
       /\ IF reply[Peer.client].sent + n = Length("File")
          THEN ServerClose
          ELSE UNCHANGED <<conns, server, cut>>
  /\ UNCHANGED <<up, client>>

ServerWriteUnread ==
  /\ server.pc = "send"
  /\ Peer.end # "open"
  /\ ServerClose
  /\ UNCHANGED <<up, client, reply>>

\* receive, read, prepare or write throws on the asio thread: std::terminate.
ServerDies ==
  /\ \/ EndOfFile(server, Peer) /\ Peer.end # "open"
     \/ server.pc = "body" /\ ~ server.whole
     \/ server.pc = "send" /\ Peer.end # "open"
  /\ up' = FALSE
  /\ conns' = <<>>
  /\ server' = Idle
  /\ cut' = [c \in Clients |-> TRUE]
  /\ UNCHANGED <<client, reply>>

ServerStart ==
  /\ ~ up
  /\ up' = TRUE
  /\ UNCHANGED <<conns, server, client, reply, cut>>

-----------------------------------------------------------------------------
ClientStep(c) == ClientWrite(c) \/ ClientReceive(c) \/ ClientDone(c) \/ ClientThrows(c)

ServerStep ==
  \/ Accept
  \/ ServerReceive
  \/ ServeFile
  \/ ServeRequest
  \/ ServerWrite
  \/ ServerWriteUnread
  \/ ServerDies

Next ==
  \/ \E c \in Clients :
       \/ \E kind \in Kinds : Connect(c, kind)
       \/ ClientStep(c)
       \/ ClientStop(c)
  \/ ServerStep
  \/ ServerStart

Spec == Init /\ [][Next]_vars

\* Processes that are not stopped go on with what they have begun; clients need
\* not begin a transfer and a server that is gone need not be started.
FairSpec ==
  /\ Spec
  /\ \A c \in Clients : WF_vars(ClientStep(c))
  /\ WF_vars(ServerStep)

-----------------------------------------------------------------------------
(***************************************************************************)
(* Properties.                                                             *)
(***************************************************************************)
\* "A slim header is perpended to Protobuf messages to determine their length"
\* (documentation.tex:202): a receiver goes on to parse a message when it has
\* taken every byte of it and none besides.
MessagesWhole ==
  /\ HasMessage(server) => Peer.got = Length(Peer.kind)
  /\ \A c \in Clients : HasMessage(client[c]) => reply[c].got = Length("File")

\* The asio thread ends, and the server with it, only over a client that was
\* stopped inside a transfer or a size that came in pieces: never because a
\* client closed its socket before the server was done with the connection.
ThreadOutlivesClients ==
  [][up /\ ~ up' => Peer.end = "stopped" \/ ~ server.whole]_vars

\* The two ends of a connection never block each other, though both write into
\* sockets that hold less than a file and read only when they have written: a
\* thread can go on unless it waits for bytes that are not there or for room
\* that is not there, and one of the two always can.  And a client that is
\* still in a transfer has a connection that will be served or is told that
\* the server is gone.
GoesOn(t, kind, in, answer, out) ==
  \/ HasMessage(t)
  \/ \E n \in Ready(in) : Received(t, kind, n) # {}
  \/ t.pc = "send" /\ \E n \in 1 .. Window : MayWrite(out, answer, n)

NeverBothBlocked ==
  /\ server.pc # "idle" /\ Peer.end = "open" =>
       LET c == Peer.client
       IN  \/ GoesOn(server, Peer.kind, Peer, "File", reply[c])
           \/ GoesOn(client[c], "File", reply[c], Peer.kind, Peer)
  /\ \A c \in Clients :
       client[c].pc # "idle" => cut[c] \/ \E i \in 1 .. Len(conns) : Mine(c, i)

\* Nobody waits for ever, though one slow transfer holds up all the others and
\* both ends block in their writes: every transfer ends, also when clients are
\* stopped in the middle or the server ends.
TransfersEnd == \A c \in Clients : []<>(client[c] = Idle)

\* All of this together serves whole messages in order, one answer a request.
Queue == INSTANCE FileQueue WITH
  None <- "nobody",
  queue <- [i \in 1 .. Len(conns) |->
              IF conns[i].kind = "FileMetadata" /\ conns[i].end = "open"
              THEN conns[i].client ELSE "nobody"],
  answered <- {c \in Clients : client[c].pc \in Receiving /\ reply[c].sent = Length("File")}
QueueKept == Queue!Spec

\* Its safety part, which needs no fairness.
QueueInOrder == Queue!Safety

=============================================================================
