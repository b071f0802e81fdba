------------------------- MODULE AsioServer_proofs -------------------------
(***************************************************************************)
(* Messages arrive whole, and the asio thread survives its clients, for    *)
(* any number of clients, any sizes of messages and any window.            *)
(***************************************************************************)
EXTENDS AsioServer, TLAPS

-----------------------------------------------------------------------------
(***************************************************************************)
(* Types.                                                                  *)
(***************************************************************************)
\* A thread that serves has a connection to serve.
Serving == server.pc # "idle" => Len(conns) >= 1

TypeInv == TypeOK /\ Serving

LEMMA IdleType ==
  /\ Idle \in Threads /\ Idle.pc = "idle"
  /\ \A pc \in Receiving \cup {"send"} : At(pc) \in Threads
BY DEF Idle, At, Threads, Receiving

LEMMA LengthType == \A kind \in Kinds : Length(kind) \in Nat /\ Length(kind) > 1
BY AsioAssumption DEF Length

LEMMA Updated ==
  ASSUME NEW S, NEW s \in Seq(S), NEW i \in 1 .. Len(s), NEW e \in S
  PROVE  /\ [s EXCEPT ![i] = e] \in Seq(S)
         /\ Len([s EXCEPT ![i] = e]) = Len(s)
         /\ \A j \in 1 .. Len(s) : [s EXCEPT ![i] = e][j] = IF j = i THEN e ELSE s[j]
OBVIOUS

LEMMA Appended ==
  ASSUME NEW S, NEW s \in Seq(S), NEW e \in S
  PROVE  /\ Append(s, e) \in Seq(S)
         /\ Len(s) \in Nat /\ Len(Append(s, e)) = Len(s) + 1
         /\ \A i \in 1 .. Len(s) : Append(s, e)[i] = s[i]
         /\ Append(s, e)[Len(s) + 1] = e
OBVIOUS

LEMMA Removed ==
  ASSUME NEW S, NEW s \in Seq(S), s # <<>>
  PROVE  /\ Tail(s) \in Seq(S) /\ Head(s) = s[1] /\ Head(s) \in S
         /\ Len(s) \in Nat /\ Len(s) >= 1 /\ Len(Tail(s)) = Len(s) - 1
         /\ \A i \in 1 .. Len(s) - 1 : Tail(s)[i] = s[i + 1]
OBVIOUS

LEMMA ConnFields ==
  ASSUME NEW m \in Conns
  PROVE  /\ \A n \in Nat : [m EXCEPT !.got = n] \in Conns
         /\ \A e \in {"open", "closed", "stopped"} : [m EXCEPT !.end = e] \in Conns
         /\ \A n \in Nat, e \in {"open", "closed", "stopped"} :
              [m EXCEPT !.sent = n, !.end = e] \in Conns
BY DEF Conns

LEMMA ConnTypes ==
  ASSUME TypeOK
  PROVE  /\ conns \in Seq(Conns) /\ Len(conns) \in Nat
         /\ \A i \in 1 .. Len(conns) :
              /\ conns[i] \in Conns /\ conns[i].client \in Clients /\ conns[i].kind \in Kinds
              /\ conns[i].sent \in Nat /\ conns[i].got \in Nat
<1>1. conns \in Seq(Conns) /\ Len(conns) \in Nat
  BY DEF TypeOK
<1>2. \A i \in 1 .. Len(conns) : conns[i] \in Conns
  BY <1>1
<1> QED
  BY <1>1, <1>2 DEF Conns

\* The five cases of Received.
LEMMA ReceivedCases ==
  ASSUME NEW t \in Threads, NEW kind \in Kinds, NEW n \in Nat, NEW u \in Received(t, kind, n)
  PROVE  \/ t.pc = "type" /\ n = 1 /\ u = At("size")
         \/ t.pc = "size" /\ n = SizeBytes /\ u = [At("body") EXCEPT !.left = Body[kind]]
         \/ /\ t.pc = "size" /\ Pieces
            /\ \E size \in Garbage : u = [pc |-> "body", left |-> size, whole |-> FALSE]
         \/ t.pc = "body" /\ n <= t.left /\ u = [t EXCEPT !.left = @ - n]
<1>1. CASE t.pc = "type"
  BY <1>1 DEF Received
<1>2. CASE t.pc = "size"
  BY <1>2 DEF Received
<1>3. CASE t.pc = "body"
  BY <1>3 DEF Received
<1>4. CASE t.pc \notin Receiving
  BY <1>4 DEF Received, Receiving
<1> QED
  BY <1>1, <1>2, <1>3, <1>4 DEF Receiving

LEMMA ReceivedType ==
  ASSUME NEW t \in Threads, NEW kind \in Kinds, NEW n \in Nat, NEW u \in Received(t, kind, n)
  PROVE  u \in Threads /\ u.pc \in Receiving /\ t.pc \in Receiving
<1>1. CASE t.pc = "type" /\ u = At("size")
  BY <1>1, IdleType DEF Receiving, At, Idle
<1>2. CASE t.pc = "size" /\ u = [At("body") EXCEPT !.left = Body[kind]]
  <2>1. u = [pc |-> "body", left |-> Body[kind], whole |-> TRUE]
    BY <1>2 DEF At, Idle
  <2>2. Body[kind] \in Nat
    BY AsioAssumption
  <2>3. u \in Threads
    BY <2>1, <2>2 DEF Threads, Receiving
  <2>4. u.pc = "body"
    BY <2>1
  <2> QED
    BY <1>2, <2>3, <2>4 DEF Receiving
<1>3. CASE t.pc = "size" /\ \E size \in Garbage : u = [pc |-> "body", left |-> size, whole |-> FALSE]
  <2>1. PICK size \in Garbage : u = [pc |-> "body", left |-> size, whole |-> FALSE]
    BY <1>3
  <2> QED
    BY <1>3, <2>1, AsioAssumption DEF Threads, Receiving
<1>4. CASE t.pc = "body" /\ n <= t.left /\ u = [t EXCEPT !.left = @ - n]
  BY <1>4 DEF Threads, Receiving
<1> QED
  BY <1>1, <1>2, <1>3, <1>4, ReceivedCases

\* The connection that serves a step of c's client.
LEMMA LeaveEffect ==
  ASSUME TypeOK, NEW c \in Clients, NEW how \in {"closed", "stopped"}, Leave(c, how)
  PROVE  /\ conns' \in Seq(Conns) /\ Len(conns') = Len(conns) /\ Len(conns) \in Nat
         /\ \A i \in 1 .. Len(conns) :
              conns'[i] = IF Mine(c, i) THEN [conns[i] EXCEPT !.end = how] ELSE conns[i]
<1>1. Len(conns) \in Nat /\ \A i \in 1 .. Len(conns) : conns[i] \in Conns
  BY DEF TypeOK
<1>2. conns' = [i \in 1 .. Len(conns) |-> IF Mine(c, i) THEN [conns[i] EXCEPT !.end = how] ELSE conns[i]]
  BY DEF Leave
<1>3. conns' \in [1 .. Len(conns) -> Conns]
  BY <1>1, <1>2, ConnFields
<1> QED
  BY <1>1, <1>2, <1>3

\* ClientWrite sends n bytes on c's open connection; an upload closes it after
\* the last of them.
LEMMA WriteEffect ==
  ASSUME TypeOK, NEW c \in Clients, NEW i \in 1 .. Len(conns), NEW n \in Nat,
         NEW e \in {"open", "closed"},
         conns' = [conns EXCEPT ![i].sent = @ + n, ![i].end = e]
  PROVE  /\ conns' \in Seq(Conns) /\ Len(conns') = Len(conns) /\ Len(conns) \in Nat
         /\ \A j \in 1 .. Len(conns) :
              conns'[j] = IF j = i THEN [conns[i] EXCEPT !.sent = conns[i].sent + n, !.end = e]
                          ELSE conns[j]
<1> DEFINE m == [conns[i] EXCEPT !.sent = conns[i].sent + n, !.end = e]
<1>1. conns \in Seq(Conns) /\ conns[i] \in Conns /\ Len(conns) \in Nat
  BY DEF TypeOK
<1>2. m \in Conns
  <2>1. conns[i].sent + n \in Nat
    BY <1>1 DEF Conns
  <2> QED
    BY <1>1, <2>1, ConnFields
<1>3. conns' = [conns EXCEPT ![i] = m]
  BY <1>1 DEF Conns
<1> HIDE DEF m
<1>4. /\ [conns EXCEPT ![i] = m] \in Seq(Conns)
      /\ Len([conns EXCEPT ![i] = m]) = Len(conns)
      /\ \A j \in 1 .. Len(conns) : [conns EXCEPT ![i] = m][j] = IF j = i THEN m ELSE conns[j]
  BY <1>1, <1>2, Updated
<1> QED
  BY <1>1, <1>3, <1>4 DEF m

LEMMA GotEffect ==
  ASSUME TypeOK, Len(conns) >= 1, NEW n \in Nat, conns' = [conns EXCEPT ![1].got = @ + n]
  PROVE  /\ conns' \in Seq(Conns) /\ Len(conns') = Len(conns) /\ Len(conns) \in Nat
         /\ \A j \in 1 .. Len(conns) :
              conns'[j] = IF j = 1 THEN [conns[1] EXCEPT !.got = conns[1].got + n] ELSE conns[j]
<1> DEFINE m == [conns[1] EXCEPT !.got = conns[1].got + n]
<1>1. conns \in Seq(Conns) /\ conns[1] \in Conns /\ Len(conns) \in Nat /\ 1 \in 1 .. Len(conns)
  BY DEF TypeOK
<1>2. m \in Conns
  <2>1. conns[1].got + n \in Nat
    BY <1>1 DEF Conns
  <2> QED
    BY <1>1, <2>1, ConnFields
<1>3. conns' = [conns EXCEPT ![1] = m]
  BY <1>1 DEF Conns
<1> HIDE DEF m
<1>4. /\ [conns EXCEPT ![1] = m] \in Seq(Conns)
      /\ Len([conns EXCEPT ![1] = m]) = Len(conns)
      /\ \A j \in 1 .. Len(conns) : [conns EXCEPT ![1] = m][j] = IF j = 1 THEN m ELSE conns[j]
  BY <1>1, <1>2, Updated
<1> QED
  BY <1>1, <1>3, <1>4 DEF m

\* The first connection goes and the others move up.
LEMMA CloseEffect ==
  ASSUME TypeOK, Len(conns) >= 1, ServerClose
  PROVE  /\ conns' \in Seq(Conns) /\ Len(conns) \in Nat /\ Len(conns') = Len(conns) - 1
         /\ \A i \in 1 .. Len(conns') : i + 1 \in 1 .. Len(conns) /\ conns'[i] = conns[i + 1]
         /\ server' = Idle
         /\ cut' \in [Clients -> BOOLEAN]
         /\ \A c \in Clients : cut'[c] <=> cut[c] \/ Mine(c, 1)
<1>1. conns \in Seq(Conns) /\ conns # <<>>
  BY DEF TypeOK
<1>2. /\ conns' \in Seq(Conns) /\ Len(conns) \in Nat /\ Len(conns') = Len(conns) - 1
      /\ \A i \in 1 .. Len(conns) - 1 : conns'[i] = conns[i + 1]
  BY <1>1, Removed DEF ServerClose
<1>3. cut' = [c \in Clients |-> IF Mine(c, 1) THEN TRUE ELSE cut[c]]
  BY DEF ServerClose
<1>4. cut' \in [Clients -> BOOLEAN] /\ \A c \in Clients : cut'[c] <=> cut[c] \/ Mine(c, 1)
  BY <1>3 DEF TypeOK
<1>5. \A i \in 1 .. Len(conns') : i + 1 \in 1 .. Len(conns) /\ conns'[i] = conns[i + 1]
  BY <1>2
<1>6. server' = Idle
  BY DEF ServerClose
<1> QED
  BY <1>2, <1>4, <1>5, <1>6

LEMMA PeerIsFirst ==
  ASSUME TypeInv, server.pc # "idle"
  PROVE  Peer = conns[1] /\ Peer \in Conns /\ Peer.client \in Clients /\ Peer.kind \in Kinds
<1>1. conns \in Seq(Conns) /\ conns # <<>>
  BY DEF TypeInv, TypeOK, Serving
<1>2. Peer = conns[1] /\ Peer \in Conns
  BY <1>1, Removed DEF Peer
<1> QED
  BY <1>2 DEF Conns

LEMMA TypeStep == TypeInv /\ [Next]_vars => TypeInv'
<1> SUFFICES ASSUME TypeInv, [Next]_vars PROVE TypeInv'
  OBVIOUS
<1> USE DEF TypeInv
<1>1. ASSUME NEW c \in Clients, NEW kind \in Kinds, Connect(c, kind) PROVE TypeInv'
  <2> DEFINE m == [client |-> c, kind |-> kind, sent |-> 0, got |-> 0, end |-> "open"]
  <2>1. m \in Conns /\ NoBytes \in Streams
    BY DEF Conns, NoBytes, Streams
  <2>2. conns' = Append(conns, m) /\ UNCHANGED <<up, server>>
    BY <1>1 DEF Connect
  <2> HIDE DEF m
  <2>3. conns' \in Seq(Conns) /\ Len(conns) \in Nat /\ Len(conns') = Len(conns) + 1
    BY <2>1, <2>2, Appended DEF TypeOK
  <2> QED
    BY <1>1, <2>1, <2>2, <2>3, IdleType DEF Connect, TypeOK, Serving
<1>2. ASSUME NEW c \in Clients, ClientWrite(c) PROVE TypeInv'
  <2>1. PICK i \in 1 .. Len(conns), n \in 1 .. Window :
          LET all == conns[i].sent + n = Length(conns[i].kind)
              upload == conns[i].kind = "File"
          IN  /\ conns' = [conns EXCEPT ![i].sent = @ + n,
                                        ![i].end = IF all /\ upload THEN "closed" ELSE @]
              /\ client' = [client EXCEPT ![c] = IF ~ all THEN @
                                                 ELSE IF upload THEN Idle ELSE At("type")]
              /\ Mine(c, i)
    BY <1>2 DEF ClientWrite
  <2>2. PICK e \in {"open", "closed"} : conns' = [conns EXCEPT ![i].sent = @ + n, ![i].end = e]
    BY <2>1 DEF Mine
  <2>3. conns' \in Seq(Conns) /\ Len(conns') = Len(conns)
    <3>1. n \in Nat
      BY AsioAssumption
    <3> QED
      BY <2>2, <3>1, WriteEffect
  <2>4. client' \in [Clients -> Threads]
    BY <2>1, IdleType DEF TypeOK, Receiving
  <2> QED
    BY <1>2, <2>3, <2>4 DEF ClientWrite, TypeOK, Serving
<1>3. ASSUME NEW c \in Clients, ClientReceive(c) PROVE TypeInv'
  <2>1. PICK n \in Ready(reply[c]) : \E t \in Received(client[c], "File", n) :
          client' = [client EXCEPT ![c] = t] /\ reply' = [reply EXCEPT ![c].got = @ + n]
    BY <1>3 DEF ClientReceive
  <2>2. n \in Nat /\ reply[c] \in Streams /\ client[c] \in Threads
    BY DEF Ready, TypeOK, Streams
  <2>3. client' \in [Clients -> Threads]
    BY <2>1, <2>2, ReceivedType DEF TypeOK, Kinds
  <2>4. reply' \in [Clients -> Streams]
    BY <2>1, <2>2 DEF TypeOK, Streams
  <2> QED
    BY <1>3, <2>3, <2>4 DEF ClientReceive, TypeOK, Serving
<1>4. ASSUME NEW c \in Clients, ClientDone(c) \/ ClientStop(c) PROVE TypeInv'
  <2>1. /\ Leave(c, "closed") \/ Leave(c, "stopped")
        /\ client' = [client EXCEPT ![c] = Idle]
        /\ UNCHANGED <<up, server, reply, cut>>
    BY <1>4 DEF ClientDone, ClientStop
  <2>2. conns' \in Seq(Conns) /\ Len(conns') = Len(conns)
    BY <2>1, LeaveEffect
  <2> QED
    BY <2>1, <2>2, IdleType DEF TypeOK, Serving
<1>5. ASSUME NEW c \in Clients, ClientThrows(c) PROVE TypeInv'
  BY <1>5, IdleType DEF ClientThrows, TypeOK, Serving
<1>6. CASE Accept
  <2>1. Len(conns) >= 1
    BY <1>6 DEF Accept, TypeOK
  <2> QED
    BY <1>6, <2>1, IdleType DEF Accept, TypeOK, Serving, Receiving
<1>7. CASE ServerReceive
  <2>1. PICK n \in Ready(Peer) :
          server' \in Received(server, Peer.kind, n) /\ conns' = [conns EXCEPT ![1].got = @ + n]
    BY <1>7 DEF ServerReceive
  <2>2. server.pc # "idle"
    BY <1>7 DEF ServerReceive, Receiving
  <2>3. n \in Nat
    BY <2>2, PeerIsFirst DEF Ready, Conns
  <2>4. conns' \in Seq(Conns) /\ Len(conns') = Len(conns)
    BY <2>1, <2>2, <2>3, GotEffect DEF Serving
  <2>5. server' \in Threads
    BY <2>1, <2>2, <2>3, PeerIsFirst, ReceivedType DEF TypeOK
  <2> QED
    BY <1>7, <2>2, <2>4, <2>5 DEF ServerReceive, TypeOK, Serving
<1>8. CASE ServeFile \/ ServerWriteUnread
  <2>1. ServerClose /\ server.pc # "idle" /\ UNCHANGED <<up, client, reply>>
    BY <1>8 DEF ServeFile, ServerWriteUnread, HasMessage
  <2>2. conns' \in Seq(Conns) /\ server' = Idle /\ cut' \in [Clients -> BOOLEAN]
    BY <2>1, CloseEffect DEF Serving
  <2> QED
    BY <2>1, <2>2, IdleType DEF TypeOK, Serving
<1>9. CASE ServeRequest
  BY <1>9, IdleType DEF ServeRequest, HasMessage, TypeOK, Serving
<1>10. CASE ServerWrite
  <2>1. PICK n \in 1 .. Window :
          /\ reply' = [reply EXCEPT ![Peer.client].sent = @ + n]
          /\ ServerClose \/ UNCHANGED <<conns, server, cut>>
    BY <1>10 DEF ServerWrite
  <2>2. server.pc # "idle" /\ UNCHANGED <<up, client>>
    BY <1>10 DEF ServerWrite
  <2>3. reply' \in [Clients -> Streams]
    <3>1. n \in Nat /\ Peer.client \in Clients
      BY <2>2, PeerIsFirst, AsioAssumption
    <3>2. reply[Peer.client] \in Streams
      BY <3>1 DEF TypeOK
    <3>3. [reply[Peer.client] EXCEPT !.sent = @ + n] \in Streams
      BY <3>1, <3>2 DEF Streams
    <3>4. reply' = [reply EXCEPT ![Peer.client] = [reply[Peer.client] EXCEPT !.sent = @ + n]]
      BY <2>1
    <3> QED
      BY <3>3, <3>4 DEF TypeOK
  <2>4. CASE ServerClose
    <3>1. conns' \in Seq(Conns) /\ server' = Idle /\ cut' \in [Clients -> BOOLEAN]
      BY <2>2, <2>4, CloseEffect DEF Serving
    <3> QED
      BY <2>2, <2>3, <3>1, IdleType DEF TypeOK, Serving
  <2>5. CASE UNCHANGED <<conns, server, cut>>
    BY <2>2, <2>3, <2>5 DEF TypeOK, Serving
  <2> QED
    BY <2>1, <2>4, <2>5
<1>11. CASE ServerDies
  <2>1. /\ up' = FALSE /\ conns' = <<>> /\ server' = Idle /\ UNCHANGED <<client, reply>>
        /\ cut' = [c \in Clients |-> TRUE]
    BY <1>11 DEF ServerDies
  <2>2. cut' \in [Clients -> BOOLEAN] /\ conns' \in Seq(Conns)
    BY <2>1
  <2> QED
    BY <2>1, <2>2, IdleType DEF TypeOK, Serving
<1>12. CASE ServerStart \/ UNCHANGED vars
  BY <1>12 DEF ServerStart, vars, TypeOK, Serving
<1> QED
  BY <1>1, <1>2, <1>3, <1>4, <1>5, <1>6, <1>7, <1>8, <1>9, <1>10, <1>11, <1>12
  DEF Next, ClientStep, ServerStep

\* Every variable of AsioServer keeps its type, with sizes in pieces or not.
THEOREM TypeCorrect == Spec => []TypeOK
<1>1. Init => TypeInv
  BY IdleType DEF Init, TypeInv, TypeOK, Serving, NoBytes, Streams, Idle
<1>2. TypeInv => TypeOK
  BY DEF TypeInv
<1> QED
  BY <1>1, <1>2, TypeStep, PTL DEF Spec

-----------------------------------------------------------------------------
(***************************************************************************)
(* What the steps that move bytes do.                                      *)
(***************************************************************************)
\* ClientWrite: c writes n bytes to connection i.
Writes(c, i, n) ==
  LET all == conns[i].sent + n = Length(conns[i].kind)
      upload == conns[i].kind = "File"
  IN  /\ client[c].pc = "send" /\ Mine(c, i) /\ MayWrite(conns[i], conns[i].kind, n)
      /\ Len(conns') = Len(conns) /\ Len(conns) \in Nat
      /\ \A j \in 1 .. Len(conns) :
           /\ conns'[j].kind = conns[j].kind /\ conns'[j].client = conns[j].client
           /\ conns'[j].got = conns[j].got
           /\ j # i => conns'[j] = conns[j]
      /\ conns'[i].sent = conns[i].sent + n
      /\ conns'[i].end = IF all /\ upload THEN "closed" ELSE "open"
      /\ client'[c] = IF ~ all THEN client[c] ELSE IF upload THEN Idle ELSE At("type")
      /\ \A b \in Clients : b # c => client'[b] = client[b]
      /\ UNCHANGED <<up, server, reply, cut>>

LEMMA ClientWrites ==
  ASSUME TypeInv, NEW c \in Clients, ClientWrite(c)
  PROVE  \E i \in 1 .. Len(conns), n \in 1 .. Window : Writes(c, i, n)
<1>1. PICK i \in 1 .. Len(conns), n \in 1 .. Window :
        LET all == conns[i].sent + n = Length(conns[i].kind)
            upload == conns[i].kind = "File"
        IN  /\ client[c].pc = "send" /\ Mine(c, i) /\ MayWrite(conns[i], conns[i].kind, n)
            /\ conns' = [conns EXCEPT ![i].sent = @ + n,
                                      ![i].end = IF all /\ upload THEN "closed" ELSE @]
            /\ client' = [client EXCEPT ![c] = IF ~ all THEN @
                                               ELSE IF upload THEN Idle ELSE At("type")]
            /\ UNCHANGED <<up, server, reply, cut>>
  BY DEF ClientWrite
<1> DEFINE all == conns[i].sent + n = Length(conns[i].kind)
           upload == conns[i].kind = "File"
           e == IF all /\ upload THEN "closed" ELSE "open"
<1>2. conns' = [conns EXCEPT ![i].sent = @ + n, ![i].end = e] /\ e \in {"open", "closed"}
  BY <1>1 DEF Mine
<1>3. /\ client'[c] = IF ~ all THEN client[c] ELSE IF upload THEN Idle ELSE At("type")
      /\ \A b \in Clients : b # c => client'[b] = client[b]
  BY <1>1 DEF TypeInv, TypeOK
<1> HIDE DEF e
<1>4. /\ Len(conns') = Len(conns) /\ Len(conns) \in Nat
      /\ \A j \in 1 .. Len(conns) :
           conns'[j] = IF j = i THEN [conns[i] EXCEPT !.sent = conns[i].sent + n, !.end = e]
                       ELSE conns[j]
  <2>1. n \in Nat
    BY AsioAssumption
  <2> QED
    BY <1>2, <2>1, WriteEffect DEF TypeInv
<1>5. \A j \in 1 .. Len(conns) : j # i => conns'[j] = conns[j]
  BY <1>4
<1>6. /\ conns'[i].kind = conns[i].kind /\ conns'[i].client = conns[i].client
      /\ conns'[i].got = conns[i].got
      /\ conns'[i].sent = conns[i].sent + n /\ conns'[i].end = e
  <2>1. conns[i] \in Conns /\ conns'[i] = [conns[i] EXCEPT !.sent = conns[i].sent + n, !.end = e]
    BY <1>4, ConnTypes DEF TypeInv
  <2> QED
    BY <2>1 DEF Conns
<1>7. Writes(c, i, n)
  BY <1>1, <1>3, <1>4, <1>5, <1>6 DEF Writes, e
<1> QED
  BY <1>7

\* ClientReceive: c receives n bytes of the answer.
Receives(c, n) ==
  /\ client[c].pc \in Receiving
  /\ client'[c] \in Received(client[c], "File", n)
  /\ client'[c].pc \in Receiving
  /\ reply'[c].got = reply[c].got + n /\ reply'[c].sent = reply[c].sent
  /\ \A b \in Clients : b # c => client'[b] = client[b] /\ reply'[b] = reply[b]
  /\ UNCHANGED <<up, conns, server, cut>>

LEMMA ClientReceives ==
  ASSUME TypeInv, NEW c \in Clients, ClientReceive(c)
  PROVE  \E n \in Ready(reply[c]) : Receives(c, n)
<1>1. PICK n \in Ready(reply[c]) : \E t \in Received(client[c], "File", n) :
        /\ client' = [client EXCEPT ![c] = t] /\ reply' = [reply EXCEPT ![c].got = @ + n]
        /\ UNCHANGED <<up, conns, server, cut>>
  BY DEF ClientReceive
<1>2. PICK t \in Received(client[c], "File", n) : client' = [client EXCEPT ![c] = t]
  BY <1>1
<1>3. reply[c] \in Streams /\ client[c] \in Threads /\ "File" \in Kinds /\ n \in Nat
  BY DEF TypeInv, TypeOK, Kinds, Ready, Streams
<1>4. t.pc \in Receiving /\ client[c].pc \in Receiving
  BY <1>3, ReceivedType
<1>5. reply' = [reply EXCEPT ![c] = [reply[c] EXCEPT !.got = reply[c].got + n]]
  BY <1>1
<1>6. /\ client'[c] = t
      /\ reply'[c].got = reply[c].got + n /\ reply'[c].sent = reply[c].sent
      /\ \A b \in Clients : b # c => client'[b] = client[b] /\ reply'[b] = reply[b]
  BY <1>2, <1>3, <1>5 DEF TypeInv, TypeOK, Streams
<1> QED
  BY <1>1, <1>2, <1>4, <1>6 DEF Receives

LEMMA LeaveFields ==
  ASSUME TypeInv, NEW c \in Clients, NEW how \in {"closed", "stopped"}, Leave(c, how)
  PROVE  /\ Len(conns') = Len(conns) /\ Len(conns) \in Nat
         /\ \A i \in 1 .. Len(conns) :
              /\ conns'[i].kind = conns[i].kind /\ conns'[i].client = conns[i].client
              /\ conns'[i].got = conns[i].got /\ conns'[i].sent = conns[i].sent
              /\ conns'[i].end = IF Mine(c, i) THEN how ELSE conns[i].end
<1>1. /\ Len(conns') = Len(conns) /\ Len(conns) \in Nat
      /\ \A i \in 1 .. Len(conns) :
           conns'[i] = IF Mine(c, i) THEN [conns[i] EXCEPT !.end = how] ELSE conns[i]
  BY LeaveEffect DEF TypeInv
<1>2. ASSUME NEW i \in 1 .. Len(conns)
      PROVE  /\ conns'[i].kind = conns[i].kind /\ conns'[i].client = conns[i].client
             /\ conns'[i].got = conns[i].got /\ conns'[i].sent = conns[i].sent
             /\ conns'[i].end = IF Mine(c, i) THEN how ELSE conns[i].end
  <2>1. conns[i] \in Conns
    BY ConnTypes DEF TypeInv
  <2>2. CASE Mine(c, i)
    BY <1>1, <2>1, <2>2 DEF Conns
  <2>3. CASE ~ Mine(c, i)
    BY <1>1, <2>3
  <2> QED
    BY <2>2, <2>3
<1> QED
  BY <1>1, <1>2

\* ServerReceive: n bytes of the first connection.
Takes(n) ==
  /\ server.pc \in Receiving
  /\ server' \in Received(server, conns[1].kind, n)
  /\ Len(conns') = Len(conns)
  /\ conns'[1].got = conns[1].got + n
  /\ \A j \in 1 .. Len(conns) :
       /\ conns'[j].kind = conns[j].kind /\ conns'[j].client = conns[j].client
       /\ conns'[j].sent = conns[j].sent /\ conns'[j].end = conns[j].end
       /\ j # 1 => conns'[j] = conns[j]

LEMMA ServerReceives ==
  ASSUME TypeInv, ServerReceive
  PROVE  \E n \in Ready(conns[1]) : Takes(n)
<1>1. /\ server.pc \in Receiving /\ server.pc # "idle"
      /\ Peer = conns[1] /\ conns[1] \in Conns /\ Len(conns) \in Nat /\ Len(conns) >= 1
  BY PeerIsFirst, ConnTypes DEF ServerReceive, Receiving, TypeInv, Serving
<1>2. PICK n \in Ready(conns[1]) :
        server' \in Received(server, conns[1].kind, n) /\ conns' = [conns EXCEPT ![1].got = @ + n]
  BY <1>1 DEF ServerReceive
<1>3. n \in Nat
  BY <1>1 DEF Ready, Conns
<1>4. /\ Len(conns') = Len(conns)
      /\ \A j \in 1 .. Len(conns) :
           conns'[j] = IF j = 1 THEN [conns[1] EXCEPT !.got = conns[1].got + n] ELSE conns[j]
  BY <1>1, <1>2, <1>3, GotEffect DEF TypeInv
<1>5. \A j \in 1 .. Len(conns) : j # 1 => conns'[j] = conns[j]
  BY <1>4
<1>6. /\ conns'[1].got = conns[1].got + n
      /\ conns'[1].kind = conns[1].kind /\ conns'[1].client = conns[1].client
      /\ conns'[1].sent = conns[1].sent /\ conns'[1].end = conns[1].end
  <2>1. conns'[1] = [conns[1] EXCEPT !.got = conns[1].got + n]
    BY <1>1, <1>4
  <2> QED
    BY <1>1, <2>1 DEF Conns
<1>7. Takes(n)
  BY <1>1, <1>2, <1>4, <1>5, <1>6 DEF Takes
<1> QED
  BY <1>7

\* ServerWrite: n bytes of the answer to p.
Answers(p, n) ==
  /\ server.pc = "send" /\ Mine(p, 1) /\ 1 \in 1 .. Len(conns)
  /\ MayWrite(reply[p], "File", n)
  /\ reply'[p].sent = reply[p].sent + n /\ reply'[p].got = reply[p].got
  /\ \A b \in Clients : b # p => reply'[b] = reply[b]
  /\ IF reply[p].sent + n = Length("File") THEN ServerClose ELSE UNCHANGED <<conns, server, cut>>
  /\ UNCHANGED <<up, client>>

LEMMA ServerWrites ==
  ASSUME TypeInv, ServerWrite
  PROVE  \E p \in Clients, n \in 1 .. Window : Answers(p, n)
<1> DEFINE first == conns[1].client
<1>1. server.pc = "send" /\ UNCHANGED <<up, client>> /\ Peer.end = "open"
  BY DEF ServerWrite
<1>2. /\ Peer = conns[1] /\ first \in Clients /\ Mine(first, 1)
      /\ 1 \in 1 .. Len(conns)
  BY <1>1, PeerIsFirst, ConnTypes DEF Mine, TypeInv, Serving
<1>3. PICK p \in Clients : p = first
  BY <1>2
<1>4. PICK n \in 1 .. Window :
        /\ MayWrite(reply[p], "File", n)
        /\ reply' = [reply EXCEPT ![p].sent = @ + n]
        /\ IF reply[p].sent + n = Length("File") THEN ServerClose ELSE UNCHANGED <<conns, server, cut>>
  BY <1>2, <1>3 DEF ServerWrite
<1>5. n \in Nat /\ reply[p] \in Streams
  BY AsioAssumption DEF TypeInv, TypeOK
<1>6. reply' = [reply EXCEPT ![p] = [reply[p] EXCEPT !.sent = reply[p].sent + n]]
  BY <1>4
<1>7. /\ reply'[p].sent = reply[p].sent + n /\ reply'[p].got = reply[p].got
      /\ \A b \in Clients : b # p => reply'[b] = reply[b]
  BY <1>5, <1>6 DEF TypeInv, TypeOK, Streams
<1>8. Answers(p, n)
  BY <1>1, <1>2, <1>3, <1>4, <1>7 DEF Answers
<1> QED
  BY <1>8

-----------------------------------------------------------------------------
(***************************************************************************)
(* Whole messages, when sizes do not come in pieces.                       *)
(***************************************************************************)
\* Where in a message of that kind thread t is after got bytes of it.
Position(t, kind, got) ==
  /\ t.whole = TRUE
  /\ t.pc = "type" => got = 0
  /\ t.pc = "size" => got = 1
  /\ t.pc = "body" => got + t.left = Length(kind)

ServerAt ==
  server.pc # "idle" =>
    /\ Position(server, conns[1].kind, conns[1].got)
    /\ server.pc = "send" => conns[1].kind = "FileMetadata"

\* Nothing is received from a connection before its turn.
Untouched ==
  \A i \in 1 .. Len(conns) : i > 1 \/ server.pc = "idle" => conns[i].got = 0

\* Only an upload is closed by its client, and only when all is sent.
ClosedSent ==
  \A i \in 1 .. Len(conns) :
    conns[i].end = "closed" => conns[i].kind = "File" /\ conns[i].sent = Length("File")

OneOpen ==
  \A i, j \in 1 .. Len(conns) :
    conns[i].end = "open" /\ conns[j].end = "open" /\ conns[i].client = conns[j].client => i = j

\* The client of an open connection is at work on it and waits for an answer
\* that it has not been sent in full.
Attended ==
  \A i \in 1 .. Len(conns) :
    conns[i].end = "open" =>
      /\ client[conns[i].client].pc # "idle"
      /\ cut[conns[i].client] = FALSE
      /\ reply[conns[i].client].sent < Length("File")

ClientAt ==
  \A c \in Clients :
    /\ Position(client[c], "File", reply[c].got)
    /\ client[c].pc = "send" => reply[c].got = 0
    /\ reply[c].got <= reply[c].sent
    /\ reply[c].sent <= Length("File")

WholeInv == ServerAt /\ Untouched /\ ClosedSent /\ OneOpen /\ Attended /\ ClientAt

LEMMA ThreadPositions ==
  /\ \A kind \in Kinds, n \in Nat : Position(Idle, kind, n) /\ Position(At("send"), kind, n)
  /\ \A kind \in Kinds : Position(At("type"), kind, 0)
  /\ Idle.pc = "idle" /\ At("send").pc = "send" /\ At("type").pc = "type"
BY DEF Position, Idle, At

LEMMA ReceivedPosition ==
  ASSUME ~ Pieces, NEW t \in Threads, NEW kind \in Kinds, NEW got \in Nat, Position(t, kind, got),
         NEW n \in Nat, NEW u \in Received(t, kind, n)
  PROVE  Position(u, kind, got + n)
<1>1. CASE t.pc = "type" /\ n = 1 /\ u = At("size")
  BY <1>1 DEF Position, At, Idle
<1>2. CASE t.pc = "size" /\ n = SizeBytes /\ u = [At("body") EXCEPT !.left = Body[kind]]
  <2>1. u = [pc |-> "body", left |-> Body[kind], whole |-> TRUE]
    BY <1>2 DEF At, Idle
  <2>2. got = 1 /\ Body[kind] \in Nat /\ SizeBytes \in Nat
    BY <1>2, AsioAssumption DEF Position
  <2> QED
    BY <1>2, <2>1, <2>2 DEF Position, Length
<1>3. CASE t.pc = "body" /\ n <= t.left /\ u = [t EXCEPT !.left = @ - n]
  <2>1. u.pc = "body" /\ u.left = t.left - n /\ u.whole = t.whole /\ t.left \in Nat
    BY <1>3 DEF Threads
  <2> QED
    BY <1>3, <2>1 DEF Position
<1> QED
  BY <1>1, <1>2, <1>3, ReceivedCases

LEMMA ConnectWhole ==
  ASSUME TypeInv, WholeInv, NEW c \in Clients, NEW kind \in Kinds, Connect(c, kind)
  PROVE  WholeInv'
<1> DEFINE m == [client |-> c, kind |-> kind, sent |-> 0, got |-> 0, end |-> "open"]
<1>1. /\ m \in Conns
      /\ m.client = c /\ m.sent = 0 /\ m.got = 0 /\ m.end = "open"
  BY DEF Conns
<1>2. /\ conns' = Append(conns, m) /\ UNCHANGED <<up, server>>
      /\ client[c].pc = "idle"
  BY IdleType DEF Connect
<1> HIDE DEF m
<1>3. /\ Len(conns) \in Nat /\ Len(conns') = Len(conns) + 1
      /\ \A i \in 1 .. Len(conns) : conns'[i] = conns[i]
      /\ conns'[Len(conns) + 1] = m
      /\ \A i \in 1 .. Len(conns') : i \in 1 .. Len(conns) \/ i = Len(conns) + 1
  BY <1>1, <1>2, Appended DEF TypeInv, TypeOK
<1>4. /\ client'[c].pc = "send" /\ Position(client'[c], "File", 0)
      /\ reply'[c].sent = 0 /\ reply'[c].got = 0 /\ cut'[c] = FALSE
      /\ \A b \in Clients : b # c => client'[b] = client[b] /\ reply'[b] = reply[b] /\ cut'[b] = cut[b]
  BY ThreadPositions DEF Connect, NoBytes, TypeInv, TypeOK, Kinds
<1>5. \A i \in 1 .. Len(conns) : conns[i].end = "open" => conns[i].client # c
  BY <1>2 DEF WholeInv, Attended
<1>6. Length("File") > 0
  BY LengthType DEF Kinds
<1>7. ServerAt'
  BY <1>2, <1>3 DEF TypeInv, Serving, WholeInv, ServerAt
<1>8. Untouched' /\ ClosedSent'
  BY <1>1, <1>2, <1>3 DEF WholeInv, Untouched, ClosedSent
<1>9. OneOpen'
  BY <1>1, <1>3, <1>5 DEF WholeInv, OneOpen
<1>10. Attended'
  <2>1. \A i \in 1 .. Len(conns) : conns[i].client \in Clients
    BY ConnTypes DEF TypeInv
  <2> QED
    BY <1>1, <1>3, <1>4, <1>5, <1>6, <2>1 DEF WholeInv, Attended
<1>11. ClientAt'
  <2>1. ASSUME NEW b \in Clients, b # c
        PROVE  /\ Position(client'[b], "File", reply'[b].got)
               /\ client'[b].pc = "send" => reply'[b].got = 0
               /\ reply'[b].got <= reply'[b].sent
               /\ reply'[b].sent <= Length("File")
    BY <1>4, <2>1 DEF WholeInv, ClientAt
  <2>2. 0 <= Length("File")
    BY <1>6, LengthType DEF Kinds
  <2> QED
    BY <1>4, <2>1, <2>2 DEF ClientAt
<1> QED
  BY <1>7, <1>8, <1>9, <1>10, <1>11 DEF WholeInv

LEMMA WriteWhole ==
  ASSUME TypeInv, WholeInv, NEW c \in Clients, ClientWrite(c)
  PROVE  WholeInv'
<1>1. PICK i \in 1 .. Len(conns), n \in 1 .. Window : Writes(c, i, n)
  BY ClientWrites
<1>2. /\ UNCHANGED <<server, reply, cut>> /\ client[c].pc = "send"
      /\ Len(conns') = Len(conns) /\ Len(conns) \in Nat
  BY <1>1 DEF Writes
<1>3. /\ \A j \in 1 .. Len(conns) :
           /\ conns'[j].kind = conns[j].kind /\ conns'[j].client = conns[j].client
           /\ conns'[j].got = conns[j].got
           /\ j # i => conns'[j] = conns[j]
      /\ conns'[i].sent = conns[i].sent + n /\ conns[i].end = "open" /\ conns[i].client = c
  BY <1>1 DEF Writes, Mine
<1>4. \/ conns'[i].end = "open" /\ client'[c] \in {client[c], At("type")}
      \/ /\ conns'[i].end = "closed" /\ client'[c] = Idle
         /\ conns[i].kind = "File" /\ conns'[i].sent = Length("File")
  BY <1>1, <1>3 DEF Writes
<1>6. \A b \in Clients : b # c => client'[b] = client[b]
  BY <1>1 DEF Writes
<1>7. ServerAt' /\ Untouched'
  BY <1>2, <1>3 DEF TypeInv, Serving, WholeInv, ServerAt, Untouched
<1>8. ClosedSent'
  BY <1>2, <1>3, <1>4 DEF WholeInv, ClosedSent
<1>9. OneOpen'
  BY <1>2, <1>3 DEF WholeInv, OneOpen
<1>10. Attended'
  <2>1. \A j \in 1 .. Len(conns) : conns[j].client \in Clients
    BY ConnTypes DEF TypeInv
  <2>2. \A j \in 1 .. Len(conns) : j # i /\ conns[j].end = "open" => conns[j].client # c
    BY <1>3 DEF WholeInv, OneOpen
  <2>3. conns'[i].end = "open" => client'[c].pc # "idle"
    BY <1>2, <1>4, ThreadPositions
  <2> QED
    BY <1>2, <1>3, <1>6, <2>1, <2>2, <2>3 DEF WholeInv, Attended
<1>11. ClientAt'
  <2>1. reply[c].got = 0 /\ Position(client[c], "File", 0)
    BY <1>2 DEF WholeInv, ClientAt
  <2>2. Position(client'[c], "File", 0)
    BY <1>4, <2>1, ThreadPositions DEF Kinds
  <2> QED
    BY <1>2, <1>6, <2>1, <2>2 DEF WholeInv, ClientAt
<1> QED
  BY <1>7, <1>8, <1>9, <1>10, <1>11 DEF WholeInv

LEMMA ReceiveWhole ==
  ASSUME ~ Pieces, TypeInv, WholeInv, NEW c \in Clients, ClientReceive(c)
  PROVE  WholeInv'
<1>1. PICK n \in Ready(reply[c]) : Receives(c, n)
  BY ClientReceives
<1>3. reply[c] \in Streams /\ client[c] \in Threads /\ "File" \in Kinds
  BY DEF TypeInv, TypeOK, Kinds
<1>4. n \in Nat /\ reply[c].got + n <= reply[c].sent /\ reply[c].got \in Nat /\ reply[c].sent \in Nat
  BY <1>3 DEF Ready, Streams
<1>5. client'[c].pc \in Receiving /\ Position(client'[c], "File", reply[c].got + n)
  BY <1>1, <1>3, <1>4, ReceivedType, ReceivedPosition DEF Receives, WholeInv, ClientAt
<1>7. /\ reply'[c].got = reply[c].got + n /\ reply'[c].sent = reply[c].sent
      /\ \A b \in Clients : b # c => client'[b] = client[b] /\ reply'[b] = reply[b]
  BY <1>1 DEF Receives
<1>8. UNCHANGED <<conns, server, cut>>
  BY <1>1 DEF Receives
<1>9. ServerAt' /\ Untouched' /\ ClosedSent' /\ OneOpen'
  BY <1>8 DEF WholeInv, ServerAt, Untouched, ClosedSent, OneOpen
<1>10. Attended'
  <2>1. \A i \in 1 .. Len(conns) : conns[i].client \in Clients
    BY ConnTypes DEF TypeInv
  <2> QED
    BY <1>5, <1>7, <1>8, <2>1 DEF WholeInv, Attended, Receiving
<1>11. ClientAt'
  BY <1>4, <1>5, <1>7 DEF WholeInv, ClientAt, Receiving
<1> QED
  BY <1>9, <1>10, <1>11 DEF WholeInv

\* c gives up its end of every connection of its own, if it is closed only
\* when there is none.
LEMMA LeaveWhole ==
  ASSUME TypeInv, WholeInv, NEW c \in Clients, NEW how \in {"closed", "stopped"}, Leave(c, how),
         how = "closed" => \A i \in 1 .. Len(conns) : ~ Mine(c, i),
         client' = [client EXCEPT ![c] = Idle], UNCHANGED <<up, server, reply, cut>>
  PROVE  WholeInv'
<1>1. Len(conns') = Len(conns) /\ Len(conns) \in Nat
  BY LeaveFields
<1>2. \A i \in 1 .. Len(conns) :
        /\ conns'[i].kind = conns[i].kind /\ conns'[i].client = conns[i].client
        /\ conns'[i].got = conns[i].got /\ conns'[i].sent = conns[i].sent
        /\ conns'[i].end = IF Mine(c, i) THEN how ELSE conns[i].end
  BY LeaveFields
<1>3. \A i \in 1 .. Len(conns) : conns'[i].end = "open" => conns[i].end = "open" /\ conns[i].client # c
  BY <1>2 DEF Mine
<1>4. /\ client'[c] = Idle
      /\ \A b \in Clients : b # c => client'[b] = client[b]
  BY DEF TypeInv, TypeOK
<1>5. ServerAt' /\ Untouched'
  BY <1>1, <1>2 DEF TypeInv, Serving, WholeInv, ServerAt, Untouched
<1>6. ClosedSent'
  BY <1>1, <1>2 DEF WholeInv, ClosedSent
<1>7. OneOpen'
  BY <1>1, <1>2, <1>3 DEF WholeInv, OneOpen
<1>8. Attended'
  <2>1. \A i \in 1 .. Len(conns) : conns[i].client \in Clients
    BY ConnTypes DEF TypeInv
  <2> QED
    BY <1>1, <1>2, <1>3, <1>4, <2>1 DEF WholeInv, Attended
<1>9. ClientAt'
  <2>1. Position(Idle, "File", reply[c].got) /\ Idle.pc # "send"
    BY ThreadPositions DEF TypeInv, TypeOK, Streams, Kinds
  <2> QED
    BY <1>4, <2>1 DEF WholeInv, ClientAt
<1> QED
  BY <1>5, <1>6, <1>7, <1>8, <1>9 DEF WholeInv

\* A client that has the whole answer has no connection open.
LEMMA AnsweredClosed ==
  ASSUME TypeInv, WholeInv, NEW c \in Clients, HasMessage(client[c])
  PROVE  /\ reply[c].got = Length("File")
         /\ \A i \in 1 .. Len(conns) : ~ Mine(c, i)
<1>1. reply[c].got \in Nat /\ reply[c].sent \in Nat /\ Length("File") \in Nat
  BY LengthType DEF TypeInv, TypeOK, Streams, Kinds
<1>2. reply[c].got = Length("File") /\ reply[c].got <= reply[c].sent
  BY <1>1 DEF HasMessage, WholeInv, ClientAt, Position
<1>3. ASSUME NEW i \in 1 .. Len(conns), Mine(c, i) PROVE FALSE
  BY <1>1, <1>2, <1>3 DEF Mine, WholeInv, Attended
<1> QED
  BY <1>2, <1>3

LEMMA ThrowWhole ==
  ASSUME TypeInv, WholeInv, NEW c \in Clients, ClientThrows(c)
  PROVE  WholeInv'
<1>1. /\ cut[c] /\ client' = [client EXCEPT ![c] = Idle]
      /\ UNCHANGED <<up, conns, server, reply, cut>>
  BY DEF ClientThrows
<1>2. \A i \in 1 .. Len(conns) : conns[i].end = "open" => conns[i].client # c
  BY <1>1 DEF WholeInv, Attended
<1>3. /\ client'[c] = Idle
      /\ \A b \in Clients : b # c => client'[b] = client[b]
  BY <1>1 DEF TypeInv, TypeOK
<1>4. ServerAt' /\ Untouched' /\ ClosedSent' /\ OneOpen'
  BY <1>1 DEF WholeInv, ServerAt, Untouched, ClosedSent, OneOpen
<1>5. Attended'
  <2>1. \A i \in 1 .. Len(conns) : conns[i].client \in Clients
    BY ConnTypes DEF TypeInv
  <2> QED
    BY <1>1, <1>2, <1>3, <2>1 DEF WholeInv, Attended
<1>6. ClientAt'
  <2>1. Position(Idle, "File", reply[c].got) /\ Idle.pc # "send"
    BY ThreadPositions DEF TypeInv, TypeOK, Streams, Kinds
  <2> QED
    BY <1>1, <1>3, <2>1 DEF WholeInv, ClientAt
<1> QED
  BY <1>4, <1>5, <1>6 DEF WholeInv

LEMMA AcceptWhole ==
  ASSUME TypeInv, WholeInv, Accept
  PROVE  WholeInv'
<1>1. /\ server.pc = "idle" /\ server' = At("type") /\ UNCHANGED <<conns, client, reply, cut>>
      /\ Len(conns) \in Nat /\ Len(conns) >= 1
  BY DEF Accept, TypeInv, TypeOK
<1>2. conns[1].got = 0 /\ conns[1].kind \in Kinds
  BY <1>1, ConnTypes DEF TypeInv, WholeInv, Untouched
<1>3. Position(At("type"), conns[1].kind, 0) /\ At("type").pc # "send"
  BY <1>2, ThreadPositions
<1>4. ServerAt'
  BY <1>1, <1>2, <1>3 DEF ServerAt
<1>5. Untouched'
  BY <1>1 DEF WholeInv, Untouched
<1>6. ClosedSent' /\ OneOpen' /\ Attended' /\ ClientAt'
  BY <1>1 DEF WholeInv, ClosedSent, OneOpen, Attended, ClientAt
<1> QED
  BY <1>4, <1>5, <1>6 DEF WholeInv

LEMMA ServerReceiveWhole ==
  ASSUME ~ Pieces, TypeInv, WholeInv, ServerReceive
  PROVE  WholeInv'
<1>1. PICK n \in Ready(conns[1]) : Takes(n)
  BY ServerReceives
<1>2. server.pc # "idle" /\ server \in Threads /\ UNCHANGED <<client, reply, cut>>
  BY DEF ServerReceive, Receiving, TypeInv, TypeOK
<1>3. Len(conns) \in Nat /\ Len(conns) >= 1 /\ Len(conns') = Len(conns)
  BY <1>1, <1>2, ConnTypes DEF TypeInv, Serving, Takes
<1>4. conns[1].kind \in Kinds /\ n \in Nat /\ conns[1].got \in Nat
  BY <1>2, <1>3, ConnTypes DEF TypeInv, Ready
<1>6. /\ conns'[1].got = conns[1].got + n
      /\ \A j \in 1 .. Len(conns) :
           /\ conns'[j].kind = conns[j].kind /\ conns'[j].client = conns[j].client
           /\ conns'[j].sent = conns[j].sent /\ conns'[j].end = conns[j].end
           /\ j # 1 => conns'[j] = conns[j]
  BY <1>1 DEF Takes
<1>7. server'.pc \in Receiving /\ Position(server', conns[1].kind, conns[1].got + n)
  <2>1. Position(server, conns[1].kind, conns[1].got)
    BY <1>2 DEF WholeInv, ServerAt
  <2> QED
    BY <1>1, <1>2, <1>4, <2>1, ReceivedType, ReceivedPosition DEF Takes
<1>8. ServerAt'
  BY <1>3, <1>6, <1>7 DEF ServerAt, Receiving
<1>9. Untouched'
  BY <1>2, <1>3, <1>6, <1>7 DEF WholeInv, Untouched, Receiving
<1>10. ClosedSent' /\ OneOpen'
  BY <1>3, <1>6 DEF WholeInv, ClosedSent, OneOpen
<1>11. Attended' /\ ClientAt'
  BY <1>2, <1>3, <1>6 DEF WholeInv, Attended, ClientAt
<1> QED
  BY <1>8, <1>9, <1>10, <1>11 DEF WholeInv

LEMMA RequestWhole ==
  ASSUME TypeInv, WholeInv, ServeRequest
  PROVE  WholeInv'
<1>1. server.pc # "idle" /\ server' = At("send") /\ UNCHANGED <<conns, client, reply, cut>>
  BY DEF ServeRequest, HasMessage
<1>2. conns[1].kind = "FileMetadata" /\ conns[1].got \in Nat /\ conns[1].kind \in Kinds
  BY <1>1, PeerIsFirst DEF ServeRequest, Conns
<1>3. Position(At("send"), conns[1].kind, conns[1].got) /\ At("send").pc = "send"
  BY <1>2, ThreadPositions
<1>4. ServerAt' /\ Untouched'
  BY <1>1, <1>2, <1>3 DEF ServerAt, WholeInv, Untouched
<1>5. ClosedSent' /\ OneOpen' /\ Attended' /\ ClientAt'
  BY <1>1 DEF WholeInv, ClosedSent, OneOpen, Attended, ClientAt
<1> QED
  BY <1>4, <1>5 DEF WholeInv

\* The server has sent answers only to the client it serves.
AnswersPeer ==
  \A b \in Clients :
    /\ reply'[b].got = reply[b].got
    /\ reply'[b].got <= reply'[b].sent
    /\ reply'[b].sent <= Length("File")
    /\ reply'[b].sent = reply[b].sent \/ Mine(b, 1)

\* The client whose connection the server closes has no other.
LEMMA CloseWhole ==
  ASSUME TypeInv, WholeInv, server.pc # "idle", ServerClose, client' = client, AnswersPeer
  PROVE  WholeInv'
<1>1. /\ Len(conns) \in Nat /\ Len(conns) >= 1 /\ Len(conns') = Len(conns) - 1
      /\ \A i \in 1 .. Len(conns') : i + 1 \in 1 .. Len(conns) /\ conns'[i] = conns[i + 1]
      /\ server' = Idle
      /\ \A c \in Clients : cut'[c] => cut[c] \/ Mine(c, 1)
      /\ cut' \in [Clients -> BOOLEAN]
  BY CloseEffect DEF TypeInv, Serving
<1>2. ServerAt' /\ Untouched' /\ ClosedSent'
  BY <1>1, ThreadPositions DEF WholeInv, ServerAt, Untouched, ClosedSent
<1>3. OneOpen'
  <2>1. ASSUME NEW i \in 1 .. Len(conns'), NEW j \in 1 .. Len(conns'),
               conns'[i].end = "open", conns'[j].end = "open", conns'[i].client = conns'[j].client
        PROVE  i = j
    <3>1. i + 1 = j + 1
      BY <1>1, <2>1 DEF WholeInv, OneOpen
    <3> QED
      BY <3>1
  <2> QED
    BY <2>1 DEF OneOpen
<1>4. Attended'
  <2>1. ASSUME NEW i \in 1 .. Len(conns'), conns'[i].end = "open"
        PROVE  /\ client'[conns'[i].client].pc # "idle"
               /\ cut'[conns'[i].client] = FALSE
               /\ reply'[conns'[i].client].sent < Length("File")
    <3> DEFINE b == conns[i + 1].client
    <3>1. i + 1 \in 1 .. Len(conns) /\ i + 1 # 1 /\ conns'[i] = conns[i + 1] /\ b \in Clients
      BY <1>1, ConnTypes DEF TypeInv
    <3>2. ~ Mine(b, 1)
      <4>1. 1 \in 1 .. Len(conns)
        BY <1>1
      <4> QED
        BY <2>1, <3>1, <4>1 DEF Mine, WholeInv, OneOpen
    <3>3. client[b].pc # "idle" /\ cut[b] = FALSE /\ reply[b].sent < Length("File")
      BY <2>1, <3>1 DEF WholeInv, Attended
    <3> QED
      BY <1>1, <3>1, <3>2, <3>3 DEF AnswersPeer
  <2> QED
    BY <2>1 DEF Attended
<1>5. ClientAt'
  BY DEF AnswersPeer, WholeInv, ClientAt
<1> QED
  BY <1>2, <1>3, <1>4, <1>5 DEF WholeInv

LEMMA ServerCloseWhole ==
  ASSUME TypeInv, WholeInv, ServeFile \/ ServerWriteUnread
  PROVE  WholeInv'
<1>1. ServerClose /\ server.pc # "idle" /\ UNCHANGED <<client, reply>>
  BY DEF ServeFile, ServerWriteUnread, HasMessage
<1>2. AnswersPeer
  BY <1>1 DEF AnswersPeer, WholeInv, ClientAt
<1> QED
  BY <1>1, <1>2, CloseWhole

LEMMA ServerWriteWhole ==
  ASSUME TypeInv, WholeInv, ServerWrite
  PROVE  WholeInv'
<1>1. PICK p \in Clients, n \in 1 .. Window : Answers(p, n)
  BY ServerWrites
<1>2. Mine(p, 1) /\ server.pc # "idle" /\ client' = client
  BY <1>1 DEF Answers
<1>3. IF reply[p].sent + n = Length("File") THEN ServerClose ELSE UNCHANGED <<conns, server, cut>>
  BY <1>1 DEF Answers
<1>4. /\ n \in Nat /\ reply[p].sent \in Nat /\ reply[p].got \in Nat
      /\ Length("File") \in Nat
  BY LengthType, AsioAssumption DEF TypeInv, TypeOK, Streams, Kinds
<1>5. /\ reply'[p].sent = reply[p].sent + n /\ reply'[p].got = reply[p].got
      /\ reply[p].sent + n <= Length("File")
      /\ \A b \in Clients : b # p => reply'[b] = reply[b]
  BY <1>1 DEF Answers, MayWrite
<1>6. AnswersPeer
  <2>1. reply[p].got <= reply[p].sent + n
    BY <1>2, <1>4 DEF WholeInv, ClientAt
  <2> QED
    BY <1>2, <1>5, <2>1 DEF AnswersPeer, WholeInv, ClientAt
<1>7. CASE reply[p].sent + n = Length("File")
  BY <1>2, <1>3, <1>6, <1>7, CloseWhole
<1>8. CASE reply[p].sent + n # Length("File")
  <2>1. UNCHANGED <<conns, server, cut>> /\ reply'[p].sent < Length("File")
    BY <1>3, <1>4, <1>5, <1>8
  <2>2. ServerAt' /\ Untouched' /\ ClosedSent' /\ OneOpen'
    BY <2>1 DEF WholeInv, ServerAt, Untouched, ClosedSent, OneOpen
  <2>3. Attended'
    <3>1. \A i \in 1 .. Len(conns) : conns[i].client \in Clients
      BY ConnTypes DEF TypeInv
    <3> QED
      BY <1>2, <1>5, <2>1, <3>1 DEF WholeInv, Attended
  <2>4. ClientAt'
    BY <1>2, <1>6 DEF AnswersPeer, WholeInv, ClientAt
  <2> QED
    BY <2>2, <2>3, <2>4 DEF WholeInv
<1> QED
  BY <1>7, <1>8

LEMMA DiesWhole ==
  ASSUME TypeInv, WholeInv, ServerDies
  PROVE  WholeInv'
<1>1. conns' = <<>> /\ server' = Idle /\ UNCHANGED <<client, reply>>
  BY DEF ServerDies
<1>2. Len(conns') = 0
  BY <1>1
<1>3. ServerAt' /\ Untouched' /\ ClosedSent' /\ OneOpen' /\ Attended'
  BY <1>1, <1>2, ThreadPositions DEF ServerAt, Untouched, ClosedSent, OneOpen, Attended
<1>4. ClientAt'
  BY <1>1 DEF WholeInv, ClientAt
<1> QED
  BY <1>3, <1>4 DEF WholeInv

LEMMA WholeStep ==
  ASSUME ~ Pieces
  PROVE  TypeInv /\ WholeInv /\ [Next]_vars => WholeInv'
<1> SUFFICES ASSUME TypeInv, WholeInv, [Next]_vars PROVE WholeInv'
  OBVIOUS
<1>1. ASSUME NEW c \in Clients, NEW kind \in Kinds, Connect(c, kind) PROVE WholeInv'
  BY <1>1, ConnectWhole
<1>2. ASSUME NEW c \in Clients, ClientStep(c) PROVE WholeInv'
  <2>1. CASE ClientWrite(c)
    BY <2>1, WriteWhole
  <2>2. CASE ClientReceive(c)
    BY <2>2, ReceiveWhole
  <2>3. CASE ClientDone(c)
    <3>1. \A i \in 1 .. Len(conns) : ~ Mine(c, i)
      BY <2>3, AnsweredClosed DEF ClientDone
    <3> QED
      BY <2>3, <3>1, LeaveWhole DEF ClientDone
  <2>4. CASE ClientThrows(c)
    BY <2>4, ThrowWhole
  <2> QED
    BY <1>2, <2>1, <2>2, <2>3, <2>4 DEF ClientStep
<1>3. ASSUME NEW c \in Clients, ClientStop(c) PROVE WholeInv'
  BY <1>3, LeaveWhole DEF ClientStop
<1>4. CASE ServerStep
  BY <1>4, AcceptWhole, ServerReceiveWhole, RequestWhole, ServerCloseWhole, ServerWriteWhole, DiesWhole
  DEF ServerStep
<1>5. CASE ServerStart \/ UNCHANGED vars
  BY <1>5 DEF ServerStart, vars, WholeInv, ServerAt, Untouched, ClosedSent, OneOpen, Attended, ClientAt
<1> QED
  BY <1>1, <1>2, <1>3, <1>4, <1>5 DEF Next

LEMMA WholeInit == Init => TypeInv /\ WholeInv
<1> SUFFICES ASSUME Init PROVE TypeInv /\ WholeInv
  OBVIOUS
<1>1. TypeInv
  BY IdleType DEF Init, TypeInv, TypeOK, Serving, NoBytes, Streams, Idle
<1>2. Len(conns) = 0
  BY DEF Init
<1>3. ServerAt /\ Untouched /\ ClosedSent /\ OneOpen /\ Attended
  BY <1>2, ThreadPositions DEF Init, ServerAt, Untouched, ClosedSent, OneOpen, Attended
<1>4. ClientAt
  <2>1. 0 <= Length("File")
    BY LengthType DEF Kinds
  <2>2. Position(Idle, "File", 0) /\ Idle.pc # "send"
    BY ThreadPositions DEF Kinds
  <2>3. \A c \in Clients : client[c] = Idle /\ reply[c].sent = 0 /\ reply[c].got = 0
    BY DEF Init, NoBytes
  <2>4. ASSUME NEW c \in Clients
        PROVE  /\ Position(client[c], "File", reply[c].got)
               /\ client[c].pc = "send" => reply[c].got = 0
               /\ reply[c].got <= reply[c].sent
               /\ reply[c].sent <= Length("File")
    <3>1. client[c] = Idle /\ reply[c].sent = 0 /\ reply[c].got = 0
      BY <2>3
    <3>2. Position(client[c], "File", reply[c].got)
      BY <2>2, <3>1, Zenon
    <3> QED
      BY <2>1, <3>1, <3>2
  <2> QED
    BY <2>4 DEF ClientAt
<1> QED
  BY <1>1, <1>3, <1>4 DEF WholeInv

\* If sizes come in one piece, then whatever else is torn apart on its way,
\* receiveProtoMessage parses exactly the bytes of one message.
THEOREM MessagesArriveWhole == ~ Pieces => (Spec => []MessagesWhole)
<1> SUFFICES ASSUME ~ Pieces PROVE Spec => []MessagesWhole
  OBVIOUS
<1>1. TypeInv /\ WholeInv => MessagesWhole
  <2> SUFFICES ASSUME TypeInv, WholeInv PROVE MessagesWhole
    OBVIOUS
  <2>1. HasMessage(server) => Peer.got = Length(Peer.kind)
    <3> SUFFICES ASSUME HasMessage(server) PROVE Peer.got = Length(Peer.kind)
      OBVIOUS
    <3>1. server.pc # "idle"
      BY DEF HasMessage
    <3>2. Peer = conns[1] /\ Peer \in Conns
      BY <3>1, PeerIsFirst
    <3>3. Peer.got + 0 = Length(Peer.kind)
      BY <3>1, <3>2 DEF HasMessage, WholeInv, ServerAt, Position
    <3> QED
      BY <3>2, <3>3 DEF Conns
  <2> QED
    BY <2>1, AnsweredClosed DEF MessagesWhole
<1> QED
  BY <1>1, WholeInit, TypeStep, WholeStep, PTL DEF Spec

\* If sizes come in one piece, only a client that is stopped in the middle of
\* a transfer ends the asio thread: one that closes its socket has sent all
\* that the server still wants to receive.
THEOREM ThreadSurvives == ~ Pieces => (Spec => ThreadOutlivesClients)
<1> SUFFICES ASSUME ~ Pieces PROVE Spec => ThreadOutlivesClients
  OBVIOUS
<1>1. TypeInv /\ WholeInv /\ [Next]_vars
      => [up /\ ~ up' => Peer.end = "stopped" \/ ~ server.whole]_vars
  <2> SUFFICES ASSUME TypeInv, WholeInv, [Next]_vars, up, ~ up'
               PROVE  Peer.end = "stopped"
    OBVIOUS
  <2>1. ServerDies
    BY DEF Next, ClientStep, ServerStep, vars, Connect, ClientWrite, ClientReceive, ClientDone,
           ClientThrows, ClientStop, Accept, ServerReceive, ServeFile, ServeRequest, ServerWrite,
           ServerWriteUnread, ServerStart
  <2>2. server.pc # "idle" /\ server \in Threads
    BY <2>1 DEF ServerDies, EndOfFile, Receiving, TypeInv, TypeOK
  <2>3. /\ Peer = conns[1] /\ Peer \in Conns /\ 1 \in 1 .. Len(conns)
        /\ Position(server, Peer.kind, Peer.got) /\ server.whole
        /\ server.pc = "send" => Peer.kind = "FileMetadata"
    <3>1. Peer = conns[1] /\ Peer \in Conns /\ 1 \in 1 .. Len(conns)
      BY <2>2, PeerIsFirst, ConnTypes DEF TypeInv, Serving
    <3> QED
      BY <2>2, <3>1 DEF WholeInv, ServerAt, Position
  <2>4. ASSUME Peer.end = "closed" PROVE FALSE
    <3>1. Peer.kind = "File" /\ Peer.sent = Length("File")
      BY <2>3, <2>4 DEF WholeInv, ClosedSent
    <3>2. EndOfFile(server, Peer)
      BY <2>1, <2>3, <3>1 DEF ServerDies
    <3>3. Peer.got = Length("File") /\ Peer.got \in Nat /\ Peer.got > 1
      BY <2>3, <3>1, <3>2, LengthType DEF EndOfFile, Kinds
    <3>4. server.pc = "body" /\ server.left \in Nat /\ server.left # 0
      BY <2>2, <2>3, <3>2, <3>3 DEF EndOfFile, HasMessage, Position, Receiving, Threads
    <3> QED
      BY <2>3, <3>1, <3>3, <3>4 DEF Position
  <2>5. Peer.end # "open"
    BY <2>1, <2>3 DEF ServerDies
  <2> QED
    BY <2>3, <2>4, <2>5 DEF Conns
<1> QED
  BY <1>1, WholeInit, TypeStep, WholeStep, PTL DEF Spec, ThreadOutlivesClients

-----------------------------------------------------------------------------
(***************************************************************************)
(* What has been sent, when sizes do not come in pieces.                   *)
(***************************************************************************)
\* The bytes of a size travel together.
NotInSize(n) == n \notin 2 .. SizeBytes

SentAhead ==
  /\ \A i \in 1 .. Len(conns) : conns[i].got <= conns[i].sent /\ NotInSize(conns[i].sent)
  /\ \A c \in Clients : NotInSize(reply[c].sent)

\* The client of an open connection writes until all is sent, and then only
\* the answer to a request keeps it.
SentAll ==
  \A i \in 1 .. Len(conns) :
    conns[i].end = "open" =>
      IF client[conns[i].client].pc = "send"
      THEN conns[i].sent < Length(conns[i].kind)
      ELSE conns[i].kind = "FileMetadata" /\ conns[i].sent = Length(conns[i].kind)

\* The server answers when it has the whole request.
RequestTaken == server.pc = "send" => conns[1].got = Length(conns[1].kind)

\* A client in a transfer has its connection, or the server is gone from it.
Connected ==
  \A c \in Clients : client[c].pc # "idle" => cut[c] \/ \E i \in 1 .. Len(conns) : Mine(c, i)

SentInv == SentAhead /\ SentAll /\ RequestTaken /\ Connected

LEMMA ConnectSent ==
  ASSUME TypeInv, WholeInv, SentInv, NEW c \in Clients, NEW kind \in Kinds, Connect(c, kind)
  PROVE  SentInv'
<1> DEFINE m == [client |-> c, kind |-> kind, sent |-> 0, got |-> 0, end |-> "open"]
<1>1. /\ m \in Conns
      /\ m.client = c /\ m.kind = kind /\ m.sent = 0 /\ m.got = 0 /\ m.end = "open"
  BY DEF Conns
<1>2. /\ conns' = Append(conns, m) /\ UNCHANGED <<up, server>>
      /\ client[c].pc = "idle"
  BY IdleType DEF Connect
<1> HIDE DEF m
<1>3. /\ Len(conns) \in Nat /\ Len(conns') = Len(conns) + 1
      /\ \A i \in 1 .. Len(conns) : conns'[i] = conns[i]
      /\ conns'[Len(conns) + 1] = m
      /\ \A i \in 1 .. Len(conns') : i \in 1 .. Len(conns) \/ i = Len(conns) + 1
  BY <1>1, <1>2, Appended DEF TypeInv, TypeOK
<1>4. /\ client'[c].pc = "send" /\ reply'[c].sent = 0
      /\ \A b \in Clients : b # c => client'[b] = client[b] /\ reply'[b] = reply[b] /\ cut'[b] = cut[b]
  BY ThreadPositions DEF Connect, NoBytes, TypeInv, TypeOK
<1>5. \A i \in 1 .. Len(conns) :
        /\ conns[i].end = "open" => conns[i].client # c
        /\ conns[i].client \in Clients
  BY <1>2, ConnTypes DEF WholeInv, Attended, TypeInv
<1>6. NotInSize(0) /\ 0 < Length(kind)
  BY LengthType, AsioAssumption DEF NotInSize
<1>7. SentAhead'
  <2>1. \A b \in Clients : NotInSize(reply'[b].sent)
    BY <1>4, <1>6 DEF SentInv, SentAhead
  <2>2. \A i \in 1 .. Len(conns') : conns'[i].got <= conns'[i].sent /\ NotInSize(conns'[i].sent)
    BY <1>1, <1>3, <1>6 DEF SentInv, SentAhead
  <2> QED
    BY <2>1, <2>2 DEF SentAhead, NotInSize
<1>8. SentAll'
  <2>1. ASSUME NEW i \in 1 .. Len(conns'), conns'[i].end = "open"
        PROVE  IF client'[conns'[i].client].pc = "send"
               THEN conns'[i].sent < Length(conns'[i].kind)
               ELSE conns'[i].kind = "FileMetadata" /\ conns'[i].sent = Length(conns'[i].kind)
    <3>1. CASE i \in 1 .. Len(conns)
      BY <1>3, <1>4, <1>5, <2>1, <3>1 DEF SentInv, SentAll
    <3>2. CASE i = Len(conns) + 1
      BY <1>1, <1>3, <1>4, <1>6, <3>2
    <3> QED
      BY <1>3, <3>1, <3>2
  <2> QED
    BY <2>1 DEF SentAll, Length
<1>9. RequestTaken'
  BY <1>2, <1>3 DEF SentInv, RequestTaken, TypeInv, Serving, Length
<1>10. Connected'
  <2>1. \E i \in 1 .. Len(conns') : Mine(c, i)'
    <3>1. PICK k \in 1 .. Len(conns') : k = Len(conns) + 1
      BY <1>3
    <3>2. Mine(c, k)'
      BY <1>1, <1>3, <3>1 DEF Mine
    <3> QED
      BY <3>2
  <2>2. ASSUME NEW b \in Clients, b # c, client'[b].pc # "idle"
        PROVE  cut'[b] \/ \E i \in 1 .. Len(conns') : Mine(b, i)'
    <3>1. cut[b] \/ \E i \in 1 .. Len(conns) : Mine(b, i)
      BY <1>4, <2>2 DEF SentInv, Connected
    <3>2. \A i \in 1 .. Len(conns) : i \in 1 .. Len(conns') /\ (Mine(b, i) => Mine(b, i)')
      BY <1>3 DEF Mine
    <3> QED
      BY <1>4, <2>2, <3>1, <3>2
  <2> QED
    BY <2>1, <2>2 DEF Connected
<1> QED
  BY <1>7, <1>8, <1>9, <1>10 DEF SentInv

LEMMA WriteSent ==
  ASSUME ~ Pieces, TypeInv, WholeInv, SentInv, NEW c \in Clients, ClientWrite(c)
  PROVE  SentInv'
<1>1. PICK i \in 1 .. Len(conns), n \in 1 .. Window : Writes(c, i, n)
  BY ClientWrites
<1>2. /\ UNCHANGED <<up, server, reply, cut>> /\ client[c].pc = "send"
      /\ Len(conns') = Len(conns) /\ Len(conns) \in Nat
      /\ conns[i].end = "open" /\ conns[i].client = c
  BY <1>1 DEF Writes, Mine
<1>3. /\ conns[i].sent \in Nat /\ conns[i].got \in Nat /\ n \in Nat
      /\ conns[i].kind \in Kinds /\ Length(conns[i].kind) \in Nat
  BY ConnTypes, LengthType, AsioAssumption DEF TypeInv
<1>4. /\ \A j \in 1 .. Len(conns) :
           /\ conns'[j].kind = conns[j].kind /\ conns'[j].client = conns[j].client
           /\ conns'[j].got = conns[j].got
           /\ j # i => conns'[j] = conns[j]
      /\ conns'[i].sent = conns[i].sent + n
      /\ \A b \in Clients : b # c => client'[b] = client[b]
  BY <1>1 DEF Writes
<1>5. NotInSize(conns[i].sent + n) /\ conns[i].sent + n <= Length(conns[i].kind)
  BY <1>1 DEF Writes, MayWrite, NotInSize
<1>6. SentAhead'
  <2>1. conns[i].got <= conns[i].sent + n
    BY <1>3 DEF SentInv, SentAhead
  <2> QED
    BY <1>2, <1>4, <1>5, <2>1 DEF SentInv, SentAhead, NotInSize
<1>7. SentAll'
  <2>1. ASSUME NEW j \in 1 .. Len(conns), j # i, conns'[j].end = "open"
        PROVE  IF client'[conns'[j].client].pc = "send"
               THEN conns'[j].sent < Length(conns'[j].kind)
               ELSE conns'[j].kind = "FileMetadata" /\ conns'[j].sent = Length(conns'[j].kind)
    <3>1. conns'[j] = conns[j] /\ conns[j].client \in Clients /\ conns[j].end = "open"
      BY <1>4, <2>1, ConnTypes DEF TypeInv
    <3>2. conns[j].client # c
      BY <1>2, <2>1, <3>1 DEF WholeInv, OneOpen
    <3> QED
      BY <1>4, <3>1, <3>2 DEF SentInv, SentAll
  <2>2. ASSUME conns'[i].end = "open"
        PROVE  IF client'[conns'[i].client].pc = "send"
               THEN conns'[i].sent < Length(conns'[i].kind)
               ELSE conns'[i].kind = "FileMetadata" /\ conns'[i].sent = Length(conns'[i].kind)
    <3>1. conns'[i].kind = conns[i].kind /\ conns'[i].client = c
      BY <1>2, <1>4
    <3>2. CASE conns[i].sent + n = Length(conns[i].kind)
      <4>1. conns[i].kind # "File" /\ client'[c] = At("type")
        BY <1>1, <2>2, <3>2 DEF Writes
      <4> QED
        BY <1>3, <1>4, <3>1, <3>2, <4>1, ThreadPositions DEF Kinds
    <3>3. CASE conns[i].sent + n # Length(conns[i].kind)
      <4>1. client'[c] = client[c]
        BY <1>1, <3>3 DEF Writes
      <4> QED
        BY <1>2, <1>3, <1>4, <1>5, <3>1, <3>3, <4>1
    <3> QED
      BY <3>2, <3>3
  <2> QED
    BY <1>2, <2>1, <2>2 DEF SentAll, Length
<1>8. RequestTaken'
  BY <1>2, <1>4 DEF SentInv, RequestTaken, TypeInv, Serving, Length
<1>9. Connected'
  <2>1. client'[c].pc # "idle" => Mine(c, i)'
    BY <1>1, <1>2, <1>4, ThreadPositions DEF Writes, Mine
  <2>2. ASSUME NEW b \in Clients, b # c, client'[b].pc # "idle"
        PROVE  cut'[b] \/ \E j \in 1 .. Len(conns') : Mine(b, j)'
    <3>1. cut[b] \/ \E j \in 1 .. Len(conns) : Mine(b, j)
      BY <1>4, <2>2 DEF SentInv, Connected
    <3>2. \A j \in 1 .. Len(conns) : Mine(b, j) => Mine(b, j)'
      BY <1>2, <1>4, <2>2 DEF Mine
    <3> QED
      BY <1>2, <3>1, <3>2
  <2> QED
    BY <1>2, <2>1, <2>2 DEF Connected
<1> QED
  BY <1>6, <1>7, <1>8, <1>9 DEF SentInv

LEMMA ReceiveSent ==
  ASSUME TypeInv, WholeInv, SentInv, NEW c \in Clients, ClientReceive(c)
  PROVE  SentInv'
<1>1. PICK n \in Ready(reply[c]) : Receives(c, n)
  BY ClientReceives
<1>2. /\ client[c].pc \in Receiving /\ client'[c].pc \in Receiving
      /\ \A b \in Clients : b # c => client'[b] = client[b]
      /\ \A b \in Clients : reply'[b].sent = reply[b].sent
      /\ UNCHANGED <<up, conns, server, cut>>
  BY <1>1 DEF Receives
<1>3. SentAhead' /\ RequestTaken'
  BY <1>2 DEF SentInv, SentAhead, RequestTaken, NotInSize, Length
<1>4. SentAll'
  <2>1. \A i \in 1 .. Len(conns) : conns[i].client \in Clients
    BY ConnTypes DEF TypeInv
  <2>2. \A b \in Clients : (client'[b].pc = "send") <=> (client[b].pc = "send")
    BY <1>2 DEF Receiving
  <2> QED
    BY <1>2, <2>1, <2>2 DEF SentInv, SentAll, Length
<1>5. Connected'
  BY <1>2 DEF SentInv, Connected, Mine, Receiving
<1> QED
  BY <1>3, <1>4, <1>5 DEF SentInv

\* c leaves its connection, by closing or by stopping.
LEMMA LeaveSent ==
  ASSUME TypeInv, SentInv, NEW c \in Clients, NEW how \in {"closed", "stopped"}, Leave(c, how),
         client' = [client EXCEPT ![c] = Idle], UNCHANGED <<up, server, reply, cut>>
  PROVE  SentInv'
<1>1. Len(conns') = Len(conns) /\ Len(conns) \in Nat
  BY LeaveFields
<1>2. \A i \in 1 .. Len(conns) :
        /\ conns'[i].kind = conns[i].kind /\ conns'[i].client = conns[i].client
        /\ conns'[i].got = conns[i].got /\ conns'[i].sent = conns[i].sent
        /\ conns'[i].end = IF Mine(c, i) THEN how ELSE conns[i].end
  BY LeaveFields
<1>3. /\ client'[c].pc = "idle"
      /\ \A b \in Clients : b # c => client'[b] = client[b]
  BY IdleType DEF TypeInv, TypeOK
<1>4. SentAhead' /\ RequestTaken'
  BY <1>1, <1>2 DEF SentInv, SentAhead, RequestTaken, TypeInv, Serving, NotInSize, Length
<1>5. SentAll'
  <2>1. \A i \in 1 .. Len(conns) : conns'[i].end = "open" => conns[i].end = "open" /\ conns[i].client # c
    BY <1>2 DEF Mine
  <2>2. \A i \in 1 .. Len(conns) : conns[i].client \in Clients
    BY ConnTypes DEF TypeInv
  <2> QED
    BY <1>1, <1>2, <1>3, <2>1, <2>2 DEF SentInv, SentAll, Length
<1>6. Connected'
  <2>1. ASSUME NEW b \in Clients, client'[b].pc # "idle"
        PROVE  cut'[b] \/ \E i \in 1 .. Len(conns') : Mine(b, i)'
    <3>1. b # c
      BY <1>3, <2>1
    <3>2. cut[b] \/ \E i \in 1 .. Len(conns) : Mine(b, i)
      BY <1>3, <2>1, <3>1 DEF SentInv, Connected
    <3>3. \A i \in 1 .. Len(conns) : Mine(b, i) => Mine(b, i)'
      BY <1>2, <3>1 DEF Mine
    <3> QED
      BY <1>1, <3>2, <3>3
  <2> QED
    BY <2>1 DEF Connected
<1> QED
  BY <1>4, <1>5, <1>6 DEF SentInv

LEMMA ThrowSent ==
  ASSUME TypeInv, WholeInv, SentInv, NEW c \in Clients, ClientThrows(c)
  PROVE  SentInv'
<1>1. /\ cut[c] /\ client' = [client EXCEPT ![c] = Idle]
      /\ UNCHANGED <<up, conns, server, reply, cut>>
  BY DEF ClientThrows
<1>2. \A i \in 1 .. Len(conns) :
        /\ conns[i].client \in Clients
        /\ conns[i].end = "open" => conns[i].client # c
  BY <1>1, ConnTypes DEF WholeInv, Attended, TypeInv
<1>3. /\ client'[c].pc = "idle"
      /\ \A b \in Clients : b # c => client'[b] = client[b]
  BY <1>1, IdleType DEF TypeInv, TypeOK
<1>4. SentAhead' /\ RequestTaken'
  BY <1>1 DEF SentInv, SentAhead, RequestTaken, NotInSize, Length
<1>5. SentAll'
  BY <1>1, <1>2, <1>3 DEF SentInv, SentAll, Length
<1>6. Connected'
  BY <1>1, <1>3 DEF SentInv, Connected, Mine
<1> QED
  BY <1>4, <1>5, <1>6 DEF SentInv

LEMMA ServerReceiveSent ==
  ASSUME TypeInv, SentInv, ServerReceive
  PROVE  SentInv'
<1>1. PICK n \in Ready(conns[1]) : Takes(n)
  BY ServerReceives
<1>2. server.pc # "idle" /\ server \in Threads /\ UNCHANGED <<client, reply, cut>>
  BY DEF ServerReceive, Receiving, TypeInv, TypeOK
<1>3. Len(conns) \in Nat /\ Len(conns) >= 1 /\ Len(conns') = Len(conns)
  BY <1>1, <1>2, ConnTypes DEF TypeInv, Serving, Takes
<1>4. /\ conns[1].kind \in Kinds /\ n \in Nat /\ conns[1].got \in Nat /\ conns[1].sent \in Nat
      /\ conns[1].got + n <= conns[1].sent
  BY <1>2, <1>3, ConnTypes DEF TypeInv, Ready
<1>5. /\ conns'[1].got = conns[1].got + n
      /\ \A j \in 1 .. Len(conns) :
           /\ conns'[j].kind = conns[j].kind /\ conns'[j].client = conns[j].client
           /\ conns'[j].sent = conns[j].sent /\ conns'[j].end = conns[j].end
           /\ j # 1 => conns'[j] = conns[j]
  BY <1>1 DEF Takes
<1>6. server'.pc \in Receiving
  BY <1>1, <1>2, <1>4, ReceivedType DEF Takes
<1>7. SentAhead'
  BY <1>2, <1>3, <1>4, <1>5 DEF SentInv, SentAhead, NotInSize
<1>8. SentAll'
  BY <1>2, <1>3, <1>5 DEF SentInv, SentAll, Length
<1>9. RequestTaken'
  BY <1>6 DEF RequestTaken, Receiving
<1>10. Connected'
  BY <1>2, <1>3, <1>5 DEF SentInv, Connected, Mine
<1> QED
  BY <1>7, <1>8, <1>9, <1>10 DEF SentInv

LEMMA AcceptSent ==
  ASSUME SentInv, Accept
  PROVE  SentInv'
<1>1. server' = At("type") /\ UNCHANGED <<up, conns, client, reply, cut>>
  BY DEF Accept
<1> QED
  BY <1>1, ThreadPositions
  DEF SentInv, SentAhead, SentAll, RequestTaken, Connected, Mine, NotInSize, Length

LEMMA RequestSent ==
  ASSUME TypeInv, WholeInv, SentInv, ServeRequest
  PROVE  SentInv'
<1>1. /\ HasMessage(server) /\ server.pc # "idle" /\ server' = At("send")
      /\ UNCHANGED <<up, conns, client, reply, cut>>
  BY DEF ServeRequest, HasMessage
<1>2. conns[1].got = Length(conns[1].kind)
  BY <1>1, PeerIsFirst DEF HasMessage, WholeInv, ServerAt, Position, Conns
<1> QED
  BY <1>1, <1>2 DEF SentInv, SentAhead, SentAll, RequestTaken, Connected, Mine, NotInSize, Length

\* The client whose connection the server closes finds that out.
LEMMA CloseSent ==
  ASSUME TypeInv, SentInv, server.pc # "idle", ServerClose, client' = client,
         \A c \in Clients : NotInSize(reply[c].sent)'
  PROVE  SentInv'
<1>1. /\ Len(conns) \in Nat /\ Len(conns) >= 1 /\ Len(conns') = Len(conns) - 1
      /\ \A i \in 1 .. Len(conns') : i + 1 \in 1 .. Len(conns) /\ conns'[i] = conns[i + 1]
      /\ server' = Idle
      /\ \A c \in Clients : cut'[c] <=> cut[c] \/ Mine(c, 1)
  BY CloseEffect DEF TypeInv, Serving
<1>2. SentAhead' /\ SentAll' /\ RequestTaken'
  BY <1>1, IdleType DEF SentInv, SentAhead, SentAll, RequestTaken, NotInSize, Length
<1>3. Connected'
  <2>1. ASSUME NEW c \in Clients, client'[c].pc # "idle", NEW i \in 1 .. Len(conns), Mine(c, i)
        PROVE  cut'[c] \/ \E j \in 1 .. Len(conns') : Mine(c, j)'
    <3>1. CASE i = 1
      BY <1>1, <2>1, <3>1
    <3>2. CASE i # 1
      <4>1. i - 1 \in 1 .. Len(conns') /\ conns'[i - 1] = conns[i]
        BY <1>1, <3>2
      <4>2. PICK j \in 1 .. Len(conns') : conns'[j] = conns[i]
        BY <4>1
      <4> QED
        BY <2>1, <4>2 DEF Mine
    <3> QED
      BY <3>1, <3>2
  <2> QED
    BY <1>1, <2>1 DEF SentInv, Connected
<1> QED
  BY <1>2, <1>3 DEF SentInv

LEMMA ServerCloseSent ==
  ASSUME TypeInv, SentInv, ServeFile \/ ServerWriteUnread
  PROVE  SentInv'
<1>1. ServerClose /\ server.pc # "idle" /\ UNCHANGED <<client, reply>>
  BY DEF ServeFile, ServerWriteUnread, HasMessage
<1>2. \A c \in Clients : NotInSize(reply[c].sent)'
  BY <1>1 DEF SentInv, SentAhead, NotInSize
<1> QED
  BY <1>1, <1>2, CloseSent

LEMMA ServerWriteSent ==
  ASSUME ~ Pieces, TypeInv, SentInv, ServerWrite
  PROVE  SentInv'
<1>1. PICK p \in Clients, n \in 1 .. Window : Answers(p, n)
  BY ServerWrites
<1>2. /\ server.pc # "idle" /\ client' = client
      /\ IF reply[p].sent + n = Length("File") THEN ServerClose ELSE UNCHANGED <<conns, server, cut>>
  BY <1>1 DEF Answers
<1>3. \A c \in Clients : NotInSize(reply[c].sent)'
  BY <1>1 DEF SentInv, SentAhead, Answers, MayWrite, NotInSize
<1>4. CASE ServerClose
  BY <1>2, <1>3, <1>4, CloseSent
<1>5. CASE UNCHANGED <<conns, server, cut>>
  BY <1>2, <1>3, <1>5 DEF SentInv, SentAhead, SentAll, RequestTaken, Connected, Mine, NotInSize, Length
<1> QED
  BY <1>2, <1>4, <1>5

LEMMA DiesSent ==
  ASSUME SentInv, ServerDies
  PROVE  SentInv'
<1>1. /\ conns' = <<>> /\ server' = Idle /\ UNCHANGED <<client, reply>>
      /\ \A c \in Clients : cut'[c]
  BY DEF ServerDies
<1>2. Len(conns') = 0
  BY <1>1
<1> QED
  BY <1>1, <1>2, IdleType DEF SentInv, SentAhead, SentAll, RequestTaken, Connected, NotInSize

LEMMA SentStep ==
  ASSUME ~ Pieces
  PROVE  TypeInv /\ WholeInv /\ SentInv /\ [Next]_vars => SentInv'
<1> SUFFICES ASSUME TypeInv, WholeInv, SentInv, [Next]_vars PROVE SentInv'
  OBVIOUS
<1>1. ASSUME NEW c \in Clients, NEW kind \in Kinds, Connect(c, kind) PROVE SentInv'
  BY <1>1, ConnectSent
<1>2. ASSUME NEW c \in Clients, ClientStep(c) \/ ClientStop(c) PROVE SentInv'
  <2>1. CASE ClientWrite(c)
    BY <2>1, WriteSent
  <2>2. CASE ClientReceive(c)
    BY <2>2, ReceiveSent
  <2>3. CASE ClientDone(c) \/ ClientStop(c)
    BY <2>3, LeaveSent DEF ClientDone, ClientStop
  <2>4. CASE ClientThrows(c)
    BY <2>4, ThrowSent
  <2> QED
    BY <1>2, <2>1, <2>2, <2>3, <2>4 DEF ClientStep
<1>3. CASE ServerStep
  BY <1>3, AcceptSent, ServerReceiveSent, RequestSent, ServerCloseSent, ServerWriteSent, DiesSent
  DEF ServerStep
<1>4. CASE ServerStart \/ UNCHANGED vars
  BY <1>4 DEF ServerStart, vars, SentInv, SentAhead, SentAll, RequestTaken, Connected, Mine, NotInSize, Length
<1> QED
  BY <1>1, <1>2, <1>3, <1>4 DEF Next

LEMMA SentInit == Init => SentInv
<1> SUFFICES ASSUME Init PROVE SentInv
  OBVIOUS
<1>1. Len(conns) = 0 /\ server.pc = "idle" /\ NotInSize(0)
  BY IdleType, AsioAssumption DEF Init, NotInSize
<1>2. \A c \in Clients : client[c].pc = "idle" /\ reply[c].sent = 0
  BY IdleType DEF Init, NoBytes
<1> QED
  BY <1>1, <1>2 DEF SentInv, SentAhead, SentAll, RequestTaken, Connected

\* A thread that waits for bytes finds them, unless the other end has sent
\* nothing that it has not received.
LEMMA CanReceive ==
  ASSUME NEW t \in Threads, NEW kind \in Kinds, NEW s, s.sent \in Nat, s.got \in Nat,
         Position(t, kind, s.got), t.pc \in Receiving, ~ HasMessage(t),
         s.got < s.sent, NotInSize(s.sent)
  PROVE  \E n \in Ready(s) : Received(t, kind, n) # {}
<1>1. CASE t.pc = "type"
  <2>1. 1 \in Ready(s) /\ Received(t, kind, 1) = {At("size")}
    BY <1>1 DEF Ready, Received
  <2> QED
    BY <2>1
<1>2. CASE t.pc = "size"
  <2>1. s.got = 1 /\ s.sent > SizeBytes /\ SizeBytes \in Nat /\ SizeBytes >= 1
    BY <1>2, AsioAssumption DEF Position, NotInSize
  <2>2. SizeBytes \in Ready(s)
    BY <2>1 DEF Ready
  <2>3. Received(t, kind, SizeBytes) = {[At("body") EXCEPT !.left = Body[kind]]}
    BY <1>2, <2>1 DEF Received
  <2> QED
    BY <2>2, <2>3
<1>3. CASE t.pc = "body"
  <2>1. t.left \in Nat /\ 1 <= t.left
    BY <1>3 DEF HasMessage, Threads
  <2>2. 1 \in Ready(s) /\ Received(t, kind, 1) = {[t EXCEPT !.left = @ - 1]}
    BY <1>3, <2>1 DEF Ready, Received
  <2> QED
    BY <2>2
<1> QED
  BY <1>1, <1>2, <1>3 DEF Receiving

\* A thread that writes into a socket that is empty has room for the next
\* bytes of its message.
LEMMA CanWrite ==
  ASSUME NEW kind \in Kinds, NEW s, s.sent \in Nat, s.got = s.sent,
         s.sent < Length(kind), NotInSize(s.sent)
  PROVE  \E n \in 1 .. Window : MayWrite(s, kind, n)
<1>1. /\ SizeBytes \in Nat /\ SizeBytes >= 1 /\ Window \in Nat /\ Window >= SizeBytes
      /\ Body[kind] \in Nat /\ Length(kind) = 1 + SizeBytes + Body[kind]
  BY AsioAssumption DEF Length
<1>2. CASE s.sent = 1
  <2>1. SizeBytes \in 1 .. Window /\ MayWrite(s, kind, SizeBytes)
    BY <1>1, <1>2 DEF MayWrite
  <2> QED
    BY <2>1
<1>3. CASE s.sent # 1
  <2>1. s.sent + 1 \notin 2 .. SizeBytes
    BY <1>1, <1>3 DEF NotInSize
  <2>2. 1 \in 1 .. Window /\ MayWrite(s, kind, 1)
    BY <1>1, <2>1 DEF MayWrite
  <2> QED
    BY <2>2
<1> QED
  BY <1>2, <1>3

\* A thread that still waits for bytes has not received its message.
LEMMA Wanting ==
  ASSUME NEW t \in Threads, NEW kind \in Kinds, NEW got \in Nat, Position(t, kind, got),
         t.pc \in Receiving, ~ HasMessage(t)
  PROVE  got < Length(kind)
BY LengthType DEF Position, Receiving, HasMessage, Threads

LEMMA PeerGoesOn ==
  ASSUME TypeInv, WholeInv, SentInv, server.pc # "idle", Peer.end = "open"
  PROVE  \/ GoesOn(server, Peer.kind, Peer, "File", reply[Peer.client])
         \/ GoesOn(client[Peer.client], "File", reply[Peer.client], Peer.kind, Peer)
<1>1. /\ Peer = conns[1] /\ Peer \in Conns /\ 1 \in 1 .. Len(conns)
      /\ Peer.client \in Clients /\ Peer.kind \in Kinds /\ "File" \in Kinds
      /\ Peer.sent \in Nat /\ Peer.got \in Nat
  BY PeerIsFirst, ConnTypes DEF TypeInv, Serving, Conns, Kinds
<1>2. PICK c \in Clients : c = Peer.client
  BY <1>1
<1>3. /\ server \in Threads /\ client[c] \in Threads
      /\ reply[c].sent \in Nat /\ reply[c].got \in Nat
  BY DEF TypeInv, TypeOK, Streams
<1>4. /\ client[c].pc # "idle" /\ reply[c].sent < Length("File")
      /\ Position(client[c], "File", reply[c].got) /\ reply[c].got <= reply[c].sent
      /\ Position(server, Peer.kind, Peer.got)
  BY <1>1, <1>2 DEF WholeInv, Attended, ClientAt, ServerAt
<1>5. /\ NotInSize(Peer.sent) /\ NotInSize(reply[c].sent) /\ Peer.got <= Peer.sent
      /\ client[c].pc = "send" => Peer.sent < Length(Peer.kind)
      /\ client[c].pc # "send" => Peer.sent = Length(Peer.kind)
      /\ server.pc = "send" => Peer.got = Length(Peer.kind)
  BY <1>1, <1>2 DEF SentInv, SentAhead, SentAll, RequestTaken
<1>6. CASE server.pc \in Receiving
  <2>1. CASE HasMessage(server)
    BY <2>1 DEF GoesOn
  <2>2. CASE ~ HasMessage(server) /\ Peer.got < Peer.sent
    BY <1>1, <1>3, <1>4, <1>5, <1>6, <2>2, CanReceive DEF GoesOn
  <2>3. CASE ~ HasMessage(server) /\ Peer.got = Peer.sent
    <3>1. Peer.sent < Length(Peer.kind)
      BY <1>1, <1>3, <1>4, <1>6, <2>3, Wanting
    <3>2. client[c].pc = "send"
      BY <1>5, <3>1, LengthType, <1>1
    <3> QED
      BY <1>1, <1>2, <1>5, <2>3, <3>1, <3>2, CanWrite DEF GoesOn
  <2> QED
    BY <1>1, <1>5, <2>1, <2>2, <2>3
<1>7. CASE server.pc = "send"
  <2>1. client[c].pc \in Receiving
    <3>1. client[c].pc # "send"
      BY <1>1, <1>5, <1>7, LengthType
    <3> QED
      BY <1>3, <1>4, <3>1 DEF Threads
  <2>2. CASE HasMessage(client[c])
    BY <1>2, <2>2 DEF GoesOn
  <2>3. CASE ~ HasMessage(client[c]) /\ reply[c].got < reply[c].sent
    BY <1>1, <1>2, <1>3, <1>4, <1>5, <2>1, <2>3, CanReceive DEF GoesOn
  <2>4. CASE reply[c].got = reply[c].sent
    BY <1>1, <1>2, <1>3, <1>4, <1>5, <1>7, <2>4, CanWrite DEF GoesOn
  <2> QED
    BY <1>3, <1>4, <2>2, <2>3, <2>4
<1> QED
  BY <1>3, <1>6, <1>7 DEF Threads

\* If sizes come in one piece, whatever the sizes of messages and windows, the
\* asio thread and the client that it serves never wait for each other, and a
\* client in a transfer is never forgotten.
THEOREM NeverBlocked == ~ Pieces => (Spec => []NeverBothBlocked)
<1> SUFFICES ASSUME ~ Pieces PROVE Spec => []NeverBothBlocked
  OBVIOUS
<1>1. TypeInv /\ WholeInv /\ SentInv => NeverBothBlocked
  BY PeerGoesOn DEF NeverBothBlocked, SentInv, Connected
<1> QED
  BY <1>1, WholeInit, SentInit, TypeStep, WholeStep, SentStep, PTL DEF Spec

-----------------------------------------------------------------------------
(***************************************************************************)
(* The connections as FileQueue sees them.                                 *)
(***************************************************************************)
Waiter(m) == IF m.kind = "FileMetadata" /\ m.end = "open" THEN m.client ELSE "nobody"
Waiters(q) == [i \in 1 .. Len(q) |-> Waiter(q[i])]
Answered == {c \in Clients : client[c].pc \in Receiving /\ reply[c].sent = Length("File")}

Same == Waiters(conns') = Waiters(conns) /\ Answered' = Answered

LEMMA QueueMapping ==
  /\ Queue!qvars = <<Waiters(conns), Answered>>
  /\ Queue!qvars' = <<Waiters(conns'), Answered'>>
BY DEF Queue!qvars, Waiters, Waiter, Answered, Length

LEMMA FunctionAsSeq ==
  ASSUME NEW S, NEW n \in Nat, NEW q \in [1 .. n -> S]
  PROVE  q \in Seq(S) /\ Len(q) = n
OBVIOUS

LEMMA SameSeq ==
  ASSUME NEW S, NEW s \in Seq(S), NEW t \in Seq(S), Len(s) = Len(t),
         \A i \in 1 .. Len(s) : s[i] = t[i]
  PROVE  s = t
OBVIOUS

LEMMA WaiterType == ASSUME NEW m \in Conns PROVE Waiter(m) \in Clients \cup {"nobody"}
BY DEF Waiter, Conns

LEMMA WaitersSeq ==
  ASSUME NEW q \in Seq(Conns)
  PROVE  /\ Waiters(q) \in Seq(Clients \cup {"nobody"})
         /\ Len(Waiters(q)) = Len(q) /\ Len(q) \in Nat
         /\ \A i \in 1 .. Len(q) : Waiters(q)[i] = Waiter(q[i])
<1>1. Len(q) \in Nat /\ \A i \in 1 .. Len(q) : q[i] \in Conns
  OBVIOUS
<1>2. Waiters(q) \in [1 .. Len(q) -> Clients \cup {"nobody"}]
  BY <1>1, WaiterType DEF Waiters
<1>3. \A i \in 1 .. Len(q) : Waiters(q)[i] = Waiter(q[i])
  BY DEF Waiters
<1> QED
  BY <1>1, <1>2, <1>3, FunctionAsSeq

LEMMA WaitersAppend ==
  ASSUME NEW q \in Seq(Conns), NEW m \in Conns
  PROVE  Waiters(Append(q, m)) = Append(Waiters(q), Waiter(m))
<1>1. /\ Append(q, m) \in Seq(Conns) /\ Len(Append(q, m)) = Len(q) + 1
      /\ \A i \in 1 .. Len(q) : Append(q, m)[i] = q[i]
      /\ Append(q, m)[Len(q) + 1] = m
  BY Appended
<1>2. Waiter(m) \in Clients \cup {"nobody"}
  BY WaiterType
<1>3. /\ Append(Waiters(q), Waiter(m)) \in Seq(Clients \cup {"nobody"})
      /\ Len(Append(Waiters(q), Waiter(m))) = Len(q) + 1
      /\ \A i \in 1 .. Len(q) : Append(Waiters(q), Waiter(m))[i] = Waiter(q[i])
      /\ Append(Waiters(q), Waiter(m))[Len(q) + 1] = Waiter(m)
  BY <1>2, WaitersSeq, Appended
<1>4. /\ Waiters(Append(q, m)) \in Seq(Clients \cup {"nobody"})
      /\ Len(Waiters(Append(q, m))) = Len(q) + 1
      /\ \A i \in 1 .. Len(q) + 1 : Waiters(Append(q, m))[i] = Waiter(Append(q, m)[i])
  BY <1>1, WaitersSeq
<1>5. \A i \in 1 .. Len(q) + 1 : i \in 1 .. Len(q) \/ i = Len(q) + 1
  BY WaitersSeq
<1>6. \A i \in 1 .. Len(q) + 1 : Waiters(Append(q, m))[i] = Append(Waiters(q), Waiter(m))[i]
  BY <1>1, <1>3, <1>4, <1>5
<1> QED
  BY <1>3, <1>4, <1>6, SameSeq

LEMMA WaitersTail ==
  ASSUME NEW q \in Seq(Conns), q # <<>>
  PROVE  /\ Waiters(Tail(q)) = Tail(Waiters(q))
         /\ Waiters(q) # <<>>
         /\ Head(Waiters(q)) = Waiter(Head(q))
<1>1. /\ Tail(q) \in Seq(Conns) /\ Len(q) \in Nat /\ Len(q) >= 1 /\ Head(q) = q[1]
      /\ Len(Tail(q)) = Len(q) - 1
      /\ \A i \in 1 .. Len(q) - 1 : Tail(q)[i] = q[i + 1]
  BY Removed
<1>2. /\ Waiters(q) \in Seq(Clients \cup {"nobody"}) /\ Len(Waiters(q)) = Len(q)
      /\ \A i \in 1 .. Len(q) : Waiters(q)[i] = Waiter(q[i])
  BY WaitersSeq
<1>3. Waiters(q) # <<>>
  BY <1>1, <1>2
<1>4. /\ Tail(Waiters(q)) \in Seq(Clients \cup {"nobody"})
      /\ Head(Waiters(q)) = Waiters(q)[1]
      /\ Len(Tail(Waiters(q))) = Len(q) - 1
      /\ \A i \in 1 .. Len(q) - 1 : Tail(Waiters(q))[i] = Waiter(q[i + 1])
  BY <1>1, <1>2, <1>3, Removed
<1>5. /\ Waiters(Tail(q)) \in Seq(Clients \cup {"nobody"}) /\ Len(Waiters(Tail(q))) = Len(Tail(q))
      /\ \A i \in 1 .. Len(Tail(q)) : Waiters(Tail(q))[i] = Waiter(Tail(q)[i])
  BY <1>1, WaitersSeq
<1>6. Waiters(Tail(q)) = Tail(Waiters(q))
  BY <1>1, <1>4, <1>5, SameSeq
<1> QED
  BY <1>1, <1>2, <1>3, <1>4, <1>6

\* Bytes that move on a connection are not seen.
LEMMA WaitersSame ==
  ASSUME NEW q \in Seq(Conns), NEW r \in Seq(Conns), Len(r) = Len(q),
         \A i \in 1 .. Len(q) :
           /\ r[i].kind = q[i].kind /\ r[i].client = q[i].client
           /\ r[i].kind = "FileMetadata" => r[i].end = q[i].end
  PROVE  Waiters(r) = Waiters(q)
BY DEF Waiters, Waiter

LEMMA ConnectQueue ==
  ASSUME TypeInv, WholeInv, NEW c \in Clients, NEW kind \in Kinds, Connect(c, kind)
  PROVE  Queue!Upload \/ Queue!Request(c)
<1> DEFINE m == [client |-> c, kind |-> kind, sent |-> 0, got |-> 0, end |-> "open"]
<1>1. /\ conns \in Seq(Conns) /\ m \in Conns
      /\ Waiter(m) = IF kind = "FileMetadata" THEN c ELSE "nobody"
  BY DEF TypeInv, TypeOK, Conns, Waiter
<1>2. conns' = Append(conns, m)
  BY DEF Connect
<1> HIDE DEF m
<1>3. Waiters(conns') = Append(Waiters(conns), Waiter(m))
  BY <1>1, <1>2, WaitersAppend
<1>4. /\ client[c].pc = "idle" /\ client'[c].pc = "send"
      /\ \A b \in Clients : b # c => client'[b] = client[b] /\ reply'[b] = reply[b]
  BY IdleType, ThreadPositions DEF Connect, TypeInv, TypeOK
<1>5. Answered' = Answered /\ c \notin Answered
  BY <1>4 DEF Answered, Receiving, Length
<1>6. \A i \in 1 .. Len(Waiters(conns)) : Waiters(conns)[i] # c
  <2>1. \A i \in 1 .. Len(conns) : conns[i].end = "open" => conns[i].client # c
    BY <1>4 DEF WholeInv, Attended
  <2> QED
    BY <1>1, <2>1, WaitersSeq, AsioAssumption DEF Waiter
<1> QED
  BY <1>1, <1>3, <1>5, <1>6 DEF Queue!Upload, Queue!Request, Waiters, Waiter, Answered, Length

LEMMA WriteQueue ==
  ASSUME TypeInv, WholeInv, NEW c \in Clients, ClientWrite(c)
  PROVE  Same
<1>1. PICK i \in 1 .. Len(conns), n \in 1 .. Window : Writes(c, i, n)
  BY ClientWrites
<1>2. /\ client[c].pc = "send" /\ Mine(c, i) /\ reply' = reply
      /\ \A b \in Clients : b # c => client'[b] = client[b]
  BY <1>1 DEF Writes
<1>3. /\ Len(conns') = Len(conns)
      /\ \A j \in 1 .. Len(conns) :
           /\ conns'[j].kind = conns[j].kind /\ conns'[j].client = conns[j].client
           /\ conns'[j].kind = "FileMetadata" => conns'[j].end = conns[j].end
  BY <1>1 DEF Writes, Mine
<1>4. conns \in Seq(Conns) /\ conns' \in Seq(Conns)
  BY TypeStep DEF TypeInv, TypeOK, Next, ClientStep
<1>5. reply[c].sent < Length("File")
  BY <1>2 DEF Mine, WholeInv, Attended
<1>6. reply[c].sent # Length("File")
  BY <1>5, LengthType DEF TypeInv, TypeOK, Streams, Kinds
<1>7. Answered' = Answered
  BY <1>2, <1>6 DEF Answered, Length
<1> QED
  BY <1>3, <1>4, <1>7, WaitersSame DEF Same

LEMMA ReceiveQueue ==
  ASSUME TypeInv, NEW c \in Clients, ClientReceive(c)
  PROVE  Same
<1>1. PICK n \in Ready(reply[c]) : Receives(c, n)
  BY ClientReceives
<1> QED
  BY <1>1 DEF Receives, Same, Answered, Length

\* A client that throws has not been answered.
LEMMA ThrowQueue ==
  ASSUME TypeInv, WholeInv, NEW c \in Clients, ClientThrows(c)
  PROVE  Same
<1>1. /\ client' = [client EXCEPT ![c] = Idle] /\ UNCHANGED <<conns, reply>>
      /\ client[c].pc = "send" \/ EndOfFile(client[c], reply[c])
  BY DEF ClientThrows
<1>2. client[c] \in Threads /\ reply[c].got \in Nat /\ "File" \in Kinds
  BY DEF TypeInv, TypeOK, Streams, Kinds
<1>3. client[c].pc \in Receiving => reply[c].sent # Length("File")
  <2> SUFFICES ASSUME client[c].pc \in Receiving PROVE reply[c].sent # Length("File")
    OBVIOUS
  <2>1. ~ HasMessage(client[c]) /\ reply[c].sent = reply[c].got
    BY <1>1 DEF EndOfFile, Receiving
  <2>2. reply[c].got < Length("File")
    BY <1>2, <2>1, Wanting DEF WholeInv, ClientAt
  <2> QED
    BY <1>2, <2>1, <2>2, LengthType
<1>4. /\ client'[c].pc = "idle"
      /\ \A b \in Clients : b # c => client'[b] = client[b]
  BY <1>1, IdleType DEF TypeInv, TypeOK
<1>5. Answered' = Answered
  BY <1>1, <1>3, <1>4 DEF Answered, Receiving, Length
<1> QED
  BY <1>1, <1>5 DEF Same

LEMMA DoneQueue ==
  ASSUME TypeInv, WholeInv, NEW c \in Clients, ClientDone(c)
  PROVE  Queue!Collect(c)
<1>1. /\ HasMessage(client[c]) /\ Leave(c, "closed") /\ reply' = reply
      /\ client' = [client EXCEPT ![c] = Idle]
  BY DEF ClientDone
<1>2. reply[c].got = Length("File") /\ \A i \in 1 .. Len(conns) : ~ Mine(c, i)
  BY <1>1, AnsweredClosed
<1>3. c \in Answered
  <2>1. reply[c].got <= reply[c].sent /\ reply[c].sent <= Length("File")
    BY DEF WholeInv, ClientAt
  <2>2. reply[c].sent \in Nat /\ Length("File") \in Nat
    BY LengthType DEF TypeInv, TypeOK, Streams, Kinds
  <2> QED
    BY <1>1, <1>2, <2>1, <2>2 DEF Answered, HasMessage, Receiving
<1>4. /\ client'[c].pc = "idle"
      /\ \A b \in Clients : b # c => client'[b] = client[b]
  BY <1>1, IdleType DEF TypeInv, TypeOK
<1>5. Answered' = Answered \ {c}
  BY <1>1, <1>4 DEF Answered, Receiving, Length
<1>6. Waiters(conns') = Waiters(conns)
  <2>1. conns \in Seq(Conns) /\ conns' \in Seq(Conns)
    BY <1>1, LeaveEffect DEF TypeInv, TypeOK
  <2> QED
    BY <1>1, <1>2, <2>1, LeaveFields, WaitersSame
<1> QED
  BY <1>3, <1>5, <1>6 DEF Queue!Collect, Waiters, Waiter, Answered, Length

LEMMA StopQueue ==
  ASSUME TypeInv, NEW c \in Clients, ClientStop(c)
  PROVE  Queue!Stop(c)
<1>1. /\ Leave(c, "stopped") /\ reply' = reply /\ client' = [client EXCEPT ![c] = Idle]
  BY DEF ClientStop
<1>2. /\ Len(conns') = Len(conns) /\ Len(conns) \in Nat
      /\ \A i \in 1 .. Len(conns) :
           /\ conns'[i].kind = conns[i].kind /\ conns'[i].client = conns[i].client
           /\ conns'[i].end = IF Mine(c, i) THEN "stopped" ELSE conns[i].end
  BY <1>1, LeaveFields
<1>3. /\ client'[c].pc = "idle"
      /\ \A b \in Clients : b # c => client'[b] = client[b]
  BY <1>1, IdleType DEF TypeInv, TypeOK
<1>4. Answered' = Answered \ {c}
  BY <1>1, <1>3 DEF Answered, Receiving, Length
<1>5. conns \in Seq(Conns) /\ conns' \in Seq(Conns)
  BY <1>1, LeaveEffect DEF TypeInv, TypeOK
<1>6. \A i \in 1 .. Len(conns) :
        Waiter(conns'[i]) = IF Waiter(conns[i]) = c THEN "nobody" ELSE Waiter(conns[i])
  BY <1>2, AsioAssumption DEF Waiter, Mine
<1>7. Waiters(conns') = [i \in 1 .. Len(Waiters(conns)) |->
                           IF Waiters(conns)[i] = c THEN "nobody" ELSE Waiters(conns)[i]]
  <2>1. /\ Len(Waiters(conns)) = Len(conns)
        /\ \A i \in 1 .. Len(conns) : Waiters(conns)[i] = Waiter(conns[i])
    BY <1>5, WaitersSeq
  <2>2. Waiters(conns') = [i \in 1 .. Len(conns) |-> Waiter(conns'[i])]
    BY <1>2 DEF Waiters
  <2> QED
    BY <1>6, <2>1, <2>2
<1> QED
  BY <1>4, <1>7 DEF Queue!Stop, Waiters, Waiter, Answered, Length

LEMMA ServerReceiveQueue == TypeInv /\ ServerReceive => Same
<1> SUFFICES ASSUME TypeInv, ServerReceive PROVE Same
  OBVIOUS
<1>1. PICK n \in Ready(conns[1]) : Takes(n)
  BY ServerReceives
<1>2. /\ Len(conns') = Len(conns)
      /\ \A j \in 1 .. Len(conns) :
           /\ conns'[j].kind = conns[j].kind /\ conns'[j].client = conns[j].client
           /\ conns'[j].end = conns[j].end
  BY <1>1 DEF Takes
<1>3. conns \in Seq(Conns) /\ conns' \in Seq(Conns)
  BY TypeStep DEF TypeInv, TypeOK, Next, ServerStep
<1> QED
  BY <1>2, <1>3, WaitersSame DEF ServerReceive, Same, Answered, Length

\* The message that is served is the first one.
LEMMA CloseQueue ==
  ASSUME TypeInv, server.pc # "idle", ServerClose
  PROVE  /\ Waiters(conns) # <<>> /\ Head(Waiters(conns)) = Waiter(conns[1])
         /\ Waiters(conns') = Tail(Waiters(conns))
<1>1. conns \in Seq(Conns) /\ conns # <<>> /\ conns' = Tail(conns)
  BY DEF TypeInv, TypeOK, Serving, ServerClose
<1>2. Head(conns) = conns[1]
  BY <1>1, Removed
<1> QED
  BY <1>1, <1>2, WaitersTail

LEMMA ServeQueue ==
  ASSUME TypeInv, ServeFile \/ ServerWriteUnread
  PROVE  Queue!Serve
<1>1. /\ server.pc # "idle" /\ ServerClose /\ UNCHANGED <<client, reply>>
      /\ Peer.kind = "File" \/ Peer.end # "open"
  BY DEF ServeFile, ServerWriteUnread, HasMessage
<1>2. Waiter(conns[1]) = "nobody"
  BY <1>1, PeerIsFirst DEF Waiter
<1>3. Answered' = Answered
  BY <1>1 DEF Answered, Length
<1>4. /\ Waiters(conns) # <<>> /\ Head(Waiters(conns)) = "nobody"
      /\ Waiters(conns') = Tail(Waiters(conns))
  BY <1>1, <1>2, CloseQueue
<1> QED
  BY <1>3, <1>4 DEF Queue!Serve, Waiters, Waiter, Answered, Length

\* The last byte of the answer goes to a client that receives.
LEMMA AnswerQueue ==
  ASSUME TypeInv, WholeInv, SentInv, ServerWrite
  PROVE  Queue!Serve \/ Same
<1>1. PICK p \in Clients, n \in 1 .. Window : Answers(p, n)
  BY ServerWrites
<1>2. /\ server.pc = "send" /\ Mine(p, 1) /\ client' = client /\ 1 \in 1 .. Len(conns)
      /\ reply'[p].sent = reply[p].sent + n
      /\ \A b \in Clients : b # p => reply'[b] = reply[b]
  BY <1>1 DEF Answers
<1>3. /\ client[p].pc # "idle" /\ reply[p].sent < Length("File")
      /\ conns[1].kind = "FileMetadata"
  BY <1>2 DEF Mine, WholeInv, Attended, ServerAt
<1>4. client[p].pc \in Receiving
  <2>1. conns[1].got = Length(conns[1].kind) /\ conns[1].got <= conns[1].sent
    BY <1>2 DEF SentInv, SentAhead, RequestTaken
  <2>2. conns[1].sent \in Nat /\ Length(conns[1].kind) \in Nat
    BY <1>2, ConnTypes, LengthType DEF TypeInv
  <2>3. client[p].pc # "send"
    BY <1>2, <2>1, <2>2 DEF Mine, SentInv, SentAll
  <2> QED
    BY <1>3, <2>3 DEF TypeInv, TypeOK, Threads
<1>5. reply[p].sent # Length("File")
  BY <1>3, LengthType DEF TypeInv, TypeOK, Streams, Kinds
<1>6. CASE reply[p].sent + n = Length("File")
  <2>1. ServerClose
    BY <1>1, <1>6 DEF Answers
  <2>2. Waiter(conns[1]) = p
    BY <1>2, <1>3 DEF Waiter, Mine
  <2>3. Answered' = Answered \cup ({p} \ {"nobody"})
    BY <1>2, <1>4, <1>6, AsioAssumption DEF Answered, Length
  <2>4. /\ Waiters(conns) # <<>> /\ Head(Waiters(conns)) = p
        /\ Waiters(conns') = Tail(Waiters(conns))
    BY <1>2, <2>1, <2>2, CloseQueue
  <2> QED
    BY <2>3, <2>4 DEF Queue!Serve, Waiters, Waiter, Answered, Length
<1>7. CASE reply[p].sent + n # Length("File")
  <2>1. conns' = conns
    BY <1>1, <1>7 DEF Answers
  <2>2. Answered' = Answered
    BY <1>2, <1>5, <1>7 DEF Answered, Length
  <2> QED
    BY <2>1, <2>2 DEF Same
<1> QED
  BY <1>6, <1>7

LEMMA DiesQueue == ServerDies => Queue!Crash
<1> SUFFICES ASSUME ServerDies PROVE Queue!Crash
  OBVIOUS
<1>1. Waiters(conns') = <<>> /\ Answered' = Answered
  BY DEF ServerDies, Waiters, Answered, Length
<1> QED
  BY <1>1 DEF Queue!Crash, Waiters, Waiter, Answered, Length

LEMMA QueueInit == Init => Queue!Init
BY IdleType DEF Init, Queue!Init, Receiving

LEMMA QueueStep ==
  TypeInv /\ WholeInv /\ SentInv /\ [Next]_vars => [Queue!Next]_(Queue!qvars)
<1> SUFFICES ASSUME TypeInv, WholeInv, SentInv, [Next]_vars PROVE Queue!Next \/ Same
  BY QueueMapping DEF Same
<1>1. ASSUME NEW c \in Clients, NEW kind \in Kinds, Connect(c, kind) PROVE Queue!Next
  BY <1>1, ConnectQueue DEF Queue!Next
<1>2. ASSUME NEW c \in Clients, ClientStep(c) PROVE Queue!Next \/ Same
  BY <1>2, WriteQueue, ReceiveQueue, DoneQueue, ThrowQueue DEF ClientStep, Queue!Next
<1>3. ASSUME NEW c \in Clients, ClientStop(c) PROVE Queue!Next
  BY <1>3, StopQueue DEF Queue!Next
<1>4. CASE ServerReceive
  BY <1>4, ServerReceiveQueue
<1>5. CASE ServeFile \/ ServerWriteUnread \/ ServerWrite
  BY <1>5, ServeQueue, AnswerQueue DEF Queue!Next
<1>6. CASE ServerDies
  BY <1>6, DiesQueue DEF Queue!Next
<1>7. CASE Accept \/ ServeRequest \/ ServerStart \/ UNCHANGED vars
  BY <1>7 DEF Accept, ServeRequest, ServerStart, vars, Same, Answered, Length
<1> QED
  BY <1>1, <1>2, <1>3, <1>4, <1>5, <1>6, <1>7 DEF Next, ServerStep

\* If sizes come in one piece, the threads and sockets that move bytes do what
\* FileQueue promises: whole messages are served in the order of their
\* connections, a request is answered once, to the client that still waits for
\* it, and only an end of the asio thread loses what was queued.
THEOREM BytesServeInOrder == ~ Pieces => (Spec => QueueInOrder)
<1> SUFFICES ASSUME ~ Pieces PROVE Spec => QueueInOrder
  OBVIOUS
<1>1. TypeInv /\ WholeInv /\ SentInv /\ [Next]_vars => [Queue!Next]_(Queue!qvars)
  BY QueueStep
<1> QED
  BY <1>1, QueueInit, WholeInit, SentInit, TypeStep, WholeStep, SentStep, PTL
  DEF Spec, QueueInOrder, Queue!Safety

=============================================================================
