--------------------------- MODULE DiSy_delivery ---------------------------
(***************************************************************************)
(* What goes over the connections of the asio thread: requests are         *)
(* answered once and served in order, and uploads find the directories     *)
(* they need.                                                              *)
(***************************************************************************)
EXTENDS DiSy_types

-----------------------------------------------------------------------------
(***************************************************************************)
(* Requests and their answers.                                             *)
(***************************************************************************)
\* The asio thread and the sockets are left alone, and so is every client that
\* waits for a file.
Quiet ==
  /\ UNCHANGED <<conns, reply>>
  /\ \A b \in Clients :
       /\ pc'[b] = "fetch" <=> pc[b] = "fetch"
       /\ pc[b] = "fetch" => cur'[b] = cur[b]

LEMMA QuietKeepsAnswers == OneAnswer /\ Quiet => OneAnswer'
BY DEF OneAnswer, AnswerDue, Quiet, Requests

LEMMA AppendIndices ==
  ASSUME NEW S, NEW s \in Seq(S), NEW m \in S
  PROVE  /\ Append(s, m) \in Seq(S)
         /\ Len(Append(s, m)) = Len(s) + 1
         /\ \A i \in 1 .. Len(s) : Append(s, m)[i] = s[i]
         /\ Append(s, m)[Len(s) + 1] = m
OBVIOUS

LEMMA TailIndices ==
  ASSUME NEW S, NEW s \in Seq(S), s # <<>>
  PROVE  /\ Tail(s) \in Seq(S)
         /\ Len(s) \in Nat /\ Len(s) >= 1
         /\ Head(s) = s[1]
         /\ Len(Tail(s)) = Len(s) - 1
         /\ \A i \in 1 .. Len(s) - 1 : Tail(s)[i] = s[i + 1]
OBVIOUS

LEMMA UserQuiet == ASSUME TypeInv, NEW c \in Clients, UserStep(c) PROVE Quiet
BY DEF UserStep, EditFile, BeginSave, EndSave, NewDirectory, Quiet, clientVars, asioVars

LEMMA CrawlQuiet == ASSUME TypeInv, NEW c \in Clients, CrawlStep(c) PROVE Quiet
BY DEF CrawlStep, BeginCrawl, Visit, HashFile, Quiet, asioVars, TypeInv, TypeOK

LEMMA UpdateQuiet == ASSUME TypeInv, NEW c \in Clients, UpdateStep(c) \/ UpdateLost(c) PROVE Quiet
<1>1. CASE ProcessUpdate(c)
  BY <1>1, ProcessUpdateEffect DEF UpdateSteps, Quiet
<1>2. CASE CallUpdate(c) \/ UpdateRefused(c) \/ UpdateLost(c)
  BY <1>2 DEF CallUpdate, CrawlDone, UpdateRefused, UpdateLost, EndRound, UpdateSteps, Quiet,
              asioVars, TypeInv, TypeOK
<1> QED
  BY <1>1, <1>2 DEF UpdateStep

LEMMA DirectoryQuiet ==
  ASSUME TypeInv, NEW c \in Clients, NEW d \in Dirs,
         \/ SendDirectory(c, d) \/ SendDirectoryFails(c, d)
         \/ DownloadDirectory(c, d) \/ DownloadDirectoryFails(c, d)
  PROVE  Quiet
BY DEF SendDirectory, SendDirectoryFails, UpDirsLeft, DownloadDirectory,
       DownloadDirectoryFails, Quiet, asioVars, TypeInv, TypeOK

LEMMA IndexQuiet == ASSUME TypeInv, NEW c \in Clients, IndexDirectory(c) PROVE Quiet
BY DEF IndexDirectory, Quiet, asioVars, TypeInv, TypeOK

LEMMA EndQuiet ==
  ASSUME TypeInv, NEW c \in Clients, RoundDone(c) \/ ConnectFails(c)
  PROVE  Quiet
BY DEF RoundDone, ConnectFails, EndRound, UpFilesLeft, DownFilesLeft, DirsDone, Quiet,
       asioVars, TypeInv, TypeOK

LEMMA OthersQuiet == TypeInv /\ (Tick \/ WriteFile \/ ServerStart \/ UNCHANGED vars) => Quiet
BY DEF Tick, WriteFile, ServerStart, vars, Quiet, clientVars, asioVars

LEMMA UploadAnswers ==
  ASSUME TypeInv, OneAnswer, NEW c \in Clients, NEW f \in Files, UploadFile(c, f)
  PROVE  OneAnswer'
<1> DEFINE m == [type |-> "File", file |-> f, metadata |-> tree[c].files[f], data |-> Read(c, f)]
<1>1. conns \in Seq(FileMsgs \cup MetadataMsgs) /\ m \in FileMsgs \cup MetadataMsgs
  BY ReadType, Replica, TreeFields, TodoFields
  DEF UploadFile, UpFilesLeft, UploadsListed, FileMsgs, TypeInv, TypeOK
<1>2. conns' = Append(conns, m) /\ UNCHANGED <<pc, cur, reply>>
  BY DEF UploadFile
<1>3. m.type = "File"
  OBVIOUS
<1> HIDE DEF m
<1>4. /\ Len(conns') = Len(conns) + 1 /\ Len(conns) \in Nat
      /\ \A i \in 1 .. Len(conns) : conns'[i] = conns[i]
      /\ conns'[Len(conns) + 1].type = "File"
  BY <1>1, <1>2, <1>3, AppendIndices
<1>5. \A b \in Clients : Requests(b)' = Requests(b)
  BY <1>4 DEF Requests
<1>6. \A b \in Clients : \A i \in Requests(b) : conns'[i] = conns[i]
  BY <1>4 DEF Requests
<1> QED
  BY <1>2, <1>5, <1>6 DEF OneAnswer, AnswerDue

LEMMA RequestAnswers ==
  ASSUME TypeInv, OneAnswer, NEW c \in Clients, NEW f \in Files, RequestFile(c, f)
  PROVE  OneAnswer'
<1> DEFINE m == [type |-> "FileMetadata", file |-> f, client |-> c]
<1>1. conns \in Seq(FileMsgs \cup MetadataMsgs) /\ m \in FileMsgs \cup MetadataMsgs
  BY DEF MetadataMsgs, TypeInv, TypeOK
<1>2. /\ conns' = Append(conns, m)
      /\ pc[c] = "transfer"
      /\ pc' = [pc EXCEPT ![c] = "fetch"]
      /\ cur' = [cur EXCEPT ![c] = f]
      /\ UNCHANGED reply
  BY DEF RequestFile, DownFilesLeft, DirsDone
<1>3. m.type = "FileMetadata" /\ m.client = c /\ m.file = f
  OBVIOUS
<1> HIDE DEF m
<1>4. /\ Len(conns') = Len(conns) + 1 /\ Len(conns) \in Nat
      /\ \A i \in 1 .. Len(conns) : conns'[i] = conns[i]
      /\ conns'[Len(conns) + 1] = m
  BY <1>1, <1>2, AppendIndices
<1>5. \A b \in Clients : b # c => Requests(b)' = Requests(b)
  BY <1>3, <1>4 DEF Requests
<1>6. \A b \in Clients : \A i \in Requests(b) : conns'[i] = conns[i]
  BY <1>4 DEF Requests
<1>7. Requests(c) = {} /\ reply[c] = None
  BY <1>2 DEF OneAnswer, AnswerDue
<1>8. Requests(c)' = {Len(conns) + 1}
  BY <1>3, <1>4, <1>7 DEF Requests
<1>9. \A b \in Clients : b # c => pc'[b] = pc[b] /\ cur'[b] = cur[b]
  BY <1>2 DEF TypeInv, TypeOK
<1>10. pc'[c] = "fetch" /\ cur'[c] = f
  BY <1>2 DEF TypeInv, TypeOK
<1>11. AnswerDue(c)'
  BY <1>2, <1>3, <1>4, <1>7, <1>8, <1>10 DEF AnswerDue
<1>12. ASSUME NEW b \in Clients, b # c PROVE AnswerDue(b)'
  BY <1>2, <1>5, <1>6, <1>9, <1>12 DEF AnswerDue, OneAnswer
<1> QED
  BY <1>11, <1>12 DEF OneAnswer

LEMMA ReceiveAnswers ==
  ASSUME TypeInv, OneAnswer, NEW c \in Clients, ReceiveFile(c)
  PROVE  OneAnswer'
<1>1. /\ pc[c] = "fetch" /\ reply[c] # None
      /\ pc'[c] = "transfer" /\ reply'[c] = None
      /\ UNCHANGED conns
      /\ \A b \in Clients : b # c => pc'[b] = pc[b] /\ cur'[b] = cur[b] /\ reply'[b] = reply[b]
  BY DEF ReceiveFile, TypeInv, TypeOK
<1>2. \A b \in Clients : Requests(b)' = Requests(b)
  BY <1>1 DEF Requests
<1> QED
  BY <1>1, <1>2 DEF OneAnswer, AnswerDue

\* Taking the first connection moves the others up by one.
LEMMA TakeFirst ==
  ASSUME TypeInv, conns # <<>>, conns' = Tail(conns), NEW b \in Clients
  PROVE  /\ \A i \in Requests(b) : i # 1 => i - 1 \in Requests(b)' /\ conns'[i - 1] = conns[i]
         /\ \A i \in Requests(b)' : i + 1 \in Requests(b) /\ i \in Nat /\ i >= 1 /\ conns'[i] = conns[i + 1]
         /\ Requests(b) \subseteq Nat
<1>1. conns \in Seq(FileMsgs \cup MetadataMsgs)
  BY DEF TypeInv, TypeOK
<1>2. /\ Len(conns) \in Nat /\ Len(conns) >= 1
      /\ Len(conns') = Len(conns) - 1
      /\ \A i \in 1 .. Len(conns) - 1 : conns'[i] = conns[i + 1]
  BY <1>1, TailIndices
<1> QED
  BY <1>2 DEF Requests

LEMMA AcceptFileAnswers == TypeInv /\ OneAnswer /\ AcceptFile => OneAnswer'
<1> SUFFICES ASSUME TypeInv, OneAnswer, AcceptFile PROVE OneAnswer'
  OBVIOUS
<1>1. /\ conns # <<>> /\ conns' = Tail(conns) /\ Head(conns).type = "File"
      /\ UNCHANGED <<pc, cur, reply>>
  BY DEF AcceptFile, NextConn, clientVars
<1>2. Head(conns) = conns[1]
  BY <1>1, TailIndices DEF TypeInv, TypeOK
<1>3. \A b \in Clients : 1 \notin Requests(b)
  BY <1>1, <1>2 DEF Requests
<1>4. ASSUME NEW b \in Clients, Requests(b) = {} PROVE Requests(b)' = {}
  BY <1>1, <1>4, TakeFirst
<1>5. ASSUME NEW b \in Clients, NEW i \in Requests(b), Requests(b) = {i}
      PROVE  i - 1 \in Requests(b)' /\ Requests(b)' = {i - 1} /\ conns'[i - 1] = conns[i]
  <2>1. i # 1 /\ i \in Nat
    BY <1>1, <1>3, TakeFirst
  <2>2. i - 1 \in Requests(b)' /\ conns'[i - 1] = conns[i]
    BY <1>1, <2>1, TakeFirst
  <2>3. \A j \in Requests(b)' : j \in Nat /\ j + 1 = i
    BY <1>1, <1>5, TakeFirst
  <2> QED
    BY <2>1, <2>2, <2>3
<1>6. ASSUME NEW b \in Clients PROVE AnswerDue(b)'
  <2>1. CASE pc[b] = "fetch" /\ reply[b] = None
    <3>1. PICK i \in Requests(b) : Requests(b) = {i} /\ conns[i].file = cur[b]
      BY <2>1 DEF OneAnswer, AnswerDue
    <3>2. i - 1 \in Requests(b)' /\ Requests(b)' = {i - 1} /\ conns'[i - 1].file = cur'[b]
      BY <1>1, <1>5, <3>1
    <3> QED
      BY <1>1, <2>1, <3>2 DEF AnswerDue
  <2>2. CASE ~ (pc[b] = "fetch" /\ reply[b] = None)
    BY <1>1, <1>4, <2>2 DEF OneAnswer, AnswerDue
  <2> QED
    BY <2>1, <2>2
<1> QED
  BY <1>6 DEF OneAnswer

LEMMA AcceptRequestAnswers == TypeInv /\ OneAnswer /\ AcceptRequest => OneAnswer'
<1> SUFFICES ASSUME TypeInv, OneAnswer, AcceptRequest PROVE OneAnswer'
  OBVIOUS
<1>1. /\ conns # <<>> /\ conns' = Tail(conns)
      /\ Head(conns).type = "FileMetadata"
      /\ reply' = [reply EXCEPT ![Head(conns).client] = Read(Server, Head(conns).file)]
      /\ UNCHANGED <<pc, cur>>
  BY DEF AcceptRequest, NextConn, clientVars
<1>2. Head(conns) = conns[1] /\ Head(conns) \in MetadataMsgs /\ Len(conns) \in Nat /\ Len(conns) >= 1
  BY <1>1, TailIndices DEF TypeInv, TypeOK, FileMsgs, MetadataMsgs
<1>3. PICK c \in Clients : conns[1].client = c /\ conns[1].file \in Files
  BY <1>2 DEF MetadataMsgs
<1>4. 1 \in Requests(c) /\ \A b \in Clients : b # c => 1 \notin Requests(b)
  BY <1>1, <1>2, <1>3 DEF Requests
<1>5. pc[c] = "fetch" /\ Requests(c) = {1}
  BY <1>3, <1>4 DEF OneAnswer, AnswerDue
<1>6. Requests(c)' = {}
  <2>1. \A i \in Requests(c)' : i + 1 = 1 /\ i \in Nat /\ i >= 1
    BY <1>1, <1>3, <1>5, TakeFirst
  <2> QED
    BY <2>1
<1>7. reply'[c] # None
  BY <1>1, <1>2, <1>3, ReadType, Replica, DiSyAssumption DEF TypeInv, TypeOK
<1>8. AnswerDue(c)'
  BY <1>1, <1>3, <1>5, <1>6, <1>7 DEF AnswerDue
<1>9. ASSUME NEW b \in Clients, b # c PROVE AnswerDue(b)'
  <2>1. pc'[b] = pc[b] /\ cur'[b] = cur[b] /\ reply'[b] = reply[b]
    BY <1>1, <1>2, <1>3, <1>9 DEF TypeInv, TypeOK
  <2>2. Requests(b) = {} => Requests(b)' = {}
    BY <1>1, TakeFirst
  <2>3. ASSUME NEW i \in Requests(b), Requests(b) = {i}
        PROVE  i - 1 \in Requests(b)' /\ Requests(b)' = {i - 1} /\ conns'[i - 1] = conns[i]
    <3>1. i # 1 /\ i \in Nat
      BY <1>1, <1>4, <1>9, TakeFirst
    <3>2. i - 1 \in Requests(b)' /\ conns'[i - 1] = conns[i]
      BY <1>1, <3>1, TakeFirst
    <3>3. \A j \in Requests(b)' : j \in Nat /\ j + 1 = i
      BY <1>1, <2>3, TakeFirst
    <3> QED
      BY <3>1, <3>2, <3>3
  <2>4. CASE pc[b] = "fetch" /\ reply[b] = None
    <3>1. PICK i \in Requests(b) : Requests(b) = {i} /\ conns[i].file = cur[b]
      BY <2>4 DEF OneAnswer, AnswerDue
    <3>2. i - 1 \in Requests(b)' /\ Requests(b)' = {i - 1} /\ conns'[i - 1].file = cur'[b]
      BY <2>1, <2>3, <3>1
    <3> QED
      BY <2>1, <2>4, <3>2 DEF AnswerDue
  <2>5. CASE ~ (pc[b] = "fetch" /\ reply[b] = None)
    BY <2>1, <2>2, <2>5 DEF OneAnswer, AnswerDue
  <2> QED
    BY <2>4, <2>5
<1> QED
  BY <1>8, <1>9 DEF OneAnswer

LEMMA StopAnswers == TypeInv /\ OneAnswer /\ ServerStop => OneAnswer'
<1> SUFFICES ASSUME TypeInv, OneAnswer, ServerStop PROVE OneAnswer'
  OBVIOUS
<1>1. \A b \in Clients : Requests(b)' = {}
  BY DEF ServerStop, Requests
<1>2. \A b \in Clients :
        /\ pc'[b] = "fetch" <=> pc[b] = "fetch" /\ reply[b] # None
        /\ reply'[b] = reply[b]
  BY DEF ServerStop, CutOff, UpdateSteps, TypeInv, TypeOK
<1> QED
  BY <1>1, <1>2 DEF OneAnswer, AnswerDue

\* At any time a client that waits for a file has its request queued or its
\* answer under way, and nobody else has: for any number of clients, whatever
\* fails, and wherever the server stops.
THEOREM AnswersMatchRequests == Spec => []OneAnswer
<1>1. Init => OneAnswer
  BY DEF Init, OneAnswer, AnswerDue, Requests
<1>2. TypeInv /\ OneAnswer /\ [Next]_vars => OneAnswer'
  <2> SUFFICES ASSUME TypeInv, OneAnswer, [Next]_vars PROVE OneAnswer'
    OBVIOUS
  <2>1. ASSUME NEW c \in Clients, TransferStep(c) PROVE OneAnswer'
    <3>1. ASSUME NEW d \in Dirs, SendDirectory(c, d) \/ DownloadDirectory(c, d) PROVE OneAnswer'
      BY <3>1, DirectoryQuiet, QuietKeepsAnswers
    <3>2. ASSUME NEW d \in Dirs, SendDirectoryFails(c, d) \/ DownloadDirectoryFails(c, d)
          PROVE  OneAnswer'
      BY <3>2, DirectoryQuiet, QuietKeepsAnswers
    <3>3. CASE IndexDirectory(c)
      BY <3>3, IndexQuiet, QuietKeepsAnswers
    <3>4. ASSUME NEW f \in Files, UploadFile(c, f) \/ RequestFile(c, f) PROVE OneAnswer'
      BY <3>4, UploadAnswers, RequestAnswers
    <3>5. CASE ReceiveFile(c)
      BY <3>5, ReceiveAnswers
    <3>6. CASE ConnectFails(c) \/ RoundDone(c)
      BY <3>6, EndQuiet, QuietKeepsAnswers
    <3> QED
      BY <2>1, <3>1, <3>2, <3>3, <3>4, <3>5, <3>6 DEF TransferStep
  <2>2. ASSUME NEW c \in Clients, UserStep(c) \/ CrawlStep(c) \/ UpdateStep(c) \/ UpdateLost(c)
        PROVE  OneAnswer'
    BY <2>2, UserQuiet, CrawlQuiet, UpdateQuiet, QuietKeepsAnswers
  <2>3. CASE Tick \/ WriteFile \/ ServerStart \/ UNCHANGED vars
    BY <2>3, OthersQuiet, QuietKeepsAnswers
  <2> QED
    BY <2>1, <2>2, <2>3, AcceptFileAnswers, AcceptRequestAnswers, StopAnswers
    DEF Next, ClientStep, AsioStep
<1> QED
  BY <1>1, <1>2, TypesAndCursors, PTL DEF Spec

-----------------------------------------------------------------------------
(***************************************************************************)
(* The connections as FileQueue sees them.                                 *)
(***************************************************************************)
Msgs == FileMsgs \cup MetadataMsgs
Waiter(m) == IF m.type = "FileMetadata" THEN m.client ELSE None
Waiters(q) == [i \in 1 .. Len(q) |-> Waiter(q[i])]
Answered == {c \in Clients : reply[c] # None}

LEMMA QueueMapping ==
  /\ Queue!qvars = <<Waiters(conns), Answered>>
  /\ Queue!qvars' = <<Waiters(conns'), Answered'>>
BY DEF Queue!qvars, Waiters, Waiter, Answered

LEMMA FunctionAsSeq ==
  ASSUME NEW S, NEW n \in Nat, NEW q \in [1 .. n -> S]
  PROVE  q \in Seq(S) /\ Len(q) = n
OBVIOUS

LEMMA SameSeq ==
  ASSUME NEW S, NEW s \in Seq(S), NEW t \in Seq(S), Len(s) = Len(t),
         \A i \in 1 .. Len(s) : s[i] = t[i]
  PROVE  s = t
OBVIOUS

LEMMA WaiterType == ASSUME NEW m \in Msgs PROVE Waiter(m) \in Clients \cup {None}
BY DEF Msgs, Waiter, FileMsgs, MetadataMsgs

LEMMA WaitersSeq ==
  ASSUME NEW q \in Seq(Msgs)
  PROVE  /\ Waiters(q) \in Seq(Clients \cup {None})
         /\ Len(Waiters(q)) = Len(q) /\ Len(q) \in Nat
         /\ \A i \in 1 .. Len(q) : Waiters(q)[i] = Waiter(q[i])
<1>1. Len(q) \in Nat /\ \A i \in 1 .. Len(q) : q[i] \in Msgs
  OBVIOUS
<1>2. Waiters(q) \in [1 .. Len(q) -> Clients \cup {None}]
  BY <1>1, WaiterType DEF Waiters
<1>3. \A i \in 1 .. Len(q) : Waiters(q)[i] = Waiter(q[i])
  BY DEF Waiters
<1> QED
  BY <1>1, <1>2, <1>3, FunctionAsSeq

LEMMA WaitersAppend ==
  ASSUME NEW q \in Seq(Msgs), NEW m \in Msgs
  PROVE  Waiters(Append(q, m)) = Append(Waiters(q), Waiter(m))
<1>1. /\ Append(q, m) \in Seq(Msgs) /\ Len(Append(q, m)) = Len(q) + 1
      /\ \A i \in 1 .. Len(q) : Append(q, m)[i] = q[i]
      /\ Append(q, m)[Len(q) + 1] = m
  BY AppendIndices
<1>2. Waiter(m) \in Clients \cup {None}
  BY WaiterType
<1>3. /\ Append(Waiters(q), Waiter(m)) \in Seq(Clients \cup {None})
      /\ Len(Append(Waiters(q), Waiter(m))) = Len(q) + 1
      /\ \A i \in 1 .. Len(q) : Append(Waiters(q), Waiter(m))[i] = Waiter(q[i])
      /\ Append(Waiters(q), Waiter(m))[Len(q) + 1] = Waiter(m)
  BY <1>2, WaitersSeq, AppendIndices
<1>4. /\ Waiters(Append(q, m)) \in Seq(Clients \cup {None})
      /\ Len(Waiters(Append(q, m))) = Len(q) + 1
      /\ \A i \in 1 .. Len(q) + 1 : Waiters(Append(q, m))[i] = Waiter(Append(q, m)[i])
  BY <1>1, WaitersSeq
<1>5. \A i \in 1 .. Len(q) + 1 : i \in 1 .. Len(q) \/ i = Len(q) + 1
  BY WaitersSeq
<1>6. \A i \in 1 .. Len(q) + 1 : Waiters(Append(q, m))[i] = Append(Waiters(q), Waiter(m))[i]
  BY <1>1, <1>3, <1>4, <1>5
<1> QED
  BY <1>3, <1>4, <1>6, SameSeq

LEMMA WaitersTail ==
  ASSUME NEW q \in Seq(Msgs), q # <<>>
  PROVE  /\ Waiters(Tail(q)) = Tail(Waiters(q))
         /\ Waiters(q) # <<>>
         /\ Head(Waiters(q)) = Waiter(Head(q))
<1>1. /\ Tail(q) \in Seq(Msgs) /\ Len(q) \in Nat /\ Len(q) >= 1 /\ Head(q) = q[1]
      /\ Len(Tail(q)) = Len(q) - 1
      /\ \A i \in 1 .. Len(q) - 1 : Tail(q)[i] = q[i + 1]
  BY TailIndices
<1>2. /\ Waiters(q) \in Seq(Clients \cup {None}) /\ Len(Waiters(q)) = Len(q)
      /\ \A i \in 1 .. Len(q) : Waiters(q)[i] = Waiter(q[i])
  BY WaitersSeq
<1>3. Waiters(q) # <<>>
  BY <1>1, <1>2
<1>4. /\ Tail(Waiters(q)) \in Seq(Clients \cup {None})
      /\ Head(Waiters(q)) = Waiters(q)[1]
      /\ Len(Tail(Waiters(q))) = Len(q) - 1
      /\ \A i \in 1 .. Len(q) - 1 : Tail(Waiters(q))[i] = Waiter(q[i + 1])
  BY <1>1, <1>2, <1>3, TailIndices
<1>5. /\ Waiters(Tail(q)) \in Seq(Clients \cup {None}) /\ Len(Waiters(Tail(q))) = Len(Tail(q))
      /\ \A i \in 1 .. Len(Tail(q)) : Waiters(Tail(q))[i] = Waiter(Tail(q)[i])
  BY <1>1, WaitersSeq
<1>6. Waiters(Tail(q)) = Tail(Waiters(q))
  BY <1>1, <1>4, <1>5, SameSeq
<1> QED
  BY <1>1, <1>2, <1>3, <1>4, <1>6

LEMMA UploadQueue ==
  ASSUME TypeInv, NEW c \in Clients, NEW f \in Files, UploadFile(c, f)
  PROVE  Queue!Upload
<1> DEFINE m == [type |-> "File", file |-> f, metadata |-> tree[c].files[f], data |-> Read(c, f)]
<1>1. conns \in Seq(Msgs) /\ m \in Msgs /\ Waiter(m) = None
  BY ReadType, Replica, TreeFields, TodoFields
  DEF UploadFile, UpFilesLeft, UploadsListed, Msgs, Waiter, FileMsgs, TypeInv, TypeOK
<1>2. conns' = Append(conns, m) /\ reply' = reply
  BY DEF UploadFile
<1> HIDE DEF m
<1>3. Waiters(conns') = Append(Waiters(conns), None) /\ Answered' = Answered
  BY <1>1, <1>2, WaitersAppend DEF Answered
<1> QED
  BY <1>3 DEF Queue!Upload, Waiters, Waiter, Answered

\* Only a client that waits for nothing sends a request.
LEMMA RequestQueue ==
  ASSUME TypeInv, OneAnswer, NEW c \in Clients, NEW f \in Files, RequestFile(c, f)
  PROVE  Queue!Request(c)
<1> DEFINE m == [type |-> "FileMetadata", file |-> f, client |-> c]
<1>1. conns \in Seq(Msgs) /\ m \in Msgs /\ Waiter(m) = c
  BY DEF Msgs, Waiter, MetadataMsgs, TypeInv, TypeOK
<1>2. conns' = Append(conns, m) /\ reply' = reply
  BY DEF RequestFile
<1> HIDE DEF m
<1>3. Waiters(conns') = Append(Waiters(conns), c) /\ Answered' = Answered
  BY <1>1, <1>2, WaitersAppend DEF Answered
<1>4. Requests(c) = {} /\ reply[c] = None
  BY DEF RequestFile, DownFilesLeft, DirsDone, OneAnswer, AnswerDue
<1>5. c \notin Answered
  BY <1>4 DEF Answered
<1>6. \A i \in 1 .. Len(Waiters(conns)) : Waiters(conns)[i] # c
  BY <1>1, <1>4, WaitersSeq, DiSyAssumption DEF Requests, Waiter
<1> QED
  BY <1>3, <1>5, <1>6 DEF Queue!Request, Waiters, Waiter, Answered

LEMMA ReceiveQueue ==
  ASSUME TypeInv, NEW c \in Clients, ReceiveFile(c)
  PROVE  Queue!Collect(c)
<1>1. conns' = conns /\ c \in Answered /\ Answered' = Answered \ {c}
  BY DEF ReceiveFile, Answered, TypeInv, TypeOK
<1> QED
  BY <1>1 DEF Queue!Collect, Answered

LEMMA AcceptFileQueue == TypeInv /\ AcceptFile => Queue!Serve
<1> SUFFICES ASSUME TypeInv, AcceptFile PROVE Queue!Serve
  OBVIOUS
<1>1. conns \in Seq(Msgs) /\ conns # <<>> /\ conns' = Tail(conns) /\ reply' = reply
  BY DEF AcceptFile, NextConn, Msgs, TypeInv, TypeOK
<1>2. Waiter(Head(conns)) = None
  BY DEF AcceptFile, NextConn, Waiter
<1>3. /\ Waiters(conns) # <<>> /\ Head(Waiters(conns)) = None
      /\ Waiters(conns') = Tail(Waiters(conns)) /\ Answered' = Answered
  BY <1>1, <1>2, WaitersTail DEF Answered
<1> QED
  BY <1>3 DEF Queue!Serve, Waiters, Waiter, Answered

LEMMA AcceptRequestQueue == TypeInv /\ AcceptRequest => Queue!Serve
<1> SUFFICES ASSUME TypeInv, AcceptRequest PROVE Queue!Serve
  OBVIOUS
<1>1. conns \in Seq(Msgs) /\ conns # <<>> /\ conns' = Tail(conns)
  BY DEF AcceptRequest, NextConn, Msgs, TypeInv, TypeOK
<1>2. Head(conns) \in MetadataMsgs
  BY <1>1, TailIndices DEF AcceptRequest, NextConn, Msgs, FileMsgs, MetadataMsgs
<1>3. PICK c \in Clients : c = Head(conns).client /\ Head(conns).file \in Files
  BY <1>2 DEF MetadataMsgs
<1>4. /\ Waiters(conns) # <<>> /\ Head(Waiters(conns)) = c
      /\ Waiters(conns') = Tail(Waiters(conns))
  BY <1>1, <1>3, WaitersTail DEF AcceptRequest, NextConn, Waiter
<1>5. reply' = [reply EXCEPT ![c] = Read(Server, Head(conns).file)]
  BY <1>3 DEF AcceptRequest
<1>6. Read(Server, Head(conns).file) # None
  BY <1>3, ReadType, Replica, DiSyAssumption DEF TypeInv
<1>7. Answered' = Answered \cup ({c} \ {None})
  BY <1>5, <1>6, DiSyAssumption DEF Answered, TypeInv, TypeOK
<1> QED
  BY <1>4, <1>7 DEF Queue!Serve, Waiters, Waiter, Answered

LEMMA StopQueue == ServerStop => Queue!Crash
<1> SUFFICES ASSUME ServerStop PROVE Queue!Crash
  OBVIOUS
<1>1. conns' = <<>> /\ reply' = reply
  BY DEF ServerStop
<1>2. Waiters(conns') = <<>> /\ Answered' = Answered
  BY <1>1 DEF Waiters, Answered
<1> QED
  BY <1>2 DEF Queue!Crash, Waiters, Waiter, Answered

LEMMA QuietQueue == Quiet => UNCHANGED Queue!qvars
BY QueueMapping DEF Quiet, Answered

LEMMA QueueInit == Init => Queue!Init
BY DEF Init, Queue!Init

LEMMA QueueStep == TypeInv /\ OneAnswer /\ [Next]_vars => [Queue!Next]_(Queue!qvars)
<1> SUFFICES ASSUME TypeInv, OneAnswer, [Next]_vars
             PROVE  Queue!Next \/ UNCHANGED Queue!qvars
  OBVIOUS
<1>1. ASSUME NEW c \in Clients, TransferStep(c) PROVE Queue!Next \/ UNCHANGED Queue!qvars
  <2>1. ASSUME NEW d \in Dirs,
               \/ SendDirectory(c, d) \/ DownloadDirectory(c, d)
               \/ SendDirectoryFails(c, d) \/ DownloadDirectoryFails(c, d)
        PROVE  UNCHANGED Queue!qvars
    BY <2>1, DirectoryQuiet, QuietQueue
  <2>2. ASSUME NEW f \in Files, UploadFile(c, f) PROVE Queue!Next
    BY <2>2, UploadQueue DEF Queue!Next
  <2>3. ASSUME NEW f \in Files, RequestFile(c, f) PROVE Queue!Next
    BY <2>3, RequestQueue DEF Queue!Next
  <2>4. CASE ReceiveFile(c)
    BY <2>4, ReceiveQueue DEF Queue!Next
  <2>5. CASE IndexDirectory(c) \/ ConnectFails(c) \/ RoundDone(c)
    BY <2>5, IndexQuiet, EndQuiet, QuietQueue
  <2> QED
    BY <1>1, <2>1, <2>2, <2>3, <2>4, <2>5 DEF TransferStep
<1>2. ASSUME NEW c \in Clients, UserStep(c) \/ CrawlStep(c) \/ UpdateStep(c) \/ UpdateLost(c)
      PROVE  UNCHANGED Queue!qvars
  BY <1>2, UserQuiet, CrawlQuiet, UpdateQuiet, QuietQueue
<1>3. CASE AcceptFile \/ AcceptRequest
  BY <1>3, AcceptFileQueue, AcceptRequestQueue DEF Queue!Next
<1>4. CASE ServerStop
  BY <1>4, StopQueue DEF Queue!Next
<1>5. CASE Tick \/ WriteFile \/ ServerStart \/ UNCHANGED vars
  BY <1>5, OthersQuiet, QuietQueue
<1> QED
  BY <1>1, <1>2, <1>3, <1>4, <1>5 DEF Next, ClientStep, AsioStep

\* Whatever clients, users and faults do, connections are served in the order
\* in which they were made, every request is answered once, to the client that
\* made it, and a stop of the server loses what was queued and nothing else.
THEOREM ServesInOrder == Spec => QueueInOrder
<1>1. TypeInv /\ OneAnswer /\ [Next]_vars => [Queue!Next]_(Queue!qvars)
  BY QueueStep
<1> QED
  BY <1>1, QueueInit, TypesAndCursors, AnswersMatchRequests, PTL DEF Spec, QueueInOrder, Queue!Safety

-----------------------------------------------------------------------------
(***************************************************************************)
(* Directories.                                                            *)
(***************************************************************************)

\* The first half of SendDirectory precedes the second.
CreatedFirst == \A c \in Clients : pc[c] = "index" => cur[c] \in dirs[Server]

DirsInv == IndexedDirsExist /\ CreatedFirst

\* Nothing in the code, and no user, removes a directory.
LEMMA DirsGrow ==
  ASSUME TypeInv, [Next]_vars
  PROVE  \A r \in Replicas : dirs[r] \subseteq dirs'[r]
<1>1. ASSUME NEW c \in Clients, UserStep(c) PROVE \A r \in Replicas : dirs[r] \subseteq dirs'[r]
  BY <1>1 DEF UserStep, EditFile, BeginSave, EndSave, NewDirectory, TypeInv, TypeOK
<1>2. ASSUME NEW c \in Clients, CrawlStep(c) \/ UpdateStep(c) \/ UpdateLost(c) PROVE UNCHANGED dirs
  BY <1>2, ProcessUpdateEffect DEF CrawlStep, BeginCrawl, Visit, HashFile, UpdateStep, CallUpdate,
              UpdateRefused, UpdateLost, fsVars
<1>3. ASSUME NEW c \in Clients, TransferStep(c) PROVE \A r \in Replicas : dirs[r] \subseteq dirs'[r]
  <2>1. ASSUME NEW d \in Dirs, SendDirectory(c, d) \/ DownloadDirectory(c, d)
        PROVE  \A r \in Replicas : dirs[r] \subseteq dirs'[r]
    <3>1. dirs' = Created(Server, d) \/ dirs' = Created(c, d)
      BY <2>1 DEF SendDirectory, DownloadDirectory
    <3> QED
      BY <3>1 DEF Created, TypeInv, TypeOK
  <2>2. CASE ~ \E d \in Dirs : SendDirectory(c, d) \/ DownloadDirectory(c, d)
    BY <1>3, <2>2 DEF TransferStep, SendDirectoryFails, DownloadDirectoryFails, IndexDirectory,
         UploadFile, RequestFile, ReceiveFile, ConnectFails, RoundDone, fsVars
  <2> QED
    BY <2>1, <2>2
<1>4. CASE AsioStep \/ Tick \/ ServerStop \/ ServerStart \/ UNCHANGED vars
  BY <1>4 DEF AsioStep, AcceptFile, WriteFile, AcceptRequest, Tick, ServerStop, ServerStart,
              vars, fsVars
<1> QED
  BY <1>1, <1>2, <1>3, <1>4 DEF Next, ClientStep

\* The server's list of directories stays, and no client enters SendDirectory.
DirsQuiet ==
  /\ serverDirTree'.dirs = serverDirTree.dirs
  /\ \A b \in Clients : pc'[b] = "index" => pc[b] = "index" /\ cur'[b] = cur[b]

LEMMA DirsQuietKeeps ==
  ASSUME TypeInv, [Next]_vars, DirsInv, DirsQuiet
  PROVE  DirsInv'
BY DirsGrow, Replica DEF DirsInv, DirsQuiet, IndexedDirsExist, CreatedFirst

LEMMA DirsStep == TypeInv /\ DirsInv /\ [Next]_vars => DirsInv'
<1> SUFFICES ASSUME TypeInv, DirsInv, [Next]_vars PROVE DirsInv'
  OBVIOUS
<1>1. ASSUME NEW c \in Clients, UserStep(c) \/ CrawlStep(c) PROVE DirsQuiet
  BY <1>1 DEF UserStep, EditFile, BeginSave, EndSave, NewDirectory, CrawlStep, BeginCrawl, Visit, HashFile,
              DirsQuiet, clientVars, serverVars, TypeInv, TypeOK
<1>2. ASSUME NEW c \in Clients, UpdateStep(c) \/ UpdateLost(c) PROVE DirsQuiet
  <2>1. CASE ProcessUpdate(c)
    BY <2>1, ProcessUpdateEffect DEF DirsQuiet, UpdateSteps
  <2>2. CASE CallUpdate(c) \/ UpdateRefused(c) \/ UpdateLost(c)
    BY <2>2 DEF CallUpdate, UpdateRefused, UpdateLost, EndRound, DirsQuiet, serverVars, TypeInv, TypeOK
  <2> QED
    BY <1>2, <2>1, <2>2 DEF UpdateStep
<1>3. ASSUME NEW c \in Clients, NEW d \in Dirs, SendDirectory(c, d) PROVE DirsInv'
  <2>1. d \in dirs'[Server] /\ UNCHANGED serverDirTree /\ cur'[c] = d
    BY <1>3, Replica DEF SendDirectory, Created, serverVars, TypeInv, TypeOK
  <2>2. \A b \in Clients : b # c => pc'[b] = pc[b] /\ cur'[b] = cur[b]
    BY <1>3 DEF SendDirectory, TypeInv, TypeOK
  <2> QED
    BY <2>1, <2>2, DirsGrow, Replica DEF DirsInv, IndexedDirsExist, CreatedFirst
<1>4. ASSUME NEW c \in Clients, IndexDirectory(c) PROVE DirsInv'
  <2>1. /\ serverDirTree'.dirs = serverDirTree.dirs \cup {cur[c]}
        /\ cur[c] \in dirs[Server]
        /\ UNCHANGED dirs
    BY <1>4 DEF IndexDirectory, DirsInv, CreatedFirst, fsVars, TypeInv, TypeOK, Trees
  <2>2. \A b \in Clients : pc'[b] = "index" => pc[b] = "index" /\ cur'[b] = cur[b]
    BY <1>4 DEF IndexDirectory, TypeInv, TypeOK
  <2> QED
    BY <2>1, <2>2 DEF DirsInv, IndexedDirsExist, CreatedFirst
<1>5. ASSUME NEW c \in Clients, NEW d \in Dirs,
             SendDirectoryFails(c, d) \/ DownloadDirectory(c, d) \/ DownloadDirectoryFails(c, d)
      PROVE  DirsQuiet
  BY <1>5 DEF SendDirectoryFails, DownloadDirectory, DownloadDirectoryFails, DirsQuiet, serverVars
<1>6. ASSUME NEW c \in Clients, NEW f \in Files, UploadFile(c, f) \/ RequestFile(c, f) PROVE DirsQuiet
  BY <1>6 DEF UploadFile, RequestFile, DirsQuiet, serverVars, TypeInv, TypeOK
<1>7. ASSUME NEW c \in Clients, ReceiveFile(c) \/ ConnectFails(c) \/ RoundDone(c) PROVE DirsQuiet
  BY <1>7 DEF ReceiveFile, ConnectFails, RoundDone, EndRound, DirsQuiet, serverVars, TypeInv, TypeOK
<1>8. ASSUME AsioStep \/ Tick \/ UNCHANGED vars PROVE DirsQuiet
  <2>1. ASSUME AcceptFile PROVE DirsQuiet
    BY <2>1 DEF AcceptFile, DirsQuiet, clientVars, TypeInv, TypeOK, Trees
  <2>2. CASE WriteFile \/ AcceptRequest \/ Tick \/ UNCHANGED vars
    BY <2>2 DEF WriteFile, AcceptRequest, Tick, DirsQuiet, vars, clientVars, serverVars
  <2> QED
    BY <1>8, <2>1, <2>2 DEF AsioStep
<1>9. CASE ServerStop
  BY <1>9 DEF ServerStop, EmptyTree, DirsInv, IndexedDirsExist, CreatedFirst, TypeInv, TypeOK
<1>10. CASE ServerStart
  BY <1>10 DEF ServerStart, Crawled, DirsInv, IndexedDirsExist, CreatedFirst, fsVars, clientVars
<1>11. ASSUME NEW c \in Clients, TransferStep(c) PROVE DirsInv'
  <2>1. ASSUME NEW d \in Dirs, SendDirectory(c, d) \/ DownloadDirectory(c, d) PROVE DirsInv'
    BY <1>3, <1>5, <2>1, DirsQuietKeeps
  <2>2. ASSUME NEW d \in Dirs, SendDirectoryFails(c, d) \/ DownloadDirectoryFails(c, d)
        PROVE  DirsInv'
    BY <1>5, <2>2, DirsQuietKeeps
  <2>3. ASSUME NEW f \in Files, UploadFile(c, f) \/ RequestFile(c, f) PROVE DirsInv'
    BY <1>6, <2>3, DirsQuietKeeps
  <2>4. CASE ReceiveFile(c) \/ ConnectFails(c) \/ RoundDone(c)
    BY <1>7, <2>4, DirsQuietKeeps
  <2> QED
    BY <1>4, <1>11, <2>1, <2>2, <2>3, <2>4 DEF TransferStep
<1> QED
  BY <1>1, <1>2, <1>8, <1>9, <1>10, <1>11, DirsQuietKeeps DEF Next, ClientStep

\* Whatever fails and wherever the server stops, a directory that the server
\* lists exists: the order of the two halves of SendDirectory is right.
THEOREM ListedDirectoriesExist == Spec => []IndexedDirsExist
<1>1. Init => DirsInv
  BY DEF Init, DirsInv, IndexedDirsExist, CreatedFirst, EmptyTree
<1>2. DirsInv => IndexedDirsExist
  BY DEF DirsInv
<1> QED
  BY <1>1, <1>2, DirsStep, TypesAndCursors, PTL DEF Spec

-----------------------------------------------------------------------------
(***************************************************************************)
(* Uploads, when no SendDirectory call is lost and the server does not     *)
(* stop.                                                                   *)
(***************************************************************************)
NoDirectoryLost == Faults \cap {"SendDirectory", "stop"} = {}

\* The crawl lists a file after the directories above it.
ListedBelow ==
  \A c \in Clients :
    /\ \A f \in Files : tree[c].files[f] # None => Above[f] \subseteq tree[c].dirs
    /\ pc[c] = "hash" => Above[cur[c].file] \subseteq tree[c].dirs

\* From the call of Update on, a directory that the client listed is on the
\* server, or is about to be sent or compared.
Sent == PCs \ {"idle", "crawl", "hash"}
DirsOnTheirWay ==
  \A c \in Clients : pc[c] \in Sent => tree[c].dirs \subseteq dirs[Server] \cup Asked(c)

DeliveryInv == up /\ ListedBelow /\ DirsOnTheirWay /\ UploadsLand

LEMMA ServerStaysUp ==
  TypeInv /\ NoDirectoryLost /\ up /\ [Next]_vars => up' /\ ~ ServerStop /\ ~ ServerStart
<1> SUFFICES ASSUME TypeInv, NoDirectoryLost, up, [Next]_vars
             PROVE  up' /\ ~ ServerStop /\ ~ ServerStart
  OBVIOUS
<1>1. ~ ServerStop /\ ~ ServerStart
  BY DEF NoDirectoryLost, ServerStop, Fault, ServerStart
<1>2. ASSUME NEW c \in Clients, UserStep(c) \/ CrawlStep(c) \/ UpdateStep(c) \/ UpdateLost(c) PROVE up'
  BY <1>2, ProcessUpdateEffect DEF UserStep, EditFile, BeginSave, EndSave, NewDirectory, CrawlStep, BeginCrawl, Visit,
              HashFile, UpdateStep, CallUpdate, UpdateRefused, UpdateLost, serverVars
<1>3. ASSUME NEW c \in Clients, TransferStep(c) PROVE up'
  BY <1>3 DEF TransferStep, SendDirectory, SendDirectoryFails, DownloadDirectory,
              DownloadDirectoryFails, IndexDirectory, UploadFile, RequestFile, ReceiveFile,
              ConnectFails, RoundDone, serverVars
<1>4. AsioStep \/ Tick \/ UNCHANGED vars => up' = up
  BY DEF AsioStep, AcceptFile, WriteFile, AcceptRequest, Tick, serverVars, vars
<1> QED
  BY <1>1, <1>2, <1>3, <1>4 DEF Next, ClientStep

LEMMA NoneSkipped ==
  ASSUME NoDirectoryLost, up, NEW c \in Clients, NEW d \in Dirs
  PROVE  ~ SendDirectoryFails(c, d)
BY DEF NoDirectoryLost, SendDirectoryFails, Fault

\* b's tree stays, and b does not begin to hash another file.
ListingQuiet(b) ==
  /\ tree'[b] = tree[b]
  /\ pc'[b] = "hash" => pc[b] = "hash" /\ cur'[b] = cur[b]

LEMMA ListedStep ==
  ASSUME TypeInv, ListedBelow, [Next]_vars, NoDirectoryLost
  PROVE  ListedBelow'
<1> DEFINE Quiets == \A b \in Clients : ListingQuiet(b)
<1>1. Quiets => ListedBelow'
  BY DEF ListedBelow, ListingQuiet
<1>2. ASSUME NEW c \in Clients, EndRound(c) PROVE ListedBelow'
  <2>1. tree'[c] = EmptyTree /\ pc'[c] = "idle"
    BY <1>2 DEF EndRound, TypeInv, TypeOK
  <2>2. \A b \in Clients : b # c => ListingQuiet(b)
    BY <1>2 DEF EndRound, ListingQuiet, TypeInv, TypeOK
  <2> QED
    BY <2>1, <2>2 DEF ListedBelow, ListingQuiet, EmptyTree
<1>3. ASSUME NEW c \in Clients, UserStep(c) PROVE Quiets
  BY <1>3 DEF UserStep, EditFile, BeginSave, EndSave, NewDirectory, clientVars, ListingQuiet
<1>4. ASSUME NEW c \in Clients, BeginCrawl(c) \/ CallUpdate(c) PROVE Quiets
  BY <1>4 DEF BeginCrawl, CallUpdate, CrawlDone, ListingQuiet, TypeInv, TypeOK
<1>5. ASSUME NEW c \in Clients, NEW p \in Paths, Visit(c, p) PROVE ListedBelow'
  <2>1. \A b \in Clients : b # c => ListingQuiet(b)
    BY <1>5 DEF Visit, ListingQuiet, TypeInv, TypeOK
  <2>2. /\ tree'[c].files = tree[c].files
        /\ tree[c].dirs \subseteq tree'[c].dirs
        /\ pc'[c] = "hash" => cur'[c].file = p /\ Above[p] \subseteq tree'[c].dirs
    BY <1>5 DEF Visit, TypeInv, TypeOK, Trees
  <2> QED
    BY <2>1, <2>2 DEF ListedBelow, ListingQuiet
<1>6. ASSUME NEW c \in Clients, HashFile(c) PROVE ListedBelow'
  <2>1. \A b \in Clients : b # c => ListingQuiet(b)
    BY <1>6 DEF HashFile, ListingQuiet, TypeInv, TypeOK
  <2>2. /\ tree'[c].dirs = tree[c].dirs
        /\ \A f \in Files : f # cur[c].file => tree'[c].files[f] = tree[c].files[f]
        /\ pc'[c] = "crawl"
        /\ Above[cur[c].file] \subseteq tree[c].dirs
    BY <1>6 DEF HashFile, ListedBelow, TypeInv, TypeOK, Trees, FileMap
  <2> QED
    BY <2>1, <2>2 DEF ListedBelow, ListingQuiet
<1>7. ASSUME NEW c \in Clients, ProcessUpdate(c) PROVE Quiets
  BY <1>7, ProcessUpdateEffect DEF UpdateSteps, ListingQuiet
<1>8. ASSUME NEW c \in Clients, NEW d \in Dirs, SendDirectory(c, d) \/ DownloadDirectory(c, d)
      PROVE  Quiets
  BY <1>8 DEF SendDirectory, DownloadDirectory, ListingQuiet, TypeInv, TypeOK
<1>9. ASSUME NEW c \in Clients, NEW d \in Dirs, SendDirectoryFails(c, d) \/ DownloadDirectoryFails(c, d)
      PROVE  Quiets
  BY <1>9 DEF SendDirectoryFails, DownloadDirectoryFails, ListingQuiet
<1>10. ASSUME NEW c \in Clients, NEW f \in Files, UploadFile(c, f) \/ RequestFile(c, f) PROVE Quiets
  BY <1>10 DEF UploadFile, RequestFile, ListingQuiet, TypeInv, TypeOK
<1>11. ASSUME NEW c \in Clients, ReceiveFile(c) \/ IndexDirectory(c) PROVE Quiets
  BY <1>11 DEF ReceiveFile, IndexDirectory, ListingQuiet, TypeInv, TypeOK
<1>12. ASSUME AsioStep \/ Tick \/ UNCHANGED vars PROVE Quiets
  BY <1>12 DEF AsioStep, AcceptFile, WriteFile, AcceptRequest, Tick, vars, clientVars, ListingQuiet
<1>13. ASSUME NEW c \in Clients, CrawlStep(c) \/ UpdateStep(c) \/ UpdateLost(c) PROVE ListedBelow'
  BY <1>1, <1>2, <1>4, <1>5, <1>6, <1>7, <1>13 DEF CrawlStep, UpdateStep, UpdateRefused, UpdateLost
<1>14. ASSUME NEW c \in Clients, TransferStep(c) PROVE ListedBelow'
  BY <1>1, <1>2, <1>8, <1>9, <1>10, <1>11, <1>14 DEF TransferStep, ConnectFails, RoundDone
<1>15. ServerStart \/ ServerStop => ListedBelow'
  BY <1>1 DEF ServerStart, ServerStop, Fault, NoDirectoryLost, clientVars, ListingQuiet
<1> QED
  BY <1>1, <1>3, <1>12, <1>13, <1>14, <1>15 DEF Next, ClientStep

\* b's directories stay where they are on their way.
WayQuiet(b) ==
  /\ tree'[b].dirs = tree[b].dirs
  /\ pc'[b] \in Sent => pc[b] \in Sent /\ Asked(b) \subseteq Asked(b)'

LEMMA WayQuietKeeps ==
  ASSUME TypeInv, [Next]_vars, DirsOnTheirWay, NEW b \in Clients, WayQuiet(b)
  PROVE  pc'[b] \in Sent => tree'[b].dirs \subseteq dirs'[Server] \cup Asked(b)'
BY DirsGrow, Replica DEF WayQuiet, DirsOnTheirWay

LEMMA WayStep ==
  ASSUME TypeInv, DirsInv, up, DirsOnTheirWay, [Next]_vars, NoDirectoryLost
  PROVE  DirsOnTheirWay'
<1> USE DEF Sent, PCs, UpdateSteps
<1> DEFINE Quiets == \A b \in Clients : WayQuiet(b)
<1>1. Quiets => DirsOnTheirWay'
  BY WayQuietKeeps DEF DirsOnTheirWay
<1>2. ASSUME NEW c \in Clients, \A b \in Clients : b # c => WayQuiet(b),
             pc'[c] \in Sent => tree'[c].dirs \subseteq dirs'[Server] \cup Asked(c)'
      PROVE  DirsOnTheirWay'
  BY <1>2, WayQuietKeeps DEF DirsOnTheirWay
<1>3. ASSUME NEW c \in Clients, EndRound(c) PROVE DirsOnTheirWay'
  <2>1. pc'[c] = "idle" /\ \A b \in Clients : b # c => WayQuiet(b)
    BY <1>3 DEF EndRound, WayQuiet, Asked, TypeInv, TypeOK
  <2> QED
    BY <1>2, <2>1
<1>4. ASSUME NEW c \in Clients, UserStep(c) PROVE Quiets
  BY <1>4 DEF UserStep, EditFile, BeginSave, EndSave, NewDirectory, clientVars, WayQuiet, Asked
<1>5. ASSUME NEW c \in Clients, BeginCrawl(c) \/ HashFile(c) PROVE DirsOnTheirWay'
  <2>1. pc'[c] \notin Sent /\ \A b \in Clients : b # c => WayQuiet(b)
    BY <1>5 DEF BeginCrawl, HashFile, WayQuiet, Asked, TypeInv, TypeOK
  <2> QED
    BY <1>2, <2>1
<1>6. ASSUME NEW c \in Clients, NEW p \in Paths, Visit(c, p) PROVE DirsOnTheirWay'
  <2>1. pc'[c] \notin Sent /\ \A b \in Clients : b # c => WayQuiet(b)
    BY <1>6 DEF Visit, WayQuiet, Asked, TypeInv, TypeOK
  <2> QED
    BY <1>2, <2>1
<1>7. ASSUME NEW c \in Clients, ProcessUpdate(c) PROVE DirsOnTheirWay'
  <2>1. \A b \in Clients : b # c => WayQuiet(b)
    BY <1>7, ProcessUpdateEffect DEF WayQuiet, Asked
  <2>2. /\ UNCHANGED <<tree, dirs>> /\ pc[c] \in Sent
        /\ Asked(c) \cap tree[c].dirs \subseteq Asked(c)' \cup serverDirTree.dirs
    BY <1>7, ProcessUpdateEffect
  <2> QED
    BY <1>2, <2>1, <2>2 DEF DirsOnTheirWay, DirsInv, IndexedDirsExist
<1>8. ASSUME NEW c \in Clients, CallUpdate(c) PROVE DirsOnTheirWay'
  <2>1. \A b \in Clients : b # c => WayQuiet(b)
    BY <1>8 DEF CallUpdate, WayQuiet, Asked, TypeInv, TypeOK
  <2>2. tree' = tree /\ Dirs \subseteq Asked(c)'
    BY <1>8 DEF CallUpdate, Asked, TypeInv, TypeOK, Todos
  <2> QED
    BY <1>2, <2>1, <2>2, TreeFields DEF TypeInv, TypeOK
<1>9. ASSUME NEW c \in Clients, NEW d \in Dirs, SendDirectory(c, d) PROVE DirsOnTheirWay'
  <2>1. /\ tree'[c].dirs = tree[c].dirs
        /\ Asked(c)' = Asked(c) \ {d}
        /\ pc[c] = "transfer"
        /\ dirs'[Server] = dirs[Server] \cup Above[d] \cup {d}
    BY <1>9, Replica DEF SendDirectory, UpDirsLeft, Created, Asked, TypeInv, TypeOK, Todos
  <2>2. \A b \in Clients : b # c => WayQuiet(b)
    BY <1>9 DEF SendDirectory, WayQuiet, Asked, TypeInv, TypeOK
  <2> QED
    BY <1>2, <2>1, <2>2 DEF DirsOnTheirWay
<1>10. ASSUME NEW c \in Clients, NEW d \in Dirs, DownloadDirectory(c, d) \/ DownloadDirectoryFails(c, d)
       PROVE  Quiets
  <2>1. /\ pc' = pc /\ tree' = tree
        /\ todo' = [todo EXCEPT ![c].downDirs = todo[c].downDirs \ {d}]
    BY <1>10 DEF DownloadDirectory, DownloadDirectoryFails
  <2>2. \A b \in Clients : todo'[b].upDirs = todo[b].upDirs /\ todo'[b].visit = todo[b].visit
    BY <2>1 DEF TypeInv, TypeOK, Todos
  <2> QED
    BY <2>1, <2>2 DEF WayQuiet, Asked
<1>11. ASSUME NEW c \in Clients, NEW f \in Files, UploadFile(c, f) \/ RequestFile(c, f) PROVE Quiets
  <2>1. /\ tree' = tree
        /\ \A b \in Clients : /\ pc'[b] \in Sent => pc[b] \in Sent
                              /\ pc'[b] = "clientDirs" <=> pc[b] = "clientDirs"
    BY <1>11 DEF UploadFile, RequestFile, DownFilesLeft, DirsDone, TypeInv, TypeOK
  <2>2. todo' = todo \/ todo' = [todo EXCEPT ![c].upFiles = todo[c].upFiles \ {f}]
    BY <1>11 DEF UploadFile, RequestFile
  <2>3. ASSUME NEW b \in Clients
        PROVE  todo'[b].upDirs = todo[b].upDirs /\ todo'[b].visit = todo[b].visit
    <3>1. todo \in [Clients -> Todos] /\ todo[b] \in Todos
      BY DEF TypeInv, TypeOK
    <3>2. CASE todo' = todo
      BY <3>2
    <3>3. CASE todo' = [todo EXCEPT ![c].upFiles = todo[c].upFiles \ {f}]
      BY <3>1, <3>3 DEF Todos
    <3> QED
      BY <2>2, <3>2, <3>3
  <2> QED
    BY <2>1, <2>3 DEF WayQuiet, Asked
<1>12. ASSUME NEW c \in Clients, ReceiveFile(c) \/ IndexDirectory(c) PROVE Quiets
  <2>1. /\ tree' = tree
        /\ \A b \in Clients : /\ pc'[b] \in Sent => pc[b] \in Sent
                              /\ pc'[b] = "clientDirs" <=> pc[b] = "clientDirs"
    BY <1>12 DEF ReceiveFile, IndexDirectory, TypeInv, TypeOK
  <2>2. todo' = todo \/ todo' = [todo EXCEPT ![c].downFiles = todo[c].downFiles \ {cur[c]}]
    BY <1>12 DEF ReceiveFile, IndexDirectory
  <2>3. ASSUME NEW b \in Clients
        PROVE  todo'[b].upDirs = todo[b].upDirs /\ todo'[b].visit = todo[b].visit
    <3>1. todo \in [Clients -> Todos] /\ todo[b] \in Todos
      BY DEF TypeInv, TypeOK
    <3>2. CASE todo' = todo
      BY <3>2
    <3>3. CASE todo' = [todo EXCEPT ![c].downFiles = todo[c].downFiles \ {cur[c]}]
      BY <3>1, <3>3 DEF Todos
    <3> QED
      BY <2>2, <3>2, <3>3
  <2> QED
    BY <2>1, <2>3 DEF WayQuiet, Asked
<1>13. ASSUME AsioStep \/ Tick \/ UNCHANGED vars PROVE Quiets
  BY <1>13 DEF AsioStep, AcceptFile, WriteFile, AcceptRequest, Tick, vars, clientVars, WayQuiet, Asked
<1>14. ASSUME NEW c \in Clients, CrawlStep(c) \/ UpdateStep(c) \/ UpdateLost(c) PROVE DirsOnTheirWay'
  BY <1>1, <1>3, <1>5, <1>6, <1>7, <1>8, <1>14 DEF CrawlStep, UpdateStep, UpdateRefused, UpdateLost
<1>15. ASSUME NEW c \in Clients, TransferStep(c) PROVE DirsOnTheirWay'
  BY <1>1, <1>3, <1>9, <1>10, <1>11, <1>12, <1>15, NoneSkipped DEF TransferStep, ConnectFails, RoundDone
<1> QED
  BY <1>1, <1>4, <1>13, <1>14, <1>15, ServerStaysUp DEF Next, ClientStep

\* The files on their way to the asio thread, and those it has taken.
SameConns ==
  /\ writing' # None => writing' = writing
  /\ Len(conns') <= Len(conns) /\ Len(conns') \in Nat /\ Len(conns) \in Nat
  /\ \/ conns' = conns
     \/ \A i \in 1 .. Len(conns') : i + 1 \in 1 .. Len(conns) /\ conns'[i] = conns[i + 1]

LEMMA SameConnsKeep ==
  ASSUME TypeInv, [Next]_vars, UploadsLand, SameConns
  PROVE  UploadsLand'
BY DirsGrow, Replica DEF UploadsLand, SameConns

LEMMA LandStep ==
  ASSUME TypeInv, DeliveryInv, [Next]_vars, NoDirectoryLost
  PROVE  UploadsLand'
<1> USE DEF DeliveryInv
<1>1. Len(conns) \in Nat
  BY DEF TypeInv, TypeOK
<1>2. UNCHANGED <<conns, writing>> => UploadsLand'
  BY <1>1, SameConnsKeep DEF SameConns
<1>3. ASSUME NEW c \in Clients, NEW f \in Files, UploadFile(c, f) PROVE UploadsLand'
  <2> DEFINE m == [type |-> "File", file |-> f, metadata |-> tree[c].files[f], data |-> Read(c, f)]
  <2>1. conns \in Seq(FileMsgs \cup MetadataMsgs) /\ m \in FileMsgs \cup MetadataMsgs
    BY <1>3, ReadType, Replica, TreeFields, TodoFields
    DEF UploadFile, UpFilesLeft, UploadsListed, FileMsgs, TypeInv, TypeOK
  <2>2. conns' = Append(conns, m) /\ UNCHANGED <<dirs, writing>>
    BY <1>3 DEF UploadFile, fsVars
  <2>3. m.file = f
    OBVIOUS
  <2>4. Above[f] \subseteq dirs[Server]
    BY <1>3 DEF UploadFile, UpFilesLeft, DirsDone, DirsOnTheirWay, Sent, Asked, PCs, UpdateSteps,
                UploadsListed, ListedBelow, TypeInv
  <2> HIDE DEF m
  <2>5. /\ Len(conns') = Len(conns) + 1
        /\ \A i \in 1 .. Len(conns) : conns'[i] = conns[i]
        /\ conns'[Len(conns) + 1].file = f
    BY <2>1, <2>2, <2>3, AppendIndices
  <2> QED
    BY <1>1, <2>2, <2>4, <2>5 DEF UploadsLand
<1>4. ASSUME NEW c \in Clients, NEW f \in Files, RequestFile(c, f) PROVE UploadsLand'
  <2> DEFINE m == [type |-> "FileMetadata", file |-> f, client |-> c]
  <2>1. conns \in Seq(FileMsgs \cup MetadataMsgs) /\ m \in FileMsgs \cup MetadataMsgs
    BY DEF MetadataMsgs, TypeInv, TypeOK
  <2>2. conns' = Append(conns, m) /\ UNCHANGED <<dirs, writing>>
    BY <1>4 DEF RequestFile, fsVars
  <2>3. m.type = "FileMetadata"
    OBVIOUS
  <2> HIDE DEF m
  <2>4. /\ Len(conns') = Len(conns) + 1
        /\ \A i \in 1 .. Len(conns) : conns'[i] = conns[i]
        /\ conns'[Len(conns) + 1].type = "FileMetadata"
    BY <2>1, <2>2, <2>3, AppendIndices
  <2> QED
    BY <1>1, <2>2, <2>4 DEF UploadsLand
<1>5. ASSUME AcceptFile PROVE UploadsLand'
  <2>1. /\ conns # <<>> /\ conns' = Tail(conns) /\ Head(conns).type = "File"
        /\ writing'.file = Head(conns).file
        /\ UNCHANGED dirs
    BY <1>5 DEF AcceptFile, NextConn, fsVars
  <2>2. /\ Head(conns) = conns[1] /\ Len(conns) >= 1
        /\ Len(conns') = Len(conns) - 1
        /\ \A i \in 1 .. Len(conns) - 1 : conns'[i] = conns[i + 1]
    BY <2>1, TailIndices DEF TypeInv, TypeOK
  <2> QED
    BY <1>1, <2>1, <2>2 DEF UploadsLand
<1>6. ASSUME AcceptRequest PROVE UploadsLand'
  <2>1. conns # <<>> /\ conns' = Tail(conns) /\ UNCHANGED writing
    BY <1>6 DEF AcceptRequest, NextConn
  <2>2. /\ Len(conns) >= 1
        /\ Len(conns') = Len(conns) - 1
        /\ \A i \in 1 .. Len(conns) - 1 : conns'[i] = conns[i + 1]
    BY <2>1, TailIndices DEF TypeInv, TypeOK
  <2>3. \A i \in 1 .. Len(conns') : i + 1 \in 1 .. Len(conns) /\ conns'[i] = conns[i + 1]
    BY <1>1, <2>2
  <2>4. Len(conns') <= Len(conns) /\ Len(conns') \in Nat
    BY <1>1, <2>2
  <2>5. SameConns
    BY <1>1, <2>1, <2>3, <2>4 DEF SameConns
  <2> QED
    BY <2>5, SameConnsKeep
<1>7. ASSUME WriteFile PROVE UploadsLand'
  <2>1. SameConns
    BY <1>1, <1>7 DEF WriteFile, SameConns
  <2> QED
    BY <2>1, SameConnsKeep
<1>8. ASSUME NEW c \in Clients, UserStep(c) \/ CrawlStep(c) \/ UpdateStep(c) \/ UpdateLost(c) PROVE UploadsLand'
  <2>1. UNCHANGED <<conns, writing>>
    BY <1>8, ProcessUpdateEffect DEF UserStep, EditFile, BeginSave, EndSave, NewDirectory, CrawlStep, BeginCrawl, Visit,
              HashFile, UpdateStep, CallUpdate, UpdateRefused, UpdateLost, asioVars, TypeInv
  <2> QED
    BY <1>2, <2>1
<1>9. ASSUME NEW c \in Clients, TransferStep(c) PROVE UploadsLand'
  <2>1. CASE \E f \in Files : UploadFile(c, f) \/ RequestFile(c, f)
    BY <1>3, <1>4, <2>1
  <2>2. CASE ~ \E f \in Files : UploadFile(c, f) \/ RequestFile(c, f)
    <3>1. UNCHANGED <<conns, writing>>
      BY <1>9, <2>2 DEF TransferStep, SendDirectory, SendDirectoryFails, DownloadDirectory,
              DownloadDirectoryFails, IndexDirectory, ReceiveFile, ConnectFails, RoundDone, asioVars
    <3> QED
      BY <1>2, <3>1
  <2> QED
    BY <2>1, <2>2
<1>10. ASSUME Tick \/ UNCHANGED vars PROVE UploadsLand'
  BY <1>2, <1>10 DEF Tick, vars, asioVars
<1> QED
  BY <1>5, <1>6, <1>7, <1>8, <1>9, <1>10, ServerStaysUp DEF Next, ClientStep, AsioStep

LEMMA DeliveryInit == Init => DirsInv /\ DeliveryInv
BY DEF Init, DirsInv, IndexedDirsExist, CreatedFirst, EmptyTree, DeliveryInv, ListedBelow,
       DirsOnTheirWay, Sent, UploadsLand

LEMMA DeliveryStep ==
  ASSUME NoDirectoryLost
  PROVE  TypeInv /\ DirsInv /\ DeliveryInv /\ [Next]_vars => DeliveryInv'
BY ServerStaysUp, ListedStep, WayStep, LandStep DEF DeliveryInv

\* As long as no SendDirectory call is lost and the server does not stop, an
\* uploaded file finds its directory on the server, although users edit and
\* other clients upload at the same time and uploads are queued.
THEOREM UploadsAlwaysLand == NoDirectoryLost => (Spec => []UploadsLand)
<1> SUFFICES ASSUME NoDirectoryLost PROVE Spec => []UploadsLand
  OBVIOUS
<1>1. Init => DirsInv /\ DeliveryInv
  BY DeliveryInit
<1>2. TypeInv /\ DirsInv /\ DeliveryInv /\ [Next]_vars => DirsInv' /\ DeliveryInv'
  BY DirsStep, DeliveryStep
<1>3. DeliveryInv => UploadsLand
  BY DEF DeliveryInv
<1> QED
  BY <1>1, <1>2, <1>3, TypesAndCursors, PTL DEF Spec

=============================================================================
