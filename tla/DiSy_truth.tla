----------------------------- MODULE DiSy_truth -----------------------------
(***************************************************************************)
(* The hashes that the server lists, when users edit between rounds.       *)
(***************************************************************************)
EXTENDS DiSy_contents

\* What IndexTellsTruth needs of the environment.
EditsBetweenRounds == NoDirectoryLost /\ EditWhen # "anytime"

\* A client's list tells the truth of its disk, as far as it will be sent.
ListTellsTruth ==
  \A c \in Clients :
    /\ pc[c] = "idle" => \A f \in Files : tree[c].files[f] = None
    /\ pc[c] = "fetch" => todo[c].upFiles = {}
    /\ \A f \in Files :
         /\ tree[c].files[f] # None
         /\ pc[c] \notin Transferring \/ f \in todo[c].upFiles
         => tree[c].files[f].hash = Digest[disk[c][f].data]

\* Uploads carry the hash of their contents.
UploadsTellTruth ==
  /\ \A i \in 1 .. Len(conns) :
       conns[i].type = "File" => conns[i].metadata.hash = Digest[conns[i].data]
  /\ writing # None =>
       /\ serverDirTree.files[writing.file] # None
       /\ serverDirTree.files[writing.file].hash = Digest[writing.data]

TruthInv == IndexTellsTruth /\ ListTellsTruth /\ UploadsTellTruth

\* One client's part of ListTellsTruth, after the step.
StillTrue(b) ==
  /\ pc'[b] = "idle" => \A f \in Files : tree'[b].files[f] = None
  /\ pc'[b] = "fetch" => todo'[b].upFiles = {}
  /\ \A f \in Files :
       /\ tree'[b].files[f] # None
       /\ pc'[b] \notin Transferring \/ f \in todo'[b].upFiles
       => tree'[b].files[f].hash = Digest[disk'[b][f].data]

LEMMA AllStillTrue == (\A b \in Clients : StillTrue(b)) => ListTellsTruth'
BY DEF StillTrue, ListTellsTruth

LEMMA UnmovedTrue ==
  ASSUME ListTellsTruth, NEW b \in Clients, Unmoved(b), disk'[b] = disk[b]
  PROVE  StillTrue(b)
BY DEF ListTellsTruth, StillTrue, Unmoved

LEMMA QuietTrue ==
  ASSUME ListTellsTruth, NEW b \in Clients, ClientQuiet(b), disk'[b] = disk[b]
  PROVE  StillTrue(b)
<1>1. /\ pc'[b] = "idle" => \A f \in Files : tree'[b].files[f] = None
      /\ pc'[b] = "fetch" => todo'[b].upFiles = {}
  BY DEF ListTellsTruth, ClientQuiet, EmptyTree
<1>2. ASSUME NEW f \in Files, tree'[b].files[f] # None,
             pc'[b] \notin Transferring \/ f \in todo'[b].upFiles
      PROVE  tree'[b].files[f].hash = Digest[disk'[b][f].data]
  <2>1. tree'[b].files[f] = tree[b].files[f]
    BY <1>2 DEF ClientQuiet
  <2>2. tree'[b] # EmptyTree
    BY <1>2 DEF EmptyTree
  <2>3. pc[b] \notin Transferring \/ f \in todo[b].upFiles
    BY <1>2, <2>2 DEF ClientQuiet
  <2> QED
    BY <1>2, <2>1, <2>3 DEF ListTellsTruth
<1> QED
  BY <1>1, <1>2 DEF StillTrue

\* The server's side of the invariant, when only clients move.
LEMMA ServerSideKept ==
  ASSUME TruthInv, conns' = conns, writing' = writing, disk'[Server] = disk[Server],
         serverDirTree'.files = serverDirTree.files
  PROVE  IndexTellsTruth' /\ UploadsTellTruth'
BY DEF TruthInv, IndexTellsTruth, ListedAsStored, UploadsTellTruth

LEMMA TruthQuiet ==
  ASSUME TruthInv, FilesQuiet, \A b \in Clients : ClientQuiet(b)
  PROVE  TruthInv'
<1>1. \A b \in Clients : StillTrue(b)
  BY QuietTrue DEF TruthInv, FilesQuiet
<1> QED
  BY <1>1, AllStillTrue, ServerSideKept DEF TruthInv, FilesQuiet

-----------------------------------------------------------------------------
LEMMA EditTrue ==
  ASSUME EditsBetweenRounds, Base, TruthInv, NEW c \in Clients, NEW f \in Files, EditFile(c, f)
  PROVE  TruthInv'
<1>1. pc[c] = "idle"
  BY DiSyAssumption DEF EditFile, MaySave, MayEdit, Settled, EditsBetweenRounds
<1>2. /\ UNCHANGED <<serverDirTree, pc, tree, todo, cur, conns, writing>>
      /\ \A r \in Replicas : r # c => disk'[r] = disk[r]
  BY DEF EditFile, Saved, serverVars, clientVars, asioVars, Base, TypeInv, TypeOK
<1>3. \A b \in Clients : b # c => StillTrue(b)
  BY <1>2, UnmovedTrue, Replica DEF Unmoved, TruthInv
<1>4. StillTrue(c)
  BY <1>1, <1>2 DEF StillTrue, TruthInv, ListTellsTruth
<1>5. disk'[Server] = disk[Server]
  BY <1>2, Replica, DiSyAssumption
<1> QED
  BY <1>2, <1>3, <1>4, <1>5, AllStillTrue, ServerSideKept DEF TruthInv

LEMMA VisitTrue ==
  ASSUME Base, TruthInv, NEW c \in Clients, NEW p \in Paths, Visit(c, p)
  PROVE  TruthInv'
<1>1. FilesQuiet /\ \A b \in Clients : b # c => Unmoved(b)
  BY DEF Visit, FilesQuiet, Unmoved, userVars, fsVars, serverVars, asioVars, Base, TypeInv, TypeOK
<1>2. /\ tree'[c].files = tree[c].files
      /\ todo'[c].upFiles = todo[c].upFiles
      /\ pc[c] = "crawl" /\ pc'[c] \in {"crawl", "hash"}
  BY DEF Visit, Base, TypeInv, TypeOK, Trees, Todos
<1>3. \A b \in Clients : b # c => StillTrue(b)
  BY <1>1, UnmovedTrue DEF FilesQuiet, TruthInv
<1>4. StillTrue(c)
  BY <1>1, <1>2 DEF StillTrue, TruthInv, ListTellsTruth, FilesQuiet, Transferring
<1> QED
  BY <1>1, <1>3, <1>4, AllStillTrue, ServerSideKept DEF TruthInv, FilesQuiet

LEMMA HashFileTrue ==
  ASSUME Base, SavedInv, TruthInv, NEW c \in Clients, HashFile(c)
  PROVE  TruthInv'
<1> DEFINE g == cur[c].file
<1>1. FilesQuiet /\ \A b \in Clients : b # c => Unmoved(b)
  BY HashFileEffect DEF Base
<1>2. /\ UNCHANGED todo /\ pc[c] = "hash" /\ pc'[c] = "crawl"
      /\ \A f \in Files : f # g => tree'[c].files[f] = tree[c].files[f]
      /\ tree'[c].files[g].hash = Digest[Read(c, g)]
  <2>1. tree'[c].files[g] = [mtime |-> cur[c].mtime, hash |-> Digest[Read(c, g)]]
    BY HashFileEffect DEF Base
  <2>2. tree'[c].files[g].hash = Digest[Read(c, g)]
    BY <2>1
  <2> QED
    BY <2>2, HashFileEffect DEF Base
<1>3. Read(c, g) = disk[c][g].data
  BY <1>2 DEF SavedInv, ListedOnDisk, Read
<1> HIDE DEF g
<1>4. \A b \in Clients : b # c => StillTrue(b)
  BY <1>1, UnmovedTrue DEF FilesQuiet, TruthInv
<1>5. ASSUME NEW f \in Files, tree'[c].files[f] # None
      PROVE  tree'[c].files[f].hash = Digest[disk'[c][f].data]
  <2>1. CASE f = g
    BY <1>1, <1>2, <1>3, <2>1 DEF FilesQuiet
  <2>2. CASE f # g
    BY <1>1, <1>2, <1>5, <2>2 DEF FilesQuiet, TruthInv, ListTellsTruth, Transferring
  <2> QED
    BY <2>1, <2>2
<1>6. StillTrue(c)
  BY <1>2, <1>5 DEF StillTrue
<1> QED
  BY <1>1, <1>4, <1>6, AllStillTrue, ServerSideKept DEF TruthInv, FilesQuiet

LEMMA ProcessUpdateTrue ==
  ASSUME Base, TruthInv, NEW c \in Clients, ProcessUpdate(c)
  PROVE  TruthInv'
<1>1. /\ FilesQuiet
      /\ \A b \in Clients : b # c => Unmoved(b)
      /\ UNCHANGED tree
      /\ pc[c] \in UpdateSteps /\ pc'[c] \in UpdateSteps \cup {"transfer"}
  BY ProcessUpdateEffect, ProcessUpdateQuiet DEF Base
<1>2. \A b \in Clients : b # c => StillTrue(b)
  BY <1>1, UnmovedTrue DEF FilesQuiet, TruthInv
<1>3. StillTrue(c)
  BY <1>1 DEF StillTrue, TruthInv, ListTellsTruth, FilesQuiet, Transferring, UpdateSteps
<1> QED
  BY <1>1, <1>2, <1>3, AllStillTrue, ServerSideKept DEF TruthInv, FilesQuiet

LEMMA UploadTrue ==
  ASSUME Base, SavedInv, TruthInv, NEW c \in Clients, NEW f \in Files, UploadFile(c, f)
  PROVE  TruthInv'
<1>1. /\ UNCHANGED <<disk, serverDirTree, pc, tree, writing>>
      /\ \A b \in Clients : b # c => Unmoved(b)
      /\ pc[c] = "transfer" /\ f \in todo[c].upFiles /\ tree[c].files[f] # None
      /\ todo'[c].upFiles = todo[c].upFiles \ {f}
  BY UploadEffect DEF Base
<1>2. \A b \in Clients : b # c => StillTrue(b)
  BY <1>1, UnmovedTrue DEF TruthInv
<1>3. StillTrue(c)
  BY <1>1 DEF StillTrue, TruthInv, ListTellsTruth, Transferring
<1>4. tree[c].files[f].hash = Digest[Read(c, f)]
  BY <1>1 DEF TruthInv, ListTellsTruth, SavedInv, ListedOnDisk, Read
<1>5. IndexTellsTruth'
  BY <1>1 DEF TruthInv, IndexTellsTruth, ListedAsStored
<1>6. /\ Len(conns) \in Nat /\ Len(conns') = Len(conns) + 1
      /\ \A i \in 1 .. Len(conns) : conns'[i] = conns[i]
      /\ conns'[Len(conns) + 1].metadata = tree[c].files[f]
      /\ conns'[Len(conns) + 1].data = Read(c, f)
  <2>1. conns'[Len(conns) + 1] = [type |-> "File", file |-> f, metadata |-> tree[c].files[f],
                                  data |-> Read(c, f)]
    BY UploadEffect DEF Base
  <2> QED
    BY <2>1, UploadEffect DEF Base
<1>7. UploadsTellTruth'
  <2>1. ASSUME NEW i \in 1 .. Len(conns'), conns'[i].type = "File"
        PROVE  conns'[i].metadata.hash = Digest[conns'[i].data]
    <3>1. i \in 1 .. Len(conns) \/ i = Len(conns) + 1
      BY <1>6
    <3>2. CASE i \in 1 .. Len(conns)
      BY <1>6, <2>1, <3>2 DEF TruthInv, UploadsTellTruth
    <3>3. CASE i = Len(conns) + 1
      BY <1>4, <1>6, <3>3
    <3> QED
      BY <3>1, <3>2, <3>3
  <2> QED
    BY <1>1, <2>1 DEF TruthInv, UploadsTellTruth
<1> QED
  BY <1>2, <1>3, <1>5, <1>7, AllStillTrue DEF TruthInv

LEMMA RequestTrue ==
  ASSUME Base, TruthInv, NEW c \in Clients, NEW f \in Files, RequestFile(c, f)
  PROVE  TruthInv'
<1>1. /\ UNCHANGED <<disk, serverDirTree, tree, todo, writing>>
      /\ \A b \in Clients : b # c => Unmoved(b)
      /\ pc'[c] = "fetch" /\ todo[c].upFiles = {}
  BY RequestEffect DEF Base
<1>2. \A b \in Clients : b # c => StillTrue(b)
  BY <1>1, UnmovedTrue DEF TruthInv
<1>3. StillTrue(c)
  BY <1>1 DEF StillTrue, Transferring
<1>4. IndexTellsTruth'
  BY <1>1 DEF TruthInv, IndexTellsTruth, ListedAsStored
<1>5. UploadsTellTruth'
  <2>1. ASSUME NEW i \in 1 .. Len(conns'), conns'[i].type = "File"
        PROVE  conns'[i].metadata.hash = Digest[conns'[i].data]
    <3>1. i \in 1 .. Len(conns) /\ conns'[i] = conns[i]
      BY <2>1, RequestEffect DEF Base
    <3> QED
      BY <2>1, <3>1 DEF TruthInv, UploadsTellTruth
  <2> QED
    BY <1>1, <2>1 DEF TruthInv, UploadsTellTruth
<1> QED
  BY <1>2, <1>3, <1>4, <1>5, AllStillTrue DEF TruthInv

\* What a download overwrites, its client no longer sends in this round.
LEMMA ReceiveTrue ==
  ASSUME Base, TruthInv, NEW c \in Clients, ReceiveFile(c)
  PROVE  TruthInv'
<1>1. /\ UNCHANGED <<serverDirTree, tree, conns, writing>>
      /\ \A b \in Clients : b # c => Unmoved(b)
      /\ pc[c] = "fetch" /\ pc'[c] = "transfer"
      /\ todo'[c].upFiles = todo[c].upFiles
      /\ disk' = Written(c, cur[c], reply[c])
  BY ReceiveEffect DEF Base
<1>2. \A r \in Replicas : r # c => disk'[r] = disk[r]
  BY <1>1 DEF Written, Base, TypeInv, TypeOK
<1>3. \A b \in Clients : b # c => StillTrue(b)
  BY <1>1, <1>2, UnmovedTrue, Replica DEF TruthInv
<1>4. StillTrue(c)
  BY <1>1 DEF StillTrue, TruthInv, ListTellsTruth, Transferring
<1>5. disk'[Server] = disk[Server]
  BY <1>2, Replica, DiSyAssumption
<1> QED
  BY <1>1, <1>3, <1>4, <1>5, AllStillTrue, ServerSideKept DEF TruthInv

-----------------------------------------------------------------------------
LEMMA AcceptFileTrue ==
  ASSUME Base, TruthInv, AcceptFile
  PROVE  TruthInv'
<1> DEFINE m == Head(conns)
<1>1. /\ UNCHANGED <<disk, pc, tree, todo, cur>>
      /\ writing = None
      /\ conns # <<>> /\ conns' = Tail(conns)
      /\ m \in FileMsgs
      /\ writing'.file = m.file /\ writing'.data = m.data /\ writing' # None
      /\ \A g \in Files : g # m.file => serverDirTree'.files[g] = serverDirTree.files[g]
      /\ serverDirTree'.files[m.file] = m.metadata /\ m.metadata # None
  BY AcceptFileEffect DEF Base
<1>2. /\ m = conns[1] /\ 1 \in 1 .. Len(conns)
      /\ \A i \in 1 .. Len(conns') : i + 1 \in 1 .. Len(conns) /\ conns'[i] = conns[i + 1]
  BY <1>1, HeadTaken DEF Base
<1>3. m.metadata.hash = Digest[m.data]
  BY <1>1, <1>2 DEF TruthInv, UploadsTellTruth, FileMsgs
<1> HIDE DEF m
<1>4. IndexTellsTruth'
  BY <1>1 DEF TruthInv, IndexTellsTruth, ListedAsStored
<1>5. UploadsTellTruth'
  BY <1>1, <1>2, <1>3 DEF TruthInv, UploadsTellTruth
<1>6. \A b \in Clients : StillTrue(b)
  BY <1>1, UnmovedTrue DEF Unmoved, TruthInv
<1> QED
  BY <1>4, <1>5, <1>6, AllStillTrue DEF TruthInv

LEMMA WriteTrue ==
  ASSUME Base, TruthInv, WriteFile
  PROVE  TruthInv'
<1>1. /\ UNCHANGED <<serverDirTree, pc, tree, todo, cur, conns>>
      /\ writing # None /\ writing' = None
      /\ disk' = Written(Server, writing.file, writing.data)
  BY DEF WriteFile, serverVars, clientVars
<1>2. writing.file \in Files /\ writing.data \in Contents
  BY <1>1 DEF Base, TypeInv, TypeOK, Writes
<1>3. Above[writing.file] \subseteq dirs[Server]
  BY <1>1 DEF Base, DeliveryInv, UploadsLand
<1>4. /\ \A q \in Replicas, g \in Files : q # Server \/ g # writing.file => disk'[q][g] = disk[q][g]
      /\ disk'[Server][writing.file] # None /\ disk'[Server][writing.file].data = writing.data
  BY <1>1, <1>2, <1>3, WrittenEffect, Replica DEF Base, TypeInv
<1>5. IndexTellsTruth'
  BY <1>1, <1>4, Replica DEF TruthInv, IndexTellsTruth, ListedAsStored, UploadsTellTruth
<1>6. UploadsTellTruth'
  BY <1>1 DEF TruthInv, UploadsTellTruth
<1>7. \A b \in Clients : disk'[b] = disk[b]
  BY <1>1, Replica, DiSyAssumption DEF Written, Base, TypeInv, TypeOK
<1>8. \A b \in Clients : StillTrue(b)
  BY <1>1, <1>7, UnmovedTrue DEF Unmoved, TruthInv
<1> QED
  BY <1>5, <1>6, <1>8, AllStillTrue DEF TruthInv

LEMMA AcceptRequestTrue ==
  ASSUME Base, TruthInv, AcceptRequest
  PROVE  TruthInv'
<1>1. /\ UNCHANGED <<disk, serverDirTree, pc, tree, todo, cur, writing>>
      /\ conns # <<>> /\ conns' = Tail(conns)
  BY DEF AcceptRequest, NextConn, fsVars, serverVars, clientVars
<1>2. \A i \in 1 .. Len(conns') : i + 1 \in 1 .. Len(conns) /\ conns'[i] = conns[i + 1]
  BY <1>1, HeadTaken DEF Base
<1>3. IndexTellsTruth'
  BY <1>1 DEF TruthInv, IndexTellsTruth, ListedAsStored
<1>4. UploadsTellTruth'
  BY <1>1, <1>2 DEF TruthInv, UploadsTellTruth
<1>5. \A b \in Clients : StillTrue(b)
  BY <1>1, UnmovedTrue DEF Unmoved, TruthInv
<1> QED
  BY <1>3, <1>4, <1>5, AllStillTrue DEF TruthInv

-----------------------------------------------------------------------------
LEMMA TruthStep ==
  ASSUME EditsBetweenRounds, Base, SavedInv, TruthInv, [Next]_vars
  PROVE  TruthInv'
<1> DEFINE Quiets == FilesQuiet /\ \A b \in Clients : ClientQuiet(b)
<1>1. TypeInv /\ DeliveryInv /\ NoDirectoryLost
  BY DEF Base, EditsBetweenRounds
<1>2. Quiets => TruthInv'
  BY TruthQuiet
<1>3. ASSUME NEW c \in Clients, UserStep(c) PROVE TruthInv'
  <2>1. CASE \E f \in Files : EditFile(c, f)
    BY <2>1, EditTrue
  <2>2. CASE \E d \in Dirs : NewDirectory(c, d)
    BY <1>1, <1>2, <2>2, OtherStepQuiet
  <2> QED
    BY <1>1, <1>3, <2>1, <2>2, NoSaveWatched DEF EditsBetweenRounds
<1>4. ASSUME NEW c \in Clients, CrawlStep(c) PROVE TruthInv'
  <2>1. CASE BeginCrawl(c)
    BY <1>1, <1>2, <2>1, CrawlStepQuiet
  <2> QED
    BY <1>4, <2>1, VisitTrue, HashFileTrue DEF CrawlStep
<1>5. ASSUME NEW c \in Clients, UpdateStep(c) \/ UpdateLost(c) PROVE TruthInv'
  <2>1. CASE CallUpdate(c)
    BY <1>1, <1>2, <2>1, CrawlStepQuiet
  <2>2. CASE UpdateRefused(c) \/ UpdateLost(c)
    BY <1>1, <1>2, <2>2, RoundStepQuiet
  <2>3. CASE ProcessUpdate(c)
    BY <2>3, ProcessUpdateTrue
  <2> QED
    BY <1>5, <2>1, <2>2, <2>3 DEF UpdateStep
<1>6. ASSUME NEW c \in Clients, TransferStep(c) PROVE TruthInv'
  <2>1. ASSUME NEW d \in Dirs,
               \/ SendDirectory(c, d) \/ SendDirectoryFails(c, d)
               \/ DownloadDirectory(c, d) \/ DownloadDirectoryFails(c, d)
        PROVE  TruthInv'
    BY <1>1, <1>2, <2>1, DirectoryStepQuiet
  <2>2. CASE IndexDirectory(c)
    BY <1>1, <1>2, <2>2, IndexStepQuiet
  <2>3. CASE ConnectFails(c) \/ RoundDone(c)
    BY <1>1, <1>2, <2>3, RoundStepQuiet
  <2>4. ASSUME NEW f \in Files, UploadFile(c, f) \/ RequestFile(c, f) PROVE TruthInv'
    BY <2>4, UploadTrue, RequestTrue
  <2>5. CASE ReceiveFile(c)
    BY <2>5, ReceiveTrue
  <2> QED
    BY <1>6, <2>1, <2>2, <2>3, <2>4, <2>5 DEF TransferStep
<1>7. CASE AsioStep
  BY <1>7, AcceptFileTrue, WriteTrue, AcceptRequestTrue DEF AsioStep
<1>8. CASE Tick \/ UNCHANGED vars
  BY <1>1, <1>2, <1>8, OtherStepQuiet
<1>9. ~ ServerStop /\ ~ ServerStart
  BY <1>1, ServerStaysUp DEF DeliveryInv, ServerStart
<1> QED
  BY <1>3, <1>4, <1>5, <1>6, <1>7, <1>8, <1>9 DEF Next, ClientStep

LEMMA TruthInit == Init => TruthInv
BY DEF Init, TruthInv, IndexTellsTruth, ListedAsStored, ListTellsTruth, UploadsTellTruth, EmptyTree

\* If users edit between their client's rounds only, no SendDirectory call is
\* lost and the server does not stop, what processUpdate tells a client of a
\* file is what the asio thread will send it, except while it writes the file:
\* a download between a crawl and an upload never comes in between.
THEOREM ListedHashesAreTrue == EditsBetweenRounds => (Spec => []IndexTellsTruth)
<1> SUFFICES ASSUME EditsBetweenRounds PROVE Spec => []IndexTellsTruth
  OBVIOUS
<1>1. Init => DirsInv /\ DeliveryInv /\ SavedInv /\ TruthInv
  BY DeliveryInit, SavedInit, TruthInit
<1>2. TypeInv /\ OneAnswer /\ DirsInv /\ DeliveryInv /\ SavedInv /\ TruthInv /\ [Next]_vars
      => DirsInv' /\ DeliveryInv' /\ SavedInv' /\ TruthInv'
  BY DirsStep, DeliveryStep, SavedStep, TruthStep DEF Base, EditsBetweenRounds
<1>3. TruthInv => IndexTellsTruth
  BY DEF TruthInv
<1> QED
  BY <1>1, <1>2, <1>3, TypesAndCursors, AnswersMatchRequests, PTL DEF Spec

=============================================================================
