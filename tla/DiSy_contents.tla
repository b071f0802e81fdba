---------------------------- MODULE DiSy_contents ----------------------------
(***************************************************************************)
(* The contents of files, when no SendDirectory call is lost and the       *)
(* server does not stop.                                                   *)
(***************************************************************************)
EXTENDS DiSy_delivery

-----------------------------------------------------------------------------
(***************************************************************************)
(* Invariants.                                                             *)
(***************************************************************************)
\* A client has what it lists.
ListedOnDisk ==
  \A c \in Clients :
    /\ \A f \in Files : tree[c].files[f] # None => disk[c][f] # None
    /\ pc[c] = "hash" => disk[c][cur[c].file] # None

\* Uploads carry what a save has left, and so do replies.
UploadsSaved ==
  /\ \A i \in 1 .. Len(conns) :
       conns[i].type = "File" => conns[i].data \in LeftBySaves(edits[conns[i].file])
  /\ writing # None => writing.data \in LeftBySaves(edits[writing.file])

RepliesSaved == \A c \in Clients : reply[c] # None => reply[c] \in LeftBySaves(edits[cur[c]])

\* The server lists what it told clients to download.
DownloadsListed ==
  \A c \in Clients :
    /\ pc[c] = "fetch" => serverDirTree.files[cur[c]] # None
    /\ \A f \in todo[c].downFiles : serverDirTree.files[f] # None

SavedInv ==
  /\ OnlySavedContents
  /\ IndexedFilesExist
  /\ ListedOnDisk
  /\ UploadsSaved
  /\ RepliesSaved
  /\ DownloadsListed

\* What holds already.
Base == TypeInv /\ OneAnswer /\ DirsInv /\ DeliveryInv

-----------------------------------------------------------------------------
(***************************************************************************)
(* Steps that touch no file and no socket.                                 *)
(***************************************************************************)
Transferring == {"transfer", "index", "fetch"}

ClientQuiet(b) ==
  /\ \A f \in Files : tree'[b].files[f] # None => tree'[b].files[f] = tree[b].files[f]
  /\ pc'[b] = "hash" => pc[b] = "hash" /\ cur'[b] = cur[b]
  /\ pc'[b] = "fetch" => pc[b] = "fetch" /\ cur'[b] = cur[b]
  /\ pc[b] = "fetch" => cur'[b] = cur[b]
  /\ todo'[b].upFiles \subseteq todo[b].upFiles
  /\ todo'[b].downFiles \subseteq todo[b].downFiles
  /\ pc[b] \in Transferring => pc'[b] \in Transferring \/ tree'[b] = EmptyTree
  /\ pc'[b] = "idle" => pc[b] = "idle" \/ tree'[b] = EmptyTree

FilesQuiet ==
  /\ UNCHANGED <<edits, disk, conns, writing, reply>>
  /\ serverDirTree'.files = serverDirTree.files

Unmoved(b) == pc'[b] = pc[b] /\ tree'[b] = tree[b] /\ todo'[b] = todo[b] /\ cur'[b] = cur[b]

LEMMA UnmovedQuiet == ASSUME NEW b \in Clients, Unmoved(b) PROVE ClientQuiet(b)
BY DEF Unmoved, ClientQuiet

LEMMA SavedQuiet ==
  ASSUME OneAnswer, SavedInv, FilesQuiet, \A b \in Clients : ClientQuiet(b)
  PROVE  SavedInv'
<1>1. OnlySavedContents' /\ IndexedFilesExist' /\ UploadsSaved'
  BY DEF SavedInv, OnlySavedContents, IndexedFilesExist, UploadsSaved, FilesQuiet
<1>2. ListedOnDisk'
  BY DEF SavedInv, ListedOnDisk, FilesQuiet, ClientQuiet
<1>3. RepliesSaved'
  BY DEF SavedInv, RepliesSaved, FilesQuiet, ClientQuiet, OneAnswer, AnswerDue
<1>4. DownloadsListed'
  BY DEF SavedInv, DownloadsListed, FilesQuiet, ClientQuiet
<1> QED
  BY <1>1, <1>2, <1>3, <1>4 DEF SavedInv

LEMMA EndRoundQuiet ==
  ASSUME TypeInv, NEW c \in Clients, EndRound(c), pc[c] # "fetch"
  PROVE  \A b \in Clients : ClientQuiet(b)
<1>1. \A b \in Clients : b # c => Unmoved(b)
  BY DEF EndRound, Unmoved, TypeInv, TypeOK
<1>2. /\ pc'[c] = "idle" /\ tree'[c] = EmptyTree
      /\ todo'[c].upFiles = {} /\ todo'[c].downFiles = {}
  BY DEF EndRound, NoTodo, TypeInv, TypeOK
<1>3. ClientQuiet(c)
  BY <1>2 DEF ClientQuiet, EmptyTree
<1> QED
  BY <1>1, <1>3, UnmovedQuiet

LEMMA CrawlStepQuiet ==
  ASSUME TypeInv, NEW c \in Clients, BeginCrawl(c) \/ CallUpdate(c)
  PROVE  FilesQuiet /\ \A b \in Clients : ClientQuiet(b)
<1>1. \A b \in Clients : b # c => Unmoved(b)
  BY DEF BeginCrawl, CallUpdate, Unmoved, TypeInv, TypeOK
<1>2. /\ tree' = tree /\ cur' = cur
      /\ todo'[c].upFiles = todo[c].upFiles
      /\ todo'[c].downFiles = todo[c].downFiles
      /\ pc[c] \notin Transferring \cup {"hash"} /\ pc'[c] \notin Transferring \cup {"hash", "idle"}
  BY DEF BeginCrawl, CallUpdate, CrawlDone, Transferring, TypeInv, TypeOK, Todos
<1>3. ClientQuiet(c)
  BY <1>2 DEF ClientQuiet, Transferring
<1>4. FilesQuiet
  BY DEF BeginCrawl, CallUpdate, FilesQuiet, userVars, fsVars, serverVars, asioVars
<1> QED
  BY <1>1, <1>3, <1>4, UnmovedQuiet

LEMMA DirectoryStepQuiet ==
  ASSUME TypeInv, NEW c \in Clients, NEW d \in Dirs,
         \/ SendDirectory(c, d) \/ SendDirectoryFails(c, d)
         \/ DownloadDirectory(c, d) \/ DownloadDirectoryFails(c, d)
  PROVE  FilesQuiet /\ \A b \in Clients : ClientQuiet(b)
<1>1. \A b \in Clients : b # c => Unmoved(b)
  BY DEF SendDirectory, SendDirectoryFails, DownloadDirectory, DownloadDirectoryFails, Unmoved,
         TypeInv, TypeOK
<1>2. /\ tree' = tree
      /\ todo'[c].upFiles = todo[c].upFiles
      /\ todo'[c].downFiles = todo[c].downFiles
      /\ pc[c] = "transfer" /\ pc'[c] \in {"transfer", "index"}
  BY DEF SendDirectory, SendDirectoryFails, DownloadDirectory, DownloadDirectoryFails, UpDirsLeft,
         DownDirsLeft, TypeInv, TypeOK, Todos
<1>3. ClientQuiet(c)
  BY <1>2 DEF ClientQuiet, Transferring
<1>4. FilesQuiet
  BY DEF SendDirectory, SendDirectoryFails, DownloadDirectory, DownloadDirectoryFails, FilesQuiet,
         userVars, fsVars, serverVars, asioVars
<1> QED
  BY <1>1, <1>3, <1>4, UnmovedQuiet

LEMMA IndexStepQuiet ==
  ASSUME TypeInv, NEW c \in Clients, IndexDirectory(c)
  PROVE  FilesQuiet /\ \A b \in Clients : ClientQuiet(b)
<1>1. \A b \in Clients : b # c => Unmoved(b)
  BY DEF IndexDirectory, Unmoved, TypeInv, TypeOK
<1>2. tree' = tree /\ todo' = todo /\ pc[c] = "index" /\ pc'[c] = "transfer"
  BY DEF IndexDirectory, TypeInv, TypeOK
<1>3. ClientQuiet(c)
  BY <1>2 DEF ClientQuiet, Transferring
<1>4. FilesQuiet
  BY DEF IndexDirectory, FilesQuiet, userVars, fsVars, asioVars, TypeInv, TypeOK, Trees
<1> QED
  BY <1>1, <1>3, <1>4, UnmovedQuiet

LEMMA RoundStepQuiet ==
  ASSUME TypeInv, NEW c \in Clients,
         UpdateRefused(c) \/ UpdateLost(c) \/ ConnectFails(c) \/ RoundDone(c)
  PROVE  FilesQuiet /\ \A b \in Clients : ClientQuiet(b)
<1>1. EndRound(c) /\ pc[c] # "fetch"
  BY DEF UpdateRefused, CrawlDone, UpdateLost, UpdateSteps, ConnectFails, RoundDone, UpFilesLeft,
         DownFilesLeft, DirsDone
<1>2. FilesQuiet
  BY DEF UpdateRefused, UpdateLost, ConnectFails, RoundDone, FilesQuiet, userVars, fsVars,
         serverVars, asioVars
<1> QED
  BY <1>1, <1>2, EndRoundQuiet

LEMMA OtherStepQuiet ==
  ASSUME TypeInv,
         Tick \/ UNCHANGED vars \/ \E c \in Clients, d \in Dirs : NewDirectory(c, d)
  PROVE  FilesQuiet /\ \A b \in Clients : ClientQuiet(b)
<1>1. \A b \in Clients : Unmoved(b)
  BY DEF Tick, vars, NewDirectory, clientVars, Unmoved
<1>2. FilesQuiet
  BY DEF Tick, vars, NewDirectory, FilesQuiet, userVars, fsVars, serverVars, asioVars
<1> QED
  BY <1>1, <1>2, UnmovedQuiet

-----------------------------------------------------------------------------
(***************************************************************************)
(* The other steps.                                                        *)
(***************************************************************************)
LEMMA StoredNotNone ==
  ASSUME TypeOK, NEW r \in Replicas, NEW v \in Contents
  PROVE  [mtime |-> Clock(r), data |-> v] # None
BY ClockType, DiSyAssumption DEF FilesOnDisk

\* A write of v to f at r changes nothing else.
LEMMA WrittenEffect ==
  ASSUME TypeOK, NEW r \in Replicas, NEW f \in Files, NEW v \in Contents,
         disk' = Written(r, f, v)
  PROVE  /\ \A q \in Replicas, g \in Files : q # r \/ g # f => disk'[q][g] = disk[q][g]
         /\ disk'[r][f] = disk[r][f] \/ (disk'[r][f] # None /\ disk'[r][f].data = v)
         /\ Above[f] \subseteq dirs[r] => disk'[r][f] # None /\ disk'[r][f].data = v
BY StoredNotNone DEF Written, TypeOK

LEMMA ConnFiles ==
  ASSUME TypeOK
  PROVE  \A i \in 1 .. Len(conns) : conns[i] \in FileMsgs \cup MetadataMsgs /\ conns[i].file \in Files
BY DEF TypeOK, FileMsgs, MetadataMsgs

LEMMA EditEffect ==
  ASSUME TypeInv, NEW c \in Clients, NEW f \in Files, EditFile(c, f)
  PROVE  /\ edits' = [edits EXCEPT ![f] = edits[f] + 1]
         /\ edits[f] + 1 \in Contents
         /\ \A r \in Replicas, g \in Files : r # c \/ g # f => disk'[r][g] = disk[r][g]
         /\ disk'[c][f] # None /\ disk'[c][f].data = edits[f] + 1
         /\ UNCHANGED <<serverDirTree, pc, tree, todo, cur, conns, writing, reply>>
         /\ \A g \in Files : edits[g] \in Nat /\ 1 .. edits[g] \subseteq 1 .. edits'[g]
<1>1. edits \in [Files -> 0 .. MaxEdits] /\ edits[f] \in 0 .. MaxEdits /\ edits[f] < MaxEdits
  BY DEF EditFile, MaySave, TypeInv, TypeOK
<1>2. edits' = [edits EXCEPT ![f] = edits[f] + 1] /\ edits[f] + 1 \in Contents
  BY <1>1, VersionType DEF EditFile, TypeInv
<1>3. disk' = [disk EXCEPT ![c][f] = [mtime |-> Clock(c), data |-> edits[f] + 1]]
  BY DEF EditFile, Saved
<1>4. \A r \in Replicas, g \in Files : r # c \/ g # f => disk'[r][g] = disk[r][g]
  BY <1>3, Replica DEF TypeInv, TypeOK
<1>5. disk'[c][f] # None /\ disk'[c][f].data = edits[f] + 1
  BY <1>2, <1>3, Replica, StoredNotNone DEF TypeInv, TypeOK
<1>6. UNCHANGED <<serverDirTree, pc, tree, todo, cur, conns, writing, reply>>
  BY DEF EditFile, serverVars, clientVars, asioVars
<1>7. \A g \in Files : edits[g] \in Nat /\ (edits'[g] = edits[g] \/ edits'[g] = edits[g] + 1)
  BY <1>1, <1>2, DiSyAssumption
<1>8. \A g \in Files : edits[g] \in Nat /\ 1 .. edits[g] \subseteq 1 .. edits'[g]
  BY <1>7
<1> QED
  BY <1>2, <1>4, <1>5, <1>6, <1>8

LEMMA MoreSaves ==
  ASSUME TypeInv, NEW f \in Files, edits' = [edits EXCEPT ![f] = edits[f] + 1]
  PROVE  /\ edits'[f] = edits[f] + 1
         /\ edits[f] + 1 \in LeftBySaves(edits'[f])
         /\ \A g \in Files : LeftBySaves(edits[g]) \subseteq LeftBySaves(edits'[g])
<1>1. edits[f] \in Nat /\ edits'[f] = edits[f] + 1
  BY DiSyAssumption DEF TypeInv, TypeOK
<1>2. edits[f] + 1 \in 1 .. edits'[f] /\ 1 .. edits[f] \subseteq 1 .. edits'[f]
  BY <1>1
<1>3. \A g \in Files : g # f => edits'[g] = edits[g]
  BY DEF TypeInv, TypeOK
<1> QED
  BY <1>1, <1>2, <1>3 DEF LeftBySaves

\* Whichever way a user saves, one file of the client changes, and holds a
\* version that is counted, or a mixture.
Saves(c, f) ==
  /\ \A r \in Replicas, g \in Files : r # c \/ g # f => disk'[r][g] = disk[r][g]
  /\ disk'[c][f] # None /\ disk'[c][f].data \in LeftBySaves(edits'[f])
  /\ \A g \in Files : LeftBySaves(edits[g]) \subseteq LeftBySaves(edits'[g])
  /\ UNCHANGED <<serverDirTree, pc, tree, todo, cur, conns, writing, reply>>

LEMMA SaveStores ==
  ASSUME TypeInv, NEW c \in Clients, NEW f \in Files, NEW v \in Contents, disk' = Saved(c, f, v)
  PROVE  /\ \A r \in Replicas, g \in Files : r # c \/ g # f => disk'[r][g] = disk[r][g]
         /\ disk'[c][f] # None /\ disk'[c][f].data = v
BY StoredNotNone, Replica DEF Saved, TypeInv, TypeOK

LEMMA EditSaves ==
  ASSUME TypeInv, NEW c \in Clients, NEW f \in Files, EditFile(c, f)
  PROVE  Saves(c, f)
BY EditEffect, MoreSaves DEF Saves

LEMMA BeginSaves ==
  ASSUME TypeInv, NEW c \in Clients, NEW f \in Files, BeginSave(c, f)
  PROVE  Saves(c, f)
<1>1. SavesInPlace /\ edits' = [edits EXCEPT ![f] = edits[f] + 1]
      /\ UNCHANGED <<serverDirTree, pc, tree, todo, cur, conns, writing, reply>>
  BY DEF BeginSave, serverVars, clientVars, asioVars
<1>2. PICK m \in Mixtures : disk' = Saved(c, f, m)
  BY DEF BeginSave
<1>3. m \in Contents /\ m \in LeftBySaves(edits'[f])
  BY <1>1 DEF Contents, LeftBySaves
<1>4. /\ \A r \in Replicas, g \in Files : r # c \/ g # f => disk'[r][g] = disk[r][g]
      /\ disk'[c][f] # None /\ disk'[c][f].data = m
  BY <1>2, <1>3, SaveStores
<1>5. \A g \in Files : LeftBySaves(edits[g]) \subseteq LeftBySaves(edits'[g])
  BY <1>1, MoreSaves
<1> QED
  BY <1>1, <1>3, <1>4, <1>5 DEF Saves

LEMMA EndSaves ==
  ASSUME TypeInv, NEW c \in Clients, EndSave(c)
  PROVE  \E f \in Files : Saves(c, f)
<1>1. /\ saving[c] \in Writes /\ SavesInPlace
      /\ saving[c].data \in 1 .. edits[saving[c].file]
      /\ UNCHANGED <<edits, serverDirTree, pc, tree, todo, cur, conns, writing, reply>>
  BY DEF EndSave, TypeInv, TypeOK, SavingOK, serverVars, clientVars, asioVars
<1>2. PICK v \in {saving[c].data} \cup Mixtures : disk' = Saved(c, saving[c].file, v)
  BY DEF EndSave
<1>3. saving[c].file \in Files /\ v \in Contents /\ v \in LeftBySaves(edits[saving[c].file])
  BY <1>1 DEF Writes, Contents, LeftBySaves
<1> QED
  BY <1>1, <1>2, <1>3, SaveStores DEF Saves

LEMMA SaveSaved ==
  ASSUME Base, SavedInv, NEW c \in Clients, NEW f \in Files, Saves(c, f)
  PROVE  SavedInv'
<1> USE DEF Base, SavedInv, Saves
<1>1. OnlySavedContents'
  <2> SUFFICES ASSUME NEW r \in Replicas, NEW g \in Files, disk'[r][g] # None
               PROVE  disk'[r][g].data \in LeftBySaves(edits'[g])
    BY DEF OnlySavedContents, LeftBySaves, SavesInPlace
  <2>1. CASE r = c /\ g = f
    BY <2>1
  <2>2. CASE ~ (r = c /\ g = f)
    BY <2>2 DEF OnlySavedContents
  <2> QED
    BY <2>1, <2>2
<1>2. \A r \in Replicas, g \in Files : disk[r][g] # None => disk'[r][g] # None
  OBVIOUS
<1>3. IndexedFilesExist' /\ ListedOnDisk' /\ DownloadsListed'
  BY <1>2, Replica, TodoFields
  DEF IndexedFilesExist, ListedOnDisk, DownloadsListed, TypeInv, TypeOK, CursorOK, Stats
<1>4. UploadsSaved'
  BY ConnFiles DEF UploadsSaved, TypeInv, TypeOK, Writes
<1>5. RepliesSaved'
  BY DEF RepliesSaved, OneAnswer, AnswerDue, TypeInv, CursorOK
<1> QED
  BY <1>1, <1>3, <1>4, <1>5

LEMMA VisitSaved ==
  ASSUME Base, SavedInv, NEW c \in Clients, NEW p \in Paths, Visit(c, p)
  PROVE  SavedInv'
<1> USE DEF Base, SavedInv
<1>1. FilesQuiet /\ \A b \in Clients : b # c => Unmoved(b)
  BY DEF Visit, FilesQuiet, Unmoved, userVars, fsVars, serverVars, asioVars, TypeInv, TypeOK
<1>2. /\ tree'[c].files = tree[c].files
      /\ todo'[c].downFiles = todo[c].downFiles
      /\ pc[c] = "crawl" /\ pc'[c] \in {"crawl", "hash"}
      /\ pc'[c] = "hash" => cur'[c].file = p /\ disk[c][p] # None
  BY DEF Visit, TypeInv, TypeOK, Trees, Todos
<1>3. OnlySavedContents' /\ IndexedFilesExist' /\ UploadsSaved'
  BY <1>1 DEF OnlySavedContents, IndexedFilesExist, UploadsSaved, FilesQuiet
<1>4. ListedOnDisk'
  BY <1>1, <1>2 DEF ListedOnDisk, FilesQuiet, Unmoved
<1>5. RepliesSaved'
  BY <1>1, <1>2 DEF RepliesSaved, FilesQuiet, Unmoved, OneAnswer, AnswerDue
<1>6. DownloadsListed'
  BY <1>1, <1>2 DEF DownloadsListed, FilesQuiet, Unmoved
<1> QED
  BY <1>3, <1>4, <1>5, <1>6

LEMMA HashFileEffect ==
  ASSUME TypeInv, NEW c \in Clients, HashFile(c)
  PROVE  /\ FilesQuiet
         /\ \A b \in Clients : b # c => Unmoved(b)
         /\ UNCHANGED todo
         /\ pc[c] = "hash" /\ pc'[c] = "crawl"
         /\ cur[c].file \in Files
         /\ \A f \in Files : f # cur[c].file => tree'[c].files[f] = tree[c].files[f]
         /\ tree'[c].files[cur[c].file] =
              [mtime |-> cur[c].mtime, hash |-> Digest[Read(c, cur[c].file)]]
<1>1. cur[c].file \in Files /\ pc[c] = "hash" /\ pc'[c] = "crawl"
  BY DEF HashFile, TypeInv, TypeOK, CursorOK, Stats
<1>2. tree' = [tree EXCEPT ![c] = [tree[c] EXCEPT !.files = [tree[c].files EXCEPT ![cur[c].file] =
                 [mtime |-> cur[c].mtime, hash |-> Digest[Read(c, cur[c].file)]]]]]
  BY DEF HashFile
<1>3. tree[c] \in Trees /\ tree[c].files \in FileMap
  BY DEF TypeInv, TypeOK, Trees
<1>4. tree'[c].files = [tree[c].files EXCEPT ![cur[c].file] =
                         [mtime |-> cur[c].mtime, hash |-> Digest[Read(c, cur[c].file)]]]
  BY <1>2, <1>3 DEF TypeInv, TypeOK, Trees
<1>5. FilesQuiet /\ UNCHANGED todo /\ \A b \in Clients : b # c => Unmoved(b)
  BY DEF HashFile, FilesQuiet, Unmoved, userVars, fsVars, serverVars, asioVars, TypeInv, TypeOK
<1> QED
  BY <1>1, <1>3, <1>4, <1>5 DEF FileMap

LEMMA HashFileSaved ==
  ASSUME Base, SavedInv, NEW c \in Clients, HashFile(c)
  PROVE  SavedInv'
<1> USE DEF Base, SavedInv
<1>1. OnlySavedContents' /\ IndexedFilesExist' /\ UploadsSaved'
  BY HashFileEffect DEF OnlySavedContents, IndexedFilesExist, UploadsSaved, FilesQuiet
<1>2. ListedOnDisk'
  <2> SUFFICES ASSUME NEW b \in Clients
               PROVE  /\ \A g \in Files : tree'[b].files[g] # None => disk'[b][g] # None
                      /\ pc'[b] = "hash" => disk'[b][cur'[b].file] # None
    BY DEF ListedOnDisk
  <2>1. disk' = disk
    BY HashFileEffect DEF FilesQuiet
  <2>2. CASE b = c
    <3>1. disk[c][cur[c].file] # None /\ pc'[c] = "crawl"
      BY HashFileEffect DEF ListedOnDisk
    <3>2. \A g \in Files : g # cur[c].file => tree'[c].files[g] = tree[c].files[g]
      BY HashFileEffect
    <3> QED
      BY <2>1, <2>2, <3>1, <3>2 DEF ListedOnDisk
  <2>3. CASE b # c
    <3>1. Unmoved(b)
      BY <2>3, HashFileEffect
    <3> QED
      BY <2>1, <3>1 DEF ListedOnDisk, Unmoved
  <2> QED
    BY <2>2, <2>3
<1>3. RepliesSaved'
  BY HashFileEffect DEF RepliesSaved, FilesQuiet, Unmoved, OneAnswer, AnswerDue
<1>4. DownloadsListed'
  BY HashFileEffect DEF DownloadsListed, FilesQuiet, Unmoved
<1> QED
  BY <1>1, <1>2, <1>3, <1>4

LEMMA ProcessUpdateQuiet ==
  ASSUME TypeInv, NEW c \in Clients, ProcessUpdate(c)
  PROVE  FilesQuiet /\ \A b \in Clients : b # c => Unmoved(b)
BY ProcessUpdateEffect DEF FilesQuiet, Unmoved

LEMMA ProcessUpdateSaved ==
  ASSUME Base, SavedInv, NEW c \in Clients, ProcessUpdate(c)
  PROVE  SavedInv'
<1> USE DEF Base, SavedInv
<1>1. OnlySavedContents' /\ IndexedFilesExist' /\ UploadsSaved'
  BY ProcessUpdateEffect DEF OnlySavedContents, IndexedFilesExist, UploadsSaved
<1>2. ListedOnDisk'
  BY ProcessUpdateEffect DEF ListedOnDisk, UpdateSteps
<1>3. RepliesSaved'
  BY ProcessUpdateEffect DEF RepliesSaved
<1>4. DownloadsListed'
  <2>1. \A f \in todo'[c].downFiles : serverDirTree.files[f] # None
    BY ProcessUpdateEffect DEF DownloadsListed, WantedFiles
  <2> QED
    BY <2>1, ProcessUpdateEffect DEF DownloadsListed, UpdateSteps
<1> QED
  BY <1>1, <1>2, <1>3, <1>4

LEMMA UploadEffect ==
  ASSUME TypeInv, NEW c \in Clients, NEW f \in Files, UploadFile(c, f)
  PROVE  /\ UNCHANGED <<edits, disk, dirs, serverDirTree, pc, tree, cur, writing, reply>>
         /\ \A b \in Clients : b # c => Unmoved(b)
         /\ pc[c] = "transfer"
         /\ f \in todo[c].upFiles /\ tree[c].files[f] # None
         /\ todo'[c].upFiles = todo[c].upFiles \ {f}
         /\ todo'[c].downFiles = todo[c].downFiles
         /\ Len(conns) \in Nat /\ Len(conns') = Len(conns) + 1
         /\ \A i \in 1 .. Len(conns) : conns'[i] = conns[i]
         /\ conns'[Len(conns) + 1] = [type |-> "File", file |-> f, metadata |-> tree[c].files[f],
                                      data |-> Read(c, f)]
<1> DEFINE m == [type |-> "File", file |-> f, metadata |-> tree[c].files[f], data |-> Read(c, f)]
<1>1. f \in todo[c].upFiles /\ tree[c].files[f] # None /\ pc[c] = "transfer"
  BY DEF UploadFile, UpFilesLeft, DirsDone, UploadsListed, TypeInv
<1>2. conns \in Seq(FileMsgs \cup MetadataMsgs) /\ m \in FileMsgs \cup MetadataMsgs
  BY <1>1, ReadType, Replica, TreeFields DEF FileMsgs, TypeInv, TypeOK
<1>3. conns' = Append(conns, m)
  BY DEF UploadFile
<1> HIDE DEF m
<1>4. /\ Len(conns) \in Nat /\ Len(conns') = Len(conns) + 1
      /\ \A i \in 1 .. Len(conns) : conns'[i] = conns[i]
      /\ conns'[Len(conns) + 1] = m
  BY <1>2, <1>3, AppendIndices
<1>5. UNCHANGED <<edits, disk, dirs, serverDirTree, pc, tree, cur, writing, reply>>
  BY DEF UploadFile, userVars, fsVars, serverVars
<1>6. /\ \A b \in Clients : b # c => Unmoved(b)
      /\ todo'[c].upFiles = todo[c].upFiles \ {f}
      /\ todo'[c].downFiles = todo[c].downFiles
  BY DEF UploadFile, Unmoved, TypeInv, TypeOK, Todos
<1> QED
  BY <1>1, <1>4, <1>5, <1>6 DEF m

LEMMA UploadSaved ==
  ASSUME Base, SavedInv, NEW c \in Clients, NEW f \in Files, UploadFile(c, f)
  PROVE  SavedInv'
<1> USE DEF Base, SavedInv
<1>1. UNCHANGED <<edits, disk, dirs, serverDirTree, pc, tree, cur, writing, reply>>
  BY UploadEffect
<1>2. OnlySavedContents' /\ IndexedFilesExist' /\ ListedOnDisk' /\ RepliesSaved'
  BY <1>1 DEF OnlySavedContents, IndexedFilesExist, ListedOnDisk, RepliesSaved
<1>3. \A b \in Clients : todo'[b].downFiles = todo[b].downFiles
  BY UploadEffect DEF Unmoved
<1>4. DownloadsListed'
  BY <1>1, <1>3 DEF DownloadsListed
<1>5. Read(c, f) \in LeftBySaves(edits[f])
  <2>1. tree[c].files[f] # None
    BY UploadEffect
  <2>2. disk[c][f] # None
    BY <2>1 DEF ListedOnDisk
  <2> QED
    BY <2>2, Replica DEF OnlySavedContents, Read
<1>6. /\ Len(conns) \in Nat /\ Len(conns') = Len(conns) + 1
      /\ \A i \in 1 .. Len(conns) : conns'[i] = conns[i]
      /\ conns'[Len(conns) + 1].file = f
      /\ conns'[Len(conns) + 1].data = Read(c, f)
  <2>1. conns'[Len(conns) + 1] = [type |-> "File", file |-> f, metadata |-> tree[c].files[f],
                                  data |-> Read(c, f)]
    BY UploadEffect
  <2> QED
    BY <2>1, UploadEffect
<1>7. UploadsSaved'
  <2>1. ASSUME NEW i \in 1 .. Len(conns'), conns'[i].type = "File"
        PROVE  conns'[i].data \in LeftBySaves(edits[conns'[i].file])
    <3>1. i \in 1 .. Len(conns) \/ i = Len(conns) + 1
      BY <1>6
    <3>2. CASE i \in 1 .. Len(conns)
      BY <1>6, <2>1, <3>2 DEF UploadsSaved
    <3>3. CASE i = Len(conns) + 1
      BY <1>5, <1>6, <3>3
    <3> QED
      BY <3>1, <3>2, <3>3
  <2> QED
    BY <1>1, <2>1 DEF UploadsSaved
<1> QED
  BY <1>2, <1>4, <1>7

LEMMA RequestEffect ==
  ASSUME TypeInv, NEW c \in Clients, NEW f \in Files, RequestFile(c, f)
  PROVE  /\ UNCHANGED <<edits, disk, dirs, serverDirTree, tree, todo, writing, reply>>
         /\ \A b \in Clients : b # c => Unmoved(b)
         /\ pc[c] = "transfer" /\ pc'[c] = "fetch" /\ cur'[c] = f
         /\ f \in todo[c].downFiles /\ todo[c].upFiles = {}
         /\ Len(conns) \in Nat /\ Len(conns') = Len(conns) + 1
         /\ \A i \in 1 .. Len(conns) : conns'[i] = conns[i]
         /\ conns'[Len(conns) + 1].type = "FileMetadata"
<1> DEFINE m == [type |-> "FileMetadata", file |-> f, client |-> c]
<1>1. conns \in Seq(FileMsgs \cup MetadataMsgs) /\ m \in FileMsgs \cup MetadataMsgs
  BY DEF MetadataMsgs, TypeInv, TypeOK
<1>2. conns' = Append(conns, m) /\ m.type = "FileMetadata"
  BY DEF RequestFile
<1> HIDE DEF m
<1>3. /\ Len(conns) \in Nat /\ Len(conns') = Len(conns) + 1
      /\ \A i \in 1 .. Len(conns) : conns'[i] = conns[i]
      /\ conns'[Len(conns) + 1].type = "FileMetadata"
  BY <1>1, <1>2, AppendIndices
<1>4. /\ UNCHANGED <<edits, disk, dirs, serverDirTree, tree, todo, writing, reply>>
      /\ \A b \in Clients : b # c => Unmoved(b)
  BY DEF RequestFile, Unmoved, userVars, fsVars, serverVars, TypeInv, TypeOK
<1>5. /\ pc[c] = "transfer" /\ pc'[c] = "fetch" /\ cur'[c] = f
      /\ f \in todo[c].downFiles /\ todo[c].upFiles = {}
  BY DEF RequestFile, DownFilesLeft, DirsDone, TypeInv, TypeOK
<1> QED
  BY <1>3, <1>4, <1>5

LEMMA RequestSaved ==
  ASSUME Base, SavedInv, NEW c \in Clients, NEW f \in Files, RequestFile(c, f)
  PROVE  SavedInv'
<1> USE DEF Base, SavedInv
<1>1. UNCHANGED <<edits, disk, dirs, serverDirTree, tree, todo, writing, reply>>
  BY RequestEffect
<1>2. \A b \in Clients : b # c => pc'[b] = pc[b] /\ cur'[b] = cur[b]
  BY RequestEffect DEF Unmoved
<1>3. pc[c] = "transfer" /\ pc'[c] = "fetch" /\ cur'[c] = f /\ f \in todo[c].downFiles
  BY RequestEffect
<1>4. OnlySavedContents' /\ IndexedFilesExist'
  BY <1>1 DEF OnlySavedContents, IndexedFilesExist
<1>5. ListedOnDisk'
  BY <1>1, <1>2, <1>3 DEF ListedOnDisk
<1>6. RepliesSaved'
  BY <1>1, <1>2, <1>3 DEF RepliesSaved, OneAnswer, AnswerDue
<1>7. DownloadsListed'
  BY <1>1, <1>2, <1>3 DEF DownloadsListed
<1>8. UploadsSaved'
  <2>1. ASSUME NEW i \in 1 .. Len(conns'), conns'[i].type = "File"
        PROVE  conns'[i].data \in LeftBySaves(edits[conns'[i].file])
    <3>1. i \in 1 .. Len(conns) /\ conns'[i] = conns[i]
      BY <2>1, RequestEffect
    <3> QED
      BY <2>1, <3>1 DEF UploadsSaved
  <2> QED
    BY <1>1, <2>1 DEF UploadsSaved
<1> QED
  BY <1>4, <1>5, <1>6, <1>7, <1>8

LEMMA ReceiveEffect ==
  ASSUME TypeInv, NEW c \in Clients, ReceiveFile(c)
  PROVE  /\ UNCHANGED <<edits, dirs, serverDirTree, tree, conns, writing>>
         /\ \A b \in Clients : b # c => Unmoved(b) /\ reply'[b] = reply[b]
         /\ pc[c] = "fetch" /\ pc'[c] = "transfer"
         /\ cur[c] \in Files /\ reply[c] \in Contents /\ reply[c] # None
         /\ reply'[c] = None
         /\ todo'[c].upFiles = todo[c].upFiles
         /\ todo'[c].downFiles \subseteq todo[c].downFiles
         /\ disk' = Written(c, cur[c], reply[c])
BY DEF ReceiveFile, Unmoved, userVars, serverVars, TypeInv, TypeOK, CursorOK, Todos

LEMMA ReceiveSaved ==
  ASSUME Base, SavedInv, NEW c \in Clients, ReceiveFile(c)
  PROVE  SavedInv'
<1> USE DEF Base, SavedInv
<1>1. UNCHANGED <<edits, dirs, serverDirTree, tree, conns, writing>>
  BY ReceiveEffect
<1>2. reply[c] \in LeftBySaves(edits[cur[c]]) /\ cur[c] \in Files
  BY ReceiveEffect DEF RepliesSaved
<1>3. /\ \A q \in Replicas, g \in Files : q # c \/ g # cur[c] => disk'[q][g] = disk[q][g]
      /\ \/ disk'[c][cur[c]] = disk[c][cur[c]]
         \/ disk'[c][cur[c]] # None /\ disk'[c][cur[c]].data = reply[c]
  BY WrittenEffect, ReceiveEffect, Replica DEF TypeInv
<1>4. OnlySavedContents'
  <2> SUFFICES ASSUME NEW r \in Replicas, NEW g \in Files, disk'[r][g] # None
               PROVE  disk'[r][g].data \in LeftBySaves(edits'[g])
    BY DEF OnlySavedContents
  <2>1. CASE r = c /\ g = cur[c]
    BY <1>1, <1>2, <1>3, <2>1, Replica DEF OnlySavedContents
  <2>2. CASE ~ (r = c /\ g = cur[c])
    BY <1>1, <1>3, <2>2 DEF OnlySavedContents
  <2> QED
    BY <2>1, <2>2
<1>5. \A r \in Replicas, g \in Files : disk[r][g] # None => disk'[r][g] # None
  BY <1>3
<1>6. \A b \in Clients : pc'[b] = "hash" => pc[b] = "hash" /\ cur'[b] = cur[b]
  BY ReceiveEffect DEF Unmoved
<1>7. \A b \in Clients : pc[b] = "hash" => cur[b].file \in Files
  BY DEF TypeInv, CursorOK, Stats
<1>8. IndexedFilesExist'
  BY <1>1, <1>5, Replica DEF IndexedFilesExist
<1>9. ListedOnDisk'
  BY <1>1, <1>5, <1>6, <1>7, Replica DEF ListedOnDisk
<1>10. UploadsSaved'
  BY <1>1 DEF UploadsSaved
<1>11. RepliesSaved'
  BY <1>1, ReceiveEffect DEF RepliesSaved, Unmoved
<1>12. DownloadsListed'
  BY <1>1, ReceiveEffect DEF DownloadsListed, Unmoved
<1> QED
  BY <1>4, <1>8, <1>9, <1>10, <1>11, <1>12

-----------------------------------------------------------------------------
(***************************************************************************)
(* The asio thread.                                                        *)
(***************************************************************************)
\* It takes the connection at the head.
LEMMA HeadTaken ==
  ASSUME TypeInv, conns # <<>>, conns' = Tail(conns)
  PROVE  /\ Head(conns) = conns[1] /\ 1 \in 1 .. Len(conns)
         /\ Head(conns) \in FileMsgs \cup MetadataMsgs
         /\ \A i \in 1 .. Len(conns') : i + 1 \in 1 .. Len(conns) /\ conns'[i] = conns[i + 1]
<1>1. /\ Head(conns) = conns[1] /\ Len(conns) >= 1 /\ Len(conns) \in Nat
      /\ Len(conns') = Len(conns) - 1
      /\ \A i \in 1 .. Len(conns) - 1 : conns'[i] = conns[i + 1]
  BY TailIndices DEF TypeInv, TypeOK
<1>2. 1 \in 1 .. Len(conns)
  BY <1>1
<1>3. conns[1] \in FileMsgs \cup MetadataMsgs
  BY <1>2, ConnFiles DEF TypeInv
<1> QED
  BY <1>1, <1>2, <1>3

LEMMA AcceptFileEffect ==
  ASSUME TypeInv, AcceptFile
  PROVE  /\ UNCHANGED <<edits, disk, dirs, pc, tree, todo, cur, reply>>
         /\ writing = None /\ conns # <<>> /\ conns' = Tail(conns)
         /\ Head(conns) \in FileMsgs
         /\ writing' = [file |-> Head(conns).file, data |-> Head(conns).data]
         /\ writing' # None
         /\ \A g \in Files : g # Head(conns).file => serverDirTree'.files[g] = serverDirTree.files[g]
         /\ serverDirTree'.files[Head(conns).file] = Head(conns).metadata
         /\ Head(conns).metadata # None
<1>1. /\ UNCHANGED <<edits, disk, dirs, pc, tree, todo, cur, reply>>
      /\ writing = None /\ conns # <<>> /\ conns' = Tail(conns)
      /\ Head(conns).type = "File"
      /\ writing' = [file |-> Head(conns).file, data |-> Head(conns).data]
      /\ serverDirTree' = [serverDirTree EXCEPT !.files[Head(conns).file] = Head(conns).metadata]
  BY DEF AcceptFile, NextConn, userVars, fsVars, clientVars
<1>2. Head(conns) \in FileMsgs
  BY <1>1, HeadTaken DEF MetadataMsgs
<1>3. writing' \in Writes /\ Head(conns).metadata \in Metadata /\ Head(conns).file \in Files
  BY <1>1, <1>2 DEF FileMsgs, Writes
<1>4. writing' # None /\ Head(conns).metadata # None
  BY <1>3, DiSyAssumption, NoneAssumption
<1>5. serverDirTree'.files = [serverDirTree.files EXCEPT ![Head(conns).file] = Head(conns).metadata]
  BY <1>1 DEF TypeInv, TypeOK, Trees
<1>6. serverDirTree.files \in [Files -> Metadata \cup {None}]
  BY DEF TypeInv, TypeOK, Trees, FileMap
<1> QED
  BY <1>1, <1>2, <1>3, <1>4, <1>5, <1>6

LEMMA AcceptFileSaved ==
  ASSUME Base, SavedInv, AcceptFile
  PROVE  SavedInv'
<1> USE DEF Base, SavedInv
<1>1. UNCHANGED <<edits, disk, dirs, pc, tree, todo, cur, reply>>
  BY AcceptFileEffect
<1>2. OnlySavedContents' /\ ListedOnDisk' /\ RepliesSaved'
  BY <1>1 DEF OnlySavedContents, ListedOnDisk, RepliesSaved
<1>3. \A g \in Files :
        /\ serverDirTree.files[g] # None => serverDirTree'.files[g] # None
        /\ serverDirTree'.files[g] # None => serverDirTree.files[g] # None \/ g = Head(conns).file
  BY AcceptFileEffect
<1>4. writing = None /\ writing' # None /\ writing'.file = Head(conns).file
      /\ writing'.data = Head(conns).data
  BY AcceptFileEffect
<1>5. IndexedFilesExist'
  BY <1>1, <1>3, <1>4 DEF IndexedFilesExist
<1>6. DownloadsListed'
  BY <1>1, <1>3, TodoFields DEF DownloadsListed, TypeInv, TypeOK, CursorOK
<1>7. Head(conns).data \in LeftBySaves(edits[Head(conns).file])
  BY AcceptFileEffect, HeadTaken DEF UploadsSaved, FileMsgs
<1>8. \A i \in 1 .. Len(conns') : i + 1 \in 1 .. Len(conns) /\ conns'[i] = conns[i + 1]
  BY AcceptFileEffect, HeadTaken
<1>9. UploadsSaved'
  BY <1>1, <1>4, <1>7, <1>8 DEF UploadsSaved
<1> QED
  BY <1>2, <1>5, <1>6, <1>9

LEMMA WriteSaved ==
  ASSUME Base, SavedInv, WriteFile
  PROVE  SavedInv'
<1> USE DEF Base, SavedInv
<1>1. /\ UNCHANGED <<edits, dirs, serverDirTree, pc, tree, todo, cur, conns, reply>>
      /\ writing # None /\ writing' = None
      /\ disk' = Written(Server, writing.file, writing.data)
  BY DEF WriteFile, userVars, serverVars, clientVars
<1>2. writing.file \in Files /\ writing.data \in Contents /\ writing.data \in LeftBySaves(edits[writing.file])
  BY <1>1 DEF UploadsSaved, TypeInv, TypeOK, Writes
<1>3. Above[writing.file] \subseteq dirs[Server]
  BY <1>1 DEF DeliveryInv, UploadsLand
<1>4. /\ \A q \in Replicas, g \in Files : q # Server \/ g # writing.file => disk'[q][g] = disk[q][g]
      /\ disk'[Server][writing.file] # None /\ disk'[Server][writing.file].data = writing.data
  BY <1>1, <1>2, <1>3, WrittenEffect, Replica DEF TypeInv
<1>5. OnlySavedContents'
  <2> SUFFICES ASSUME NEW r \in Replicas, NEW g \in Files, disk'[r][g] # None
               PROVE  disk'[r][g].data \in LeftBySaves(edits'[g])
    BY DEF OnlySavedContents
  <2>1. CASE r = Server /\ g = writing.file
    BY <1>1, <1>2, <1>4, <2>1
  <2>2. CASE ~ (r = Server /\ g = writing.file)
    BY <1>1, <1>4, <2>2 DEF OnlySavedContents
  <2> QED
    BY <2>1, <2>2
<1>6. \A r \in Replicas, g \in Files : disk[r][g] # None => disk'[r][g] # None
  BY <1>4
<1>7. IndexedFilesExist'
  BY <1>1, <1>4, <1>6, Replica DEF IndexedFilesExist
<1>8. \A b \in Clients : pc[b] = "hash" => cur[b].file \in Files
  BY DEF TypeInv, CursorOK, Stats
<1>9. ListedOnDisk'
  BY <1>1, <1>6, <1>8, Replica DEF ListedOnDisk
<1>10. UploadsSaved' /\ RepliesSaved' /\ DownloadsListed'
  BY <1>1 DEF UploadsSaved, RepliesSaved, DownloadsListed
<1> QED
  BY <1>5, <1>7, <1>9, <1>10

\* The client whose request is taken waits for that file, so the server lists
\* it; nothing is being written, so the server has it.
LEMMA AcceptRequestSaved ==
  ASSUME Base, SavedInv, AcceptRequest
  PROVE  SavedInv'
<1> USE DEF Base, SavedInv
<1> DEFINE m == Head(conns)
           c == m.client
<1>1. /\ UNCHANGED <<edits, disk, dirs, serverDirTree, pc, tree, todo, cur, writing>>
      /\ writing = None /\ conns # <<>> /\ conns' = Tail(conns) /\ m.type = "FileMetadata"
      /\ reply' = [reply EXCEPT ![c] = Read(Server, m.file)]
  BY DEF AcceptRequest, NextConn, userVars, fsVars, serverVars, clientVars
<1>2. m = conns[1] /\ 1 \in 1 .. Len(conns) /\ c \in Clients /\ m.file \in Files
  BY <1>1, HeadTaken DEF FileMsgs, MetadataMsgs
<1>3. 1 \in Requests(c)
  BY <1>1, <1>2 DEF Requests
<1>4. pc[c] = "fetch" /\ m.file = cur[c]
  BY <1>2, <1>3 DEF OneAnswer, AnswerDue
<1>5. serverDirTree.files[m.file] # None
  BY <1>2, <1>4 DEF DownloadsListed
<1>6. disk[Server][m.file] # None
  BY <1>1, <1>2, <1>5 DEF IndexedFilesExist
<1>7. Read(Server, m.file) \in LeftBySaves(edits[cur[c]])
  BY <1>2, <1>4, <1>6, Replica DEF Read, OnlySavedContents
<1> HIDE DEF m, c
<1>8. RepliesSaved'
  BY <1>1, <1>2, <1>7 DEF RepliesSaved, TypeInv, TypeOK
<1>9. OnlySavedContents' /\ IndexedFilesExist' /\ ListedOnDisk' /\ DownloadsListed'
  BY <1>1 DEF OnlySavedContents, IndexedFilesExist, ListedOnDisk, DownloadsListed
<1>10. \A i \in 1 .. Len(conns') : i + 1 \in 1 .. Len(conns) /\ conns'[i] = conns[i + 1]
  BY <1>1, HeadTaken
<1>11. UploadsSaved'
  BY <1>1, <1>10 DEF UploadsSaved
<1> QED
  BY <1>8, <1>9, <1>11

-----------------------------------------------------------------------------
LEMMA SavedStep ==
  ASSUME NoDirectoryLost, Base, SavedInv, [Next]_vars
  PROVE  SavedInv'
<1> DEFINE Quiets == FilesQuiet /\ \A b \in Clients : ClientQuiet(b)
<1>1. TypeInv /\ OneAnswer /\ DeliveryInv
  BY DEF Base
<1>2. Quiets => SavedInv'
  BY <1>1, SavedQuiet
<1>3. ASSUME NEW c \in Clients, UserStep(c) PROVE SavedInv'
  <2>1. CASE (\E f \in Files : EditFile(c, f) \/ BeginSave(c, f)) \/ EndSave(c)
    BY <1>1, <2>1, EditSaves, BeginSaves, EndSaves, SaveSaved
  <2>2. CASE \E d \in Dirs : NewDirectory(c, d)
    BY <1>1, <1>2, <2>2, OtherStepQuiet
  <2> QED
    BY <1>3, <2>1, <2>2 DEF UserStep
<1>4. ASSUME NEW c \in Clients, CrawlStep(c) PROVE SavedInv'
  <2>1. CASE BeginCrawl(c)
    BY <1>1, <1>2, <2>1, CrawlStepQuiet
  <2> QED
    BY <1>4, <2>1, VisitSaved, HashFileSaved DEF CrawlStep
<1>5. ASSUME NEW c \in Clients, UpdateStep(c) \/ UpdateLost(c) PROVE SavedInv'
  <2>1. CASE CallUpdate(c)
    BY <1>1, <1>2, <2>1, CrawlStepQuiet
  <2>2. CASE UpdateRefused(c) \/ UpdateLost(c)
    BY <1>1, <1>2, <2>2, RoundStepQuiet
  <2>3. CASE ProcessUpdate(c)
    BY <2>3, ProcessUpdateSaved
  <2> QED
    BY <1>5, <2>1, <2>2, <2>3 DEF UpdateStep
<1>6. ASSUME NEW c \in Clients, TransferStep(c) PROVE SavedInv'
  <2>1. ASSUME NEW d \in Dirs,
               \/ SendDirectory(c, d) \/ SendDirectoryFails(c, d)
               \/ DownloadDirectory(c, d) \/ DownloadDirectoryFails(c, d)
        PROVE  SavedInv'
    BY <1>1, <1>2, <2>1, DirectoryStepQuiet
  <2>2. CASE IndexDirectory(c)
    BY <1>1, <1>2, <2>2, IndexStepQuiet
  <2>3. CASE ConnectFails(c) \/ RoundDone(c)
    BY <1>1, <1>2, <2>3, RoundStepQuiet
  <2>4. ASSUME NEW f \in Files, UploadFile(c, f) \/ RequestFile(c, f) PROVE SavedInv'
    BY <2>4, UploadSaved, RequestSaved
  <2>5. CASE ReceiveFile(c)
    BY <2>5, ReceiveSaved
  <2> QED
    BY <1>6, <2>1, <2>2, <2>3, <2>4, <2>5 DEF TransferStep
<1>7. CASE AsioStep
  BY <1>7, AcceptFileSaved, WriteSaved, AcceptRequestSaved DEF AsioStep
<1>8. CASE Tick \/ UNCHANGED vars
  BY <1>1, <1>2, <1>8, OtherStepQuiet
<1>9. ~ ServerStop /\ ~ ServerStart
  BY <1>1, ServerStaysUp DEF DeliveryInv, ServerStart
<1> QED
  BY <1>3, <1>4, <1>5, <1>6, <1>7, <1>8, <1>9 DEF Next, ClientStep

LEMMA SavedInit == Init => SavedInv
BY DEF Init, SavedInv, OnlySavedContents, IndexedFilesExist, ListedOnDisk, UploadsSaved,
       RepliesSaved, DownloadsListed, EmptyTree, NoTodo

\* As long as no SendDirectory call is lost and the server does not stop, no
\* replica ever holds anything but what a user's save put there, although users
\* edit at any moment and a missing file would be read, and spread, as an empty
\* one.  If saves replace files whole (Mixtures = {}) that is a saved version;
\* if they write over files while these are hashed and sent it may also be
\* a half-saved file, which then spreads like any other.
THEOREM ContentsWereSaved == NoDirectoryLost => (Spec => []OnlySavedContents)
<1> SUFFICES ASSUME NoDirectoryLost PROVE Spec => []OnlySavedContents
  OBVIOUS
<1>1. Init => DirsInv /\ DeliveryInv /\ SavedInv
  BY DeliveryInit, SavedInit
<1>2. TypeInv /\ OneAnswer /\ DirsInv /\ DeliveryInv /\ SavedInv /\ [Next]_vars
      => DirsInv' /\ DeliveryInv' /\ SavedInv'
  BY DirsStep, DeliveryStep, SavedStep DEF Base
<1>3. SavedInv => OnlySavedContents
  BY DEF SavedInv
<1> QED
  BY <1>1, <1>2, <1>3, TypesAndCursors, AnswersMatchRequests, PTL DEF Spec

\* Under the same condition the server never lists a file that it neither has
\* nor is about to write.
THEOREM ListedFilesExist == NoDirectoryLost => (Spec => []IndexedFilesExist)
<1> SUFFICES ASSUME NoDirectoryLost PROVE Spec => []IndexedFilesExist
  OBVIOUS
<1>1. Init => DirsInv /\ DeliveryInv /\ SavedInv
  BY DeliveryInit, SavedInit
<1>2. TypeInv /\ OneAnswer /\ DirsInv /\ DeliveryInv /\ SavedInv /\ [Next]_vars
      => DirsInv' /\ DeliveryInv' /\ SavedInv'
  BY DirsStep, DeliveryStep, SavedStep DEF Base
<1>3. SavedInv => IndexedFilesExist
  BY DEF SavedInv
<1> QED
  BY <1>1, <1>2, <1>3, TypesAndCursors, AnswersMatchRequests, PTL DEF Spec

=============================================================================
