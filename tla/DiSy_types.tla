---------------------------- MODULE DiSy_types -----------------------------
(***************************************************************************)
(* What holds of DiSy for any number of clients, directories, files and    *)
(* edits, and in which regimes of users and faults.                        *)
(***************************************************************************)
EXTENDS DiSy, TLAPS

-----------------------------------------------------------------------------
(***************************************************************************)
(* Types.                                                                  *)
(***************************************************************************)

\* cur holds what the step under way needs.
CursorOK ==
  \A c \in Clients :
    /\ pc[c] = "hash" => cur[c] \in Stats
    /\ pc[c] = "index" => cur[c] \in Dirs
    /\ pc[c] = "fetch" => cur[c] \in Files

\* A client is only asked to upload what it has listed.
UploadsListed ==
  \A c \in Clients : \A f \in todo[c].upFiles : tree[c].files[f] # None

Typed == TypeOK /\ CursorOK /\ UploadsListed

\* A save can be watched only where saves write over files at any moment, and
\* its version is counted when it begins.
SavingOK ==
  \A c \in Clients :
    saving[c] # None => SavesInPlace /\ saving[c].data \in 1 .. edits[saving[c].file]

TypeInv == TypeOK /\ CursorOK /\ UploadsListed /\ SavingOK

LEMMA TodoFields ==
  ASSUME NEW t \in Todos
  PROVE  /\ \A v \in SUBSET Paths : [t EXCEPT !.visit = v] \in Todos
         /\ \A v \in SUBSET Dirs : [t EXCEPT !.upDirs = v] \in Todos
         /\ \A v \in SUBSET Dirs : [t EXCEPT !.downDirs = v] \in Todos
         /\ \A v \in SUBSET Files : [t EXCEPT !.upFiles = v] \in Todos
         /\ \A v \in SUBSET Files : [t EXCEPT !.downFiles = v] \in Todos
         /\ t.visit \subseteq Paths
         /\ t.upDirs \subseteq Dirs
         /\ t.downDirs \subseteq Dirs
         /\ t.upFiles \subseteq Files
         /\ t.downFiles \subseteq Files
BY DEF Todos

LEMMA TreeFields ==
  ASSUME NEW t \in Trees
  PROVE  /\ \A v \in SUBSET Dirs : [t EXCEPT !.dirs = v] \in Trees
         /\ \A f \in Files, m \in Metadata : [t EXCEPT !.files[f] = m] \in Trees
         /\ t.dirs \subseteq Dirs
         /\ \A f \in Files : t.files[f] = None \/ t.files[f] \in Metadata
BY DEF Trees, FileMap

LEMMA Blank == NoTodo \in Todos /\ EmptyTree \in Trees
BY DEF NoTodo, Todos, EmptyTree, Trees, FileMap

LEMMA EmptyType == Empty \in Contents
BY DiSyAssumption DEF Contents, Versions, Empty

LEMMA HashType == \A v \in Contents : Digest[v] \in Hashes
BY DiSyAssumption

LEMMA ReadType ==
  ASSUME TypeOK, NEW r \in Replicas, NEW f \in Files
  PROVE  Read(r, f) \in Contents
BY DiSyAssumption DEF TypeOK, Read, FilesOnDisk, Contents, Versions, Empty

LEMMA ClockType ==
  ASSUME TypeOK, NEW r \in Replicas
  PROVE  Clock(r) \in Nat
BY DiSyAssumption DEF TypeOK, Clock

LEMMA WrittenType ==
  ASSUME TypeOK, NEW r \in Replicas, NEW f \in Files, NEW v \in Contents
  PROVE  Written(r, f, v) \in [Replicas -> [Files -> FilesOnDisk \cup {None}]]
<1>1. [mtime |-> Clock(r), data |-> v] \in FilesOnDisk
  BY ClockType DEF FilesOnDisk
<1> QED
  BY <1>1 DEF TypeOK, Written

LEMMA CreatedType ==
  ASSUME TypeOK, NEW r \in Replicas, NEW d \in Dirs
  PROVE  Created(r, d) \in [Replicas -> SUBSET Dirs]
BY PathsAssumption DEF TypeOK, Created, Paths

LEMMA MetadataRead ==
  ASSUME NEW t \in Nat, NEW v \in Contents
  PROVE  [mtime |-> t, hash |-> Digest[v]] \in Metadata
BY HashType DEF Metadata

LEMMA CrawledType ==
  ASSUME TypeOK, NEW r \in Replicas
  PROVE  Crawled(r) \in Trees
BY MetadataRead DEF TypeOK, Crawled, Trees, FileMap, FilesOnDisk

LEMMA Replica == Server \in Replicas /\ \A c \in Clients : c \in Replicas
BY DEF Replicas

LEMMA SavedType ==
  ASSUME TypeOK, NEW c \in Clients, NEW f \in Files, NEW v \in Contents
  PROVE  Saved(c, f, v) \in [Replicas -> [Files -> FilesOnDisk \cup {None}]]
<1>1. [mtime |-> Clock(c), data |-> v] \in FilesOnDisk
  BY ClockType, Replica DEF FilesOnDisk
<1> QED
  BY <1>1, Replica DEF TypeOK, Saved

\* The version that a save adds is one the model has, and is counted.
LEMMA VersionType ==
  ASSUME TypeOK, NEW f \in Files, edits[f] < MaxEdits
  PROVE  /\ edits[f] + 1 \in Contents
         /\ [edits EXCEPT ![f] = @ + 1] \in [Files -> 0 .. MaxEdits]
BY DiSyAssumption DEF TypeOK, Contents, Versions, Empty

LEMMA TypedStep == Typed /\ [Next]_vars => Typed'
<1> SUFFICES ASSUME Typed, [Next]_vars PROVE Typed'
  OBVIOUS
<1>1. ASSUME NEW c \in Clients, NEW f \in Files, EditFile(c, f) PROVE Typed'
  <2>1. disk' \in [Replicas -> [Files -> FilesOnDisk \cup {None}]]
    BY <1>1, SavedType, VersionType, Replica DEF EditFile, MaySave, Typed
  <2>2. edits' \in [Files -> 0 .. MaxEdits]
    BY <1>1, VersionType DEF EditFile, MaySave, Typed
  <2> QED
    BY <1>1, <2>1, <2>2 DEF EditFile, Typed, TypeOK, serverVars, clientVars, asioVars, CursorOK, UploadsListed
<1>31. ASSUME NEW c \in Clients, NEW f \in Files, BeginSave(c, f) PROVE Typed'
  <2>1. disk' \in [Replicas -> [Files -> FilesOnDisk \cup {None}]]
    BY <1>31, SavedType, Replica DEF BeginSave, Contents, Typed
  <2>2. saving' \in [Clients -> Writes \cup {None}]
    BY <1>31, VersionType DEF BeginSave, MaySave, Writes, Typed, TypeOK
  <2>3. edits' \in [Files -> 0 .. MaxEdits]
    BY <1>31, VersionType DEF BeginSave, MaySave, Typed
  <2> QED
    BY <1>31, <2>1, <2>2, <2>3 DEF BeginSave, Typed, TypeOK, serverVars, clientVars, asioVars, CursorOK, UploadsListed
<1>32. ASSUME NEW c \in Clients, EndSave(c) PROVE Typed'
  <2>1. saving[c].file \in Files /\ {saving[c].data} \cup Mixtures \subseteq Contents
    BY <1>32 DEF EndSave, Typed, TypeOK, Writes, Contents
  <2>2. disk' \in [Replicas -> [Files -> FilesOnDisk \cup {None}]]
    BY <1>32, <2>1, SavedType, Replica DEF EndSave, Typed
  <2> QED
    BY <1>32, <2>2 DEF EndSave, Typed, TypeOK, serverVars, clientVars, asioVars, CursorOK, UploadsListed
<1>2. ASSUME NEW c \in Clients, NEW d \in Dirs, NewDirectory(c, d) PROVE Typed'
  BY <1>2 DEF NewDirectory, Typed, TypeOK, PCs, UpdateSteps, userVars, fsVars, serverVars, clientVars, asioVars, CursorOK, UploadsListed
<1>3. CASE Tick
  BY <1>3 DEF Tick, Typed, TypeOK, PCs, UpdateSteps, userVars, fsVars, serverVars, clientVars, asioVars, CursorOK, UploadsListed
<1>4. ASSUME NEW c \in Clients, BeginCrawl(c) PROVE Typed'
  <2>1. todo' \in [Clients -> Todos]
    BY <1>4, TodoFields DEF BeginCrawl, Typed, TypeOK
  <2>2. CursorOK'
    BY <1>4 DEF BeginCrawl, Typed, TypeOK, CursorOK, clientVars
  <2>3. UploadsListed'
    BY <1>4 DEF BeginCrawl, Typed, TypeOK, UploadsListed, Todos, NoTodo, Trees
  <2> QED
    BY <1>4, <2>1, <2>2, <2>3 DEF BeginCrawl, Typed, TypeOK, PCs, UpdateSteps, userVars, fsVars, serverVars, clientVars, asioVars
<1>5. ASSUME NEW c \in Clients, NEW p \in Paths, Visit(c, p) PROVE Typed'
  <2> DEFINE seen == Above[p] \subseteq tree[c].dirs
  <2>1. todo' \in [Clients -> Todos]
    BY <1>5, TodoFields DEF Visit, Typed, TypeOK
  <2>2. \A b \in Clients : todo'[b].upFiles = todo[b].upFiles
    BY <1>5 DEF Visit, Typed, TypeOK, Todos
  <2>3. CASE seen /\ p \in dirs[c]
    <3>1. tree' = [tree EXCEPT ![c].dirs = @ \cup {p}] /\ UNCHANGED <<pc, cur>>
      BY <1>5, <2>3 DEF Visit
    <3>2. p \in Dirs
      BY <2>3, Replica DEF Typed, TypeOK
    <3>3. tree[c] \in Trees /\ tree[c].dirs \cup {p} \in SUBSET Dirs
      BY <3>2, TreeFields DEF Typed, TypeOK
    <3>4. [tree[c] EXCEPT !.dirs = tree[c].dirs \cup {p}] \in Trees
      BY <3>3, TreeFields
    <3>5. tree' \in [Clients -> Trees]
      BY <3>1, <3>4 DEF Typed, TypeOK
    <3>6. UploadsListed'
      BY <2>2, <3>1 DEF Typed, TypeOK, UploadsListed, Trees
    <3> QED
      BY <1>5, <2>1, <3>1, <3>5, <3>6 DEF Visit, Typed, TypeOK, CursorOK, userVars, fsVars, serverVars, asioVars
  <2>4. CASE ~ (seen /\ p \in dirs[c]) /\ seen /\ p \in Files /\ disk[c][p] # None
    <3>1. /\ pc' = [pc EXCEPT ![c] = "hash"]
          /\ cur' = [cur EXCEPT ![c] = [file |-> p, mtime |-> disk[c][p].mtime]]
          /\ UNCHANGED tree
      BY <1>5, <2>4 DEF Visit
    <3>2. disk[c][p] \in FilesOnDisk
      BY <2>4, Replica DEF Typed, TypeOK
    <3>3. [file |-> p, mtime |-> disk[c][p].mtime] \in Stats
      BY <2>4, <3>2 DEF FilesOnDisk, Stats
    <3>4. cur' \in [Clients -> Paths \cup Stats \cup {None}] /\ pc' \in [Clients -> PCs]
      BY <3>1, <3>3 DEF Typed, TypeOK, PCs
    <3>5. CursorOK'
      BY <3>1, <3>3 DEF Typed, TypeOK, CursorOK
    <3>6. UploadsListed'
      BY <2>2, <3>1 DEF Typed, UploadsListed
    <3> QED
      BY <1>5, <2>1, <3>1, <3>4, <3>5, <3>6 DEF Visit, Typed, TypeOK, userVars, fsVars, serverVars, asioVars
  <2>5. CASE ~ (seen /\ p \in dirs[c]) /\ ~ (seen /\ p \in Files /\ disk[c][p] # None)
    <3>1. UNCHANGED <<pc, tree, cur>>
      BY <1>5, <2>5 DEF Visit
    <3> QED
      BY <1>5, <2>1, <2>2, <3>1 DEF Visit, Typed, TypeOK, CursorOK, UploadsListed, userVars, fsVars, serverVars, asioVars
  <2> QED
    BY <2>3, <2>4, <2>5
<1>6. ASSUME NEW c \in Clients, HashFile(c) PROVE Typed'
  <2>1. tree' \in [Clients -> Trees]
    BY <1>6, TreeFields, MetadataRead, ReadType, Replica DEF HashFile, Stats, CursorOK, Typed, TypeOK
  <2>2. CursorOK'
    BY <1>6 DEF HashFile, Read, Typed, TypeOK, CursorOK, clientVars
  <2>3. UploadsListed'
    <3>1. cur[c].file \in Files
      BY <1>6 DEF HashFile, Typed, CursorOK, Stats
    <3>2. [mtime |-> cur[c].mtime, hash |-> Digest[Read(c, cur[c].file)]] # None
      BY <1>6, <3>1, ReadType, MetadataRead, Replica, NoneAssumption DEF HashFile, Typed, CursorOK, Stats
    <3>3. \A b \in Clients : \A f \in Files : tree[b].files[f] # None => tree'[b].files[f] # None
      BY <1>6, <3>1, <3>2 DEF HashFile, Typed, TypeOK, Trees, FileMap
    <3> QED
      BY <1>6, <3>3, TodoFields DEF HashFile, Typed, TypeOK, UploadsListed
  <2> QED
    BY <1>6, <2>1, <2>2, <2>3 DEF HashFile, Read, Typed, TypeOK, PCs, UpdateSteps, userVars, fsVars, serverVars, clientVars, asioVars
<1>7. ASSUME NEW c \in Clients, CallUpdate(c) PROVE Typed'
  <2>1. CursorOK'
    BY <1>7 DEF CallUpdate, CrawlDone, Typed, TypeOK, CursorOK
  <2>2. todo' \in [Clients -> Todos]
    BY <1>7, TodoFields DEF CallUpdate, Typed, TypeOK, Paths
  <2>3. UploadsListed'
    BY <1>7 DEF CallUpdate, Typed, TypeOK, UploadsListed, Todos
  <2> QED
    BY <1>7, <2>1, <2>2, <2>3 DEF CallUpdate, CrawlDone, Typed, TypeOK, PCs, UpdateSteps, userVars, fsVars, serverVars, asioVars
<1>8. ASSUME NEW c \in Clients, UpdateRefused(c) PROVE Typed'
  <2>1. todo' \in [Clients -> Todos]
    BY <1>8, TodoFields, Blank DEF UpdateRefused, EndRound, Typed, TypeOK
  <2>2. tree' \in [Clients -> Trees]
    BY <1>8, Blank DEF UpdateRefused, EndRound, Typed, TypeOK
  <2>3. CursorOK'
    BY <1>8 DEF UpdateRefused, EndRound, Typed, TypeOK, CursorOK, clientVars
  <2>4. UploadsListed'
    BY <1>8 DEF UpdateRefused, EndRound, Typed, TypeOK, UploadsListed, Todos, NoTodo, Trees
  <2> QED
    BY <1>8, <2>1, <2>2, <2>3, <2>4 DEF UpdateRefused, EndRound, Typed, TypeOK, PCs, UpdateSteps, userVars, fsVars, serverVars, clientVars, asioVars
<1>9. ASSUME NEW c \in Clients, UpdateLost(c) PROVE Typed'
  <2>1. todo' \in [Clients -> Todos]
    BY <1>9, TodoFields, Blank DEF UpdateLost, EndRound, Fault, Typed, TypeOK
  <2>2. tree' \in [Clients -> Trees]
    BY <1>9, Blank DEF UpdateLost, EndRound, Fault, Typed, TypeOK
  <2>3. CursorOK'
    BY <1>9 DEF UpdateLost, EndRound, Fault, Typed, TypeOK, CursorOK, clientVars
  <2>4. UploadsListed'
    BY <1>9 DEF UpdateLost, EndRound, Fault, Typed, TypeOK, UploadsListed, Todos, NoTodo, Trees
  <2> QED
    BY <1>9, <2>1, <2>2, <2>3, <2>4 DEF UpdateLost, EndRound, Fault, Typed, TypeOK, PCs, UpdateSteps, userVars, fsVars, serverVars, clientVars, asioVars
<1>10. ASSUME NEW c \in Clients, NEW d \in Dirs, CompareClientDir(c, d) PROVE Typed'
  <2>1. todo' \in [Clients -> Todos]
    BY <1>10, TodoFields DEF CompareClientDir, Typed, TypeOK
  <2>2. UploadsListed'
    BY <1>10 DEF CompareClientDir, Compare, Typed, TypeOK, UploadsListed, Todos
  <2> QED
    BY <1>10, <2>1, <2>2 DEF CompareClientDir, Compare, Typed, TypeOK, userVars, fsVars, serverVars, asioVars, CursorOK
<1>11. ASSUME NEW c \in Clients, NEW d \in Dirs, CompareServerDir(c, d) PROVE Typed'
  <2>1. todo' \in [Clients -> Todos]
    BY <1>11, TodoFields DEF CompareServerDir, Typed, TypeOK
  <2>2. UploadsListed'
    BY <1>11 DEF CompareServerDir, Compare, Typed, TypeOK, UploadsListed, Todos
  <2> QED
    BY <1>11, <2>1, <2>2 DEF CompareServerDir, Compare, Typed, TypeOK, userVars, fsVars, serverVars, asioVars, CursorOK
<1>12. ASSUME NEW c \in Clients, NEW f \in Files, CompareClientFile(c, f) PROVE Typed'
  <2>1. todo' \in [Clients -> Todos]
    BY <1>12, TodoFields DEF CompareClientFile, Typed, TypeOK
  <2>2. UploadsListed'
    BY <1>12 DEF CompareClientFile, Compare, WantedFiles, Typed, TypeOK, UploadsListed, Todos
  <2> QED
    BY <1>12, <2>1, <2>2 DEF CompareClientFile, Compare, Typed, TypeOK, userVars, fsVars, serverVars, asioVars, CursorOK
<1>13. ASSUME NEW c \in Clients, NEW f \in Files, CompareServerFile(c, f) PROVE Typed'
  <2>1. todo' \in [Clients -> Todos]
    BY <1>13, TodoFields DEF CompareServerFile, Typed, TypeOK
  <2>2. UploadsListed'
    BY <1>13 DEF CompareServerFile, Compare, Typed, TypeOK, UploadsListed, Todos
  <2> QED
    BY <1>13, <2>1, <2>2 DEF CompareServerFile, Compare, Typed, TypeOK, userVars, fsVars, serverVars, asioVars, CursorOK
<1>14. ASSUME NEW c \in Clients, NEW d \in Dirs, SendDirectory(c, d) PROVE Typed'
  <2>1. todo' \in [Clients -> Todos]
    BY <1>14, TodoFields DEF SendDirectory, UpDirsLeft, Created, Typed, TypeOK
  <2>2. dirs' \in [Replicas -> SUBSET Dirs]
    BY <1>14, CreatedType, Replica DEF SendDirectory, Typed, TypeOK
  <2>3. CursorOK'
    BY <1>14 DEF SendDirectory, UpDirsLeft, Created, Typed, TypeOK, CursorOK, clientVars
  <2>4. UploadsListed'
    BY <1>14 DEF SendDirectory, UpDirsLeft, Created, Typed, TypeOK, UploadsListed, Todos, NoTodo, Trees
  <2> QED
    BY <1>14, <2>1, <2>2, <2>3, <2>4 DEF SendDirectory, UpDirsLeft, Created, Typed, TypeOK, Paths, PCs, UpdateSteps, userVars, fsVars, serverVars, clientVars, asioVars
<1>15. ASSUME NEW c \in Clients, NEW d \in Dirs, SendDirectoryFails(c, d) PROVE Typed'
  <2>1. todo' \in [Clients -> Todos]
    BY <1>15, TodoFields DEF SendDirectoryFails, UpDirsLeft, Fault, Typed, TypeOK
  <2>2. UploadsListed'
    BY <1>15 DEF SendDirectoryFails, UpDirsLeft, Fault, Typed, TypeOK, UploadsListed, Todos, NoTodo, Trees
  <2> QED
    BY <1>15, <2>1, <2>2 DEF SendDirectoryFails, UpDirsLeft, Fault, Typed, TypeOK, PCs, UpdateSteps, userVars, fsVars, serverVars, clientVars, asioVars, CursorOK
<1>16. ASSUME NEW c \in Clients, IndexDirectory(c) PROVE Typed'
  <2>1. serverDirTree' \in Trees
    BY <1>16, TreeFields DEF IndexDirectory, Typed, TypeOK, CursorOK
  <2>2. CursorOK'
    BY <1>16 DEF IndexDirectory, Typed, TypeOK, CursorOK, clientVars
  <2> QED
    BY <1>16, <2>1, <2>2 DEF IndexDirectory, Typed, TypeOK, PCs, UpdateSteps, userVars, fsVars, serverVars, clientVars, asioVars, UploadsListed
<1>17. ASSUME NEW c \in Clients, NEW d \in Dirs, DownloadDirectory(c, d) PROVE Typed'
  <2>1. todo' \in [Clients -> Todos]
    BY <1>17, TodoFields DEF DownloadDirectory, DownDirsLeft, Created, Typed, TypeOK
  <2>2. dirs' \in [Replicas -> SUBSET Dirs]
    BY <1>17, CreatedType, Replica DEF DownloadDirectory, Typed, TypeOK
  <2>3. UploadsListed'
    BY <1>17 DEF DownloadDirectory, DownDirsLeft, Created, Typed, TypeOK, UploadsListed, Todos, NoTodo, Trees
  <2> QED
    BY <1>17, <2>1, <2>2, <2>3 DEF DownloadDirectory, DownDirsLeft, Created, Typed, TypeOK, PCs, UpdateSteps, userVars, fsVars, serverVars, clientVars, asioVars, CursorOK
<1>18. ASSUME NEW c \in Clients, NEW d \in Dirs, DownloadDirectoryFails(c, d) PROVE Typed'
  <2>1. todo' \in [Clients -> Todos]
    BY <1>18, TodoFields DEF DownloadDirectoryFails, DownDirsLeft, Fault, Typed, TypeOK
  <2>2. UploadsListed'
    BY <1>18 DEF DownloadDirectoryFails, DownDirsLeft, Fault, Typed, TypeOK, UploadsListed, Todos, NoTodo, Trees
  <2> QED
    BY <1>18, <2>1, <2>2 DEF DownloadDirectoryFails, DownDirsLeft, Fault, Typed, TypeOK, PCs, UpdateSteps, userVars, fsVars, serverVars, clientVars, asioVars, CursorOK
<1>19. ASSUME NEW c \in Clients, NEW f \in Files, UploadFile(c, f) PROVE Typed'
  <2>1. todo' \in [Clients -> Todos]
    BY <1>19, TodoFields DEF UploadFile, UpFilesLeft, DirsDone, Read, Typed, TypeOK
  <2>2. conns' \in Seq(FileMsgs \cup MetadataMsgs)
    BY <1>19, ReadType, Replica, TreeFields, TodoFields DEF UploadFile, UpFilesLeft, UploadsListed, FileMsgs, Typed, TypeOK
  <2>3. UploadsListed'
    BY <1>19 DEF UploadFile, UpFilesLeft, DirsDone, Read, Typed, TypeOK, UploadsListed, Todos, NoTodo, Trees
  <2> QED
    BY <1>19, <2>1, <2>2, <2>3 DEF UploadFile, UpFilesLeft, DirsDone, Read, Typed, TypeOK, PCs, UpdateSteps, userVars, fsVars, serverVars, clientVars, asioVars, CursorOK
<1>20. ASSUME NEW c \in Clients, NEW f \in Files, RequestFile(c, f) PROVE Typed'
  <2>1. conns' \in Seq(FileMsgs \cup MetadataMsgs)
    BY <1>20, ReadType, Replica, TreeFields, TodoFields DEF RequestFile, MetadataMsgs, Typed, TypeOK
  <2>2. CursorOK'
    BY <1>20 DEF RequestFile, DownFilesLeft, DirsDone, Typed, TypeOK, CursorOK, clientVars
  <2> QED
    BY <1>20, <2>1, <2>2 DEF RequestFile, DownFilesLeft, DirsDone, Typed, TypeOK, Paths, PCs, UpdateSteps, userVars, fsVars, serverVars, clientVars, asioVars, UploadsListed
<1>21. ASSUME NEW c \in Clients, ReceiveFile(c) PROVE Typed'
  <2>1. todo' \in [Clients -> Todos]
    BY <1>21, TodoFields DEF ReceiveFile, Written, Clock, Typed, TypeOK
  <2>2. disk' \in [Replicas -> [Files -> FilesOnDisk \cup {None}]]
    BY <1>21, WrittenType, Replica, DiSyAssumption DEF ReceiveFile, CursorOK, Typed, TypeOK
  <2>3. CursorOK'
    BY <1>21 DEF ReceiveFile, Written, Clock, Typed, TypeOK, CursorOK, clientVars
  <2>4. UploadsListed'
    BY <1>21 DEF ReceiveFile, Written, Clock, Typed, TypeOK, UploadsListed, Todos, NoTodo, Trees
  <2> QED
    BY <1>21, <2>1, <2>2, <2>3, <2>4 DEF ReceiveFile, Written, Clock, Typed, TypeOK, PCs, UpdateSteps, userVars, fsVars, serverVars, clientVars, asioVars
<1>22. ASSUME NEW c \in Clients, ConnectFails(c) PROVE Typed'
  <2>1. todo' \in [Clients -> Todos]
    BY <1>22, TodoFields, Blank DEF ConnectFails, EndRound, Typed, TypeOK
  <2>2. tree' \in [Clients -> Trees]
    BY <1>22, Blank DEF ConnectFails, EndRound, Typed, TypeOK
  <2>3. CursorOK'
    BY <1>22 DEF ConnectFails, EndRound, Typed, TypeOK, CursorOK, clientVars
  <2>4. UploadsListed'
    BY <1>22 DEF ConnectFails, EndRound, Typed, TypeOK, UploadsListed, Todos, NoTodo, Trees
  <2> QED
    BY <1>22, <2>1, <2>2, <2>3, <2>4 DEF ConnectFails, EndRound, Typed, TypeOK, PCs, UpdateSteps, userVars, fsVars, serverVars, clientVars, asioVars
<1>23. ASSUME NEW c \in Clients, RoundDone(c) PROVE Typed'
  <2>1. todo' \in [Clients -> Todos]
    BY <1>23, TodoFields, Blank DEF RoundDone, EndRound, Typed, TypeOK
  <2>2. tree' \in [Clients -> Trees]
    BY <1>23, Blank DEF RoundDone, EndRound, Typed, TypeOK
  <2>3. CursorOK'
    BY <1>23 DEF RoundDone, EndRound, Typed, TypeOK, CursorOK, clientVars
  <2>4. UploadsListed'
    BY <1>23 DEF RoundDone, EndRound, Typed, TypeOK, UploadsListed, Todos, NoTodo, Trees
  <2> QED
    BY <1>23, <2>1, <2>2, <2>3, <2>4 DEF RoundDone, EndRound, Typed, TypeOK, PCs, UpdateSteps, userVars, fsVars, serverVars, clientVars, asioVars
<1>24. CASE AcceptFile
  <2>1. Head(conns) \in FileMsgs /\ conns' \in Seq(FileMsgs \cup MetadataMsgs)
    BY <1>24 DEF AcceptFile, NextConn, Typed, TypeOK, FileMsgs, MetadataMsgs
  <2>2. serverDirTree' \in Trees
    BY <1>24, <2>1, TreeFields DEF AcceptFile, NextConn, Typed, TypeOK, FileMsgs
  <2> QED
    BY <1>24, <2>1, <2>2 DEF AcceptFile, NextConn, Typed, TypeOK, PCs, UpdateSteps, userVars, fsVars, serverVars, clientVars, asioVars, CursorOK, UploadsListed, Writes, FileMsgs
<1>25. CASE WriteFile
  <2>1. disk' \in [Replicas -> [Files -> FilesOnDisk \cup {None}]]
    BY <1>25, WrittenType, Replica DEF WriteFile, Writes, Typed, TypeOK
  <2> QED
    BY <1>25, <2>1 DEF WriteFile, Written, Clock, Typed, TypeOK, PCs, UpdateSteps, userVars, fsVars, serverVars, clientVars, asioVars, CursorOK, UploadsListed
<1>26. CASE AcceptRequest
  <2>1. Head(conns) \in MetadataMsgs /\ conns' \in Seq(FileMsgs \cup MetadataMsgs)
    BY <1>26 DEF AcceptRequest, NextConn, Read, Typed, TypeOK, FileMsgs, MetadataMsgs
  <2> QED
    BY <1>26, <2>1, ReadType, Replica DEF AcceptRequest, NextConn, Read, Typed, TypeOK, PCs, UpdateSteps, userVars, fsVars, serverVars, clientVars, asioVars, CursorOK, UploadsListed, MetadataMsgs
<1>27. CASE ServerStop
  <2>1. disk' \in [Replicas -> [Files -> FilesOnDisk \cup {None}]]
    BY <1>27, WrittenType, Replica, EmptyType DEF ServerStop, Writes, Typed, TypeOK
  <2>2. serverDirTree' \in Trees
    BY <1>27, Blank DEF ServerStop, Written, Clock, Fault, Typed, TypeOK
  <2>3. todo' \in [Clients -> Todos]
    BY <1>27, TodoFields, Blank DEF ServerStop, Written, Clock, Fault, Typed, TypeOK
  <2>4. tree' \in [Clients -> Trees]
    BY <1>27, Blank DEF ServerStop, Written, Clock, Fault, Typed, TypeOK
  <2>5. CursorOK'
    BY <1>27 DEF ServerStop, Written, Clock, Fault, Typed, TypeOK, CursorOK, clientVars
  <2>6. UploadsListed'
    BY <1>27 DEF ServerStop, Written, Clock, Fault, Typed, TypeOK, UploadsListed, Todos, NoTodo, Trees
  <2>7. cur' \in [Clients -> Paths \cup Stats \cup {None}] /\ pc' \in [Clients -> PCs]
    BY <1>27 DEF ServerStop, Typed, TypeOK, PCs
  <2>8. conns' \in Seq(FileMsgs \cup MetadataMsgs) /\ faults' \in Nat
    BY <1>27 DEF ServerStop, Fault, Typed, TypeOK
  <2> QED
    BY <1>27, <2>1, <2>2, <2>3, <2>4, <2>5, <2>6, <2>7, <2>8
    DEF ServerStop, Typed, TypeOK, userVars
<1>28. CASE ServerStart
  <2>1. serverDirTree' \in Trees
    BY <1>28, CrawledType, Replica DEF ServerStart, Typed, TypeOK
  <2> QED
    BY <1>28, <2>1 DEF ServerStart, Crawled, Typed, TypeOK, PCs, UpdateSteps, userVars, fsVars, serverVars, clientVars, asioVars, CursorOK, UploadsListed
<1>29. CASE UNCHANGED vars
  BY <1>29 DEF vars, Typed, TypeOK, CursorOK, UploadsListed, userVars, fsVars, serverVars, clientVars, asioVars
<1>30. ASSUME NEW c \in Clients, LoopDone(c) PROVE Typed'
  <2>1. NextLoop[pc[c]].pc \in PCs /\ NextLoop[pc[c]].visit \subseteq Paths
    BY <1>30 DEF LoopDone, NextLoop, UpdateSteps, PCs, Paths
  <2>2. NextLoop[pc[c]].pc \notin {"hash", "index", "fetch"}
    BY <1>30 DEF LoopDone, NextLoop, UpdateSteps
  <2>3. todo' \in [Clients -> Todos]
    BY <1>30, <2>1, TodoFields DEF LoopDone, Typed, TypeOK
  <2>4. pc' \in [Clients -> PCs] /\ CursorOK'
    BY <1>30, <2>1, <2>2 DEF LoopDone, Typed, TypeOK, CursorOK
  <2>5. UploadsListed'
    BY <1>30 DEF LoopDone, Typed, TypeOK, UploadsListed, Todos
  <2> QED
    BY <1>30, <2>3, <2>4, <2>5 DEF LoopDone, Typed, TypeOK, userVars, fsVars, serverVars, asioVars
<1> QED
  BY <1>30, <1>31, <1>32, <1>1, <1>2, <1>3, <1>4, <1>5, <1>6, <1>7, <1>8, <1>9, <1>10, <1>11, <1>12, <1>13, <1>14, <1>15, <1>16, <1>17, <1>18, <1>19, <1>20, <1>21, <1>22, <1>23, <1>24, <1>25, <1>26, <1>27, <1>28, <1>29
     DEF Next, ClientStep, UserStep, CrawlStep, UpdateStep, ProcessUpdate, TransferStep, AsioStep

LEMMA SavingStep == TypeInv /\ [Next]_vars => SavingOK'
<1> SUFFICES ASSUME TypeInv, [Next]_vars PROVE SavingOK'
  OBVIOUS
<1>1. ASSUME NEW c \in Clients, NEW f \in Files, BeginSave(c, f) PROVE SavingOK'
  <2>1. edits \in [Files -> Nat] /\ saving \in [Clients -> Writes \cup {None}]
    BY DiSyAssumption DEF TypeInv, TypeOK
  <2>2. /\ edits' = [edits EXCEPT ![f] = edits[f] + 1]
        /\ saving' = [saving EXCEPT ![c] = [file |-> f, data |-> edits[f] + 1]]
        /\ SavesInPlace
    BY <1>1 DEF BeginSave
  <2>3. saving'[c].data \in 1 .. edits'[saving'[c].file]
    BY <2>1, <2>2
  <2>4. ASSUME NEW b \in Clients, b # c, saving[b] # None
        PROVE  saving[b].data \in 1 .. edits'[saving[b].file]
    <3>1. saving[b].data \in 1 .. edits[saving[b].file] /\ saving[b].file \in Files
      BY <2>1, <2>4 DEF TypeInv, SavingOK, Writes
    <3>2. edits[saving[b].file] \in Nat /\ edits'[saving[b].file] \in Nat
          /\ edits[saving[b].file] <= edits'[saving[b].file]
      BY <2>1, <2>2, <3>1
    <3> QED
      BY <3>1, <3>2
  <2> QED
    BY <2>1, <2>2, <2>3, <2>4 DEF SavingOK, SavesInPlace
<1>2. ASSUME NEW c \in Clients, EndSave(c) PROVE SavingOK'
  BY <1>2 DEF EndSave, SavingOK, SavesInPlace, TypeInv, TypeOK
<1>3. ASSUME UNCHANGED <<edits, saving>> PROVE SavingOK'
  BY <1>3 DEF TypeInv, SavingOK, SavesInPlace
<1>4. ASSUME NEW c \in Clients, NEW f \in Files, EditFile(c, f) PROVE SavingOK'
  BY <1>4 DEF EditFile, TypeInv, SavingOK
<1>5. ASSUME NEW c \in Clients, NEW d \in Dirs, NewDirectory(c, d) PROVE UNCHANGED <<edits, saving>>
  BY <1>5 DEF NewDirectory, userVars
<1>6. ASSUME NEW c \in Clients, CrawlStep(c) \/ UpdateStep(c) \/ UpdateLost(c)
      PROVE  UNCHANGED <<edits, saving>>
  BY <1>6 DEF CrawlStep, BeginCrawl, Visit, HashFile, UpdateStep, CallUpdate, UpdateRefused, UpdateLost,
     ProcessUpdate, CompareClientDir, CompareServerDir, CompareClientFile, CompareServerFile, Compare,
     LoopDone, userVars
<1>7. ASSUME NEW c \in Clients, TransferStep(c) PROVE UNCHANGED <<edits, saving>>
  BY <1>7 DEF TransferStep, SendDirectory, DownloadDirectory, SendDirectoryFails, DownloadDirectoryFails,
     IndexDirectory, UploadFile, RequestFile, ReceiveFile, ConnectFails, RoundDone, userVars
<1>8. AsioStep \/ Tick \/ ServerStop \/ ServerStart \/ UNCHANGED vars => UNCHANGED <<edits, saving>>
  BY DEF AsioStep, AcceptFile, WriteFile, AcceptRequest, Tick, ServerStop, ServerStart, vars, userVars
<1> QED
  BY <1>1, <1>2, <1>3, <1>4, <1>5, <1>6, <1>7, <1>8 DEF Next, ClientStep, UserStep

LEMMA TypeStep == TypeInv /\ [Next]_vars => TypeInv'
BY TypedStep, SavingStep DEF TypeInv, Typed

\* Where users do not edit at any moment, no save can be watched.
LEMMA NoSaveWatched ==
  ASSUME TypeInv, EditWhen # "anytime", NEW c \in Clients, UserStep(c)
  PROVE  (\E f \in Files : EditFile(c, f)) \/ (\E d \in Dirs : NewDirectory(c, d))
BY DEF UserStep, BeginSave, EndSave, SavesInPlace, TypeInv, SavingOK

\* Every variable of DiSy keeps its type, whatever users do, calls fail and
\* wherever the server stops.
THEOREM TypeCorrect == Spec => []TypeOK
<1>1. Init => TypeInv
  BY Blank, DiSyAssumption
  DEF Init, TypeInv, TypeOK, CursorOK, UploadsListed, SavingOK, NoTodo, PCs
<1>2. TypeInv => TypeOK
  BY DEF TypeInv
<1> QED
  BY <1>1, <1>2, TypeStep, PTL DEF Spec

\* The invariant that the types rest on, which later proofs start from: what
\* each handler has at hand fits its step, and what is asked of a client is on
\* its list.
THEOREM TypesAndCursors == Spec => []TypeInv
<1>1. Init => TypeInv
  BY Blank, DiSyAssumption
  DEF Init, TypeInv, TypeOK, CursorOK, UploadsListed, SavingOK, NoTodo, PCs
<1> QED
  BY <1>1, TypeStep, PTL DEF Spec

-----------------------------------------------------------------------------
(***************************************************************************)
(* What a step of processUpdate does.                                      *)
(***************************************************************************)

\* The directories the client is asked to send, and while the first loop runs
\* those it may yet be asked for.
Asked(c) == todo[c].upDirs \cup (IF pc[c] = "clientDirs" THEN todo[c].visit ELSE {})

LEMMA CompareDirEffect ==
  ASSUME TypeInv, NEW c \in Clients, NEW d \in Dirs,
         CompareClientDir(c, d) \/ CompareServerDir(c, d)
  PROVE  /\ \A b \in Clients : b # c => todo'[b] = todo[b]
         /\ todo'[c].upFiles = todo[c].upFiles
         /\ todo'[c].downFiles = todo[c].downFiles
         /\ Asked(c) \cap tree[c].dirs \subseteq Asked(c)' \cup serverDirTree.dirs
<1>1. CASE CompareClientDir(c, d)
  BY <1>1 DEF CompareClientDir, Compare, MissingDirs, Asked, TypeInv, TypeOK, Todos
<1>2. CASE CompareServerDir(c, d)
  BY <1>2 DEF CompareServerDir, Compare, Asked, TypeInv, TypeOK, Todos
<1> QED
  BY <1>1, <1>2

LEMMA CompareFileEffect ==
  ASSUME TypeInv, NEW c \in Clients, NEW f \in Files,
         CompareClientFile(c, f) \/ CompareServerFile(c, f)
  PROVE  /\ \A b \in Clients : b # c => todo'[b] = todo[b]
         /\ todo'[c].upFiles \subseteq todo[c].upFiles \cup WantedFiles(tree[c], serverDirTree)
         /\ todo'[c].downFiles \subseteq todo[c].downFiles \cup WantedFiles(serverDirTree, tree[c])
         /\ Asked(c) \subseteq Asked(c)'
<1>1. CASE CompareClientFile(c, f)
  BY <1>1 DEF CompareClientFile, Compare, Asked, TypeInv, TypeOK, Todos
<1>2. CASE CompareServerFile(c, f)
  BY <1>2 DEF CompareServerFile, Compare, Asked, TypeInv, TypeOK, Todos
<1> QED
  BY <1>1, <1>2

LEMMA LoopDoneEffect ==
  ASSUME TypeInv, NEW c \in Clients, LoopDone(c)
  PROVE  /\ pc[c] \in UpdateSteps /\ pc'[c] \in UpdateSteps \cup {"transfer"}
         /\ \A b \in Clients : b # c => pc'[b] = pc[b] /\ todo'[b] = todo[b]
         /\ todo'[c].upFiles = todo[c].upFiles
         /\ todo'[c].downFiles = todo[c].downFiles
         /\ Asked(c) \subseteq Asked(c)'
<1>1. pc[c] \in UpdateSteps /\ pc'[c] \in UpdateSteps \cup {"transfer"}
  BY DEF LoopDone, NextLoop, UpdateSteps, TypeInv, TypeOK
<1>2. /\ \A b \in Clients : b # c => pc'[b] = pc[b] /\ todo'[b] = todo[b]
      /\ todo'[c].upFiles = todo[c].upFiles
      /\ todo'[c].downFiles = todo[c].downFiles
      /\ todo'[c].upDirs = todo[c].upDirs
      /\ todo[c].visit = {}
  BY DEF LoopDone, TypeInv, TypeOK, Todos
<1> QED
  BY <1>1, <1>2 DEF Asked

\* Nothing but the response grows, and only by what the two trees differ in;
\* a directory is dropped from Asked only when the server has it.
LEMMA ProcessUpdateEffect ==
  ASSUME TypeInv, NEW c \in Clients, ProcessUpdate(c)
  PROVE  /\ UNCHANGED <<now, edits, disk, dirs, up, serverDirTree, tree, cur,
                        conns, writing, reply, faults>>
         /\ pc[c] \in UpdateSteps /\ pc'[c] \in UpdateSteps \cup {"transfer"}
         /\ \A b \in Clients : b # c => pc'[b] = pc[b] /\ todo'[b] = todo[b]
         /\ todo'[c].upFiles \subseteq todo[c].upFiles \cup WantedFiles(tree[c], serverDirTree)
         /\ todo'[c].downFiles \subseteq todo[c].downFiles \cup WantedFiles(serverDirTree, tree[c])
         /\ Asked(c) \cap tree[c].dirs \subseteq Asked(c)' \cup serverDirTree.dirs
<1>1. CASE \E d \in Dirs : CompareClientDir(c, d) \/ CompareServerDir(c, d)
  <2>1. PICK d \in Dirs : CompareClientDir(c, d) \/ CompareServerDir(c, d)
    BY <1>1
  <2>2. /\ UNCHANGED <<now, edits, disk, dirs, up, serverDirTree, tree, cur, pc,
                       conns, writing, reply, faults>>
        /\ pc[c] \in UpdateSteps
    BY <2>1 DEF CompareClientDir, CompareServerDir, Compare, UpdateSteps, userVars, fsVars,
                serverVars, asioVars
  <2> QED
    BY <2>1, <2>2, CompareDirEffect
<1>2. CASE \E f \in Files : CompareClientFile(c, f) \/ CompareServerFile(c, f)
  <2>1. PICK f \in Files : CompareClientFile(c, f) \/ CompareServerFile(c, f)
    BY <1>2
  <2>2. /\ UNCHANGED <<now, edits, disk, dirs, up, serverDirTree, tree, cur, pc,
                       conns, writing, reply, faults>>
        /\ pc[c] \in UpdateSteps
    BY <2>1 DEF CompareClientFile, CompareServerFile, Compare, UpdateSteps, userVars, fsVars,
                serverVars, asioVars
  <2> QED
    BY <2>1, <2>2, CompareFileEffect
<1>3. CASE LoopDone(c)
  <2>1. UNCHANGED <<now, edits, disk, dirs, up, serverDirTree, tree, cur,
                    conns, writing, reply, faults>>
    BY <1>3 DEF LoopDone, userVars, fsVars, serverVars, asioVars
  <2> QED
    BY <1>3, <2>1, LoopDoneEffect
<1> QED
  BY <1>1, <1>2, <1>3 DEF ProcessUpdate

-----------------------------------------------------------------------------
(***************************************************************************)
(* Rounds come nearer to their end.                                        *)
(***************************************************************************)
\* What is at hand has been taken from what is left, except a file that is
\* fetched.
RoundOK(c) ==
  /\ pc[c] = "hash" => cur[c].file \notin todo[c].visit
  /\ pc[c] = "index" => cur[c] \notin todo[c].upDirs
  /\ pc[c] = "fetch" => cur[c] \in todo[c].downFiles

RoundInv == \A c \in Clients : RoundOK(c)

\* c's round is left alone, or goes on.
Paused(b) == pc'[b] = pc[b] /\ todo'[b] = todo[b] /\ cur'[b] = cur[b]
Advances(c) ==
  /\ \A b \in Clients : b # c => Paused(b)
  /\ RoundOK(c)'
  /\ pc[c] # "idle" => Nearer(c)

LEMMA StageLower ==
  ASSUME NEW p \in PCs, NEW q \in PCs
  PROVE  /\ StageOf[p] \in Nat
         /\ p # "idle" => StageOf["idle"] < StageOf[p]
         /\ p \in {"crawl", "hash"} /\ q \in UpdateSteps => StageOf[q] < StageOf[p]
BY DEF StageOf, PCs, UpdateSteps

LEMMA EndAdvances ==
  ASSUME TypeInv, NEW c \in Clients, EndRound(c), pc[c] # "idle"
  PROVE  Advances(c)
<1>1. pc'[c] = "idle" /\ \A b \in Clients : b # c => Paused(b)
  BY DEF EndRound, TypeInv, TypeOK, Paused
<1>2. pc[c] \in PCs /\ "idle" \in PCs
  BY DEF TypeInv, TypeOK, PCs
<1>3. Stage(c)' < Stage(c)
  BY <1>1, <1>2, StageLower DEF Stage
<1> QED
  BY <1>1, <1>3 DEF Advances, RoundOK, Nearer

LEMMA BeginAdvances ==
  ASSUME TypeInv, NEW c \in Clients, BeginCrawl(c)
  PROVE  Advances(c)
BY DEF BeginCrawl, TypeInv, TypeOK, Advances, Paused, RoundOK

LEMMA VisitAdvances ==
  ASSUME TypeInv, NEW c \in Clients, NEW p \in Paths, Visit(c, p)
  PROVE  Advances(c)
<1>1. /\ pc[c] = "crawl" /\ p \in todo[c].visit
      /\ todo'[c].visit = todo[c].visit \ {p}
      /\ \A b \in Clients : b # c => todo'[b] = todo[b]
  BY DEF Visit, TypeInv, TypeOK, Todos
<1>2. /\ \/ pc'[c] = "crawl"
         \/ pc'[c] = "hash" /\ cur'[c].file = p
      /\ \A b \in Clients : b # c => pc'[b] = pc[b] /\ cur'[b] = cur[b]
  BY <1>1 DEF Visit, TypeInv, TypeOK
<1>3. Stage(c)' = Stage(c) /\ Stage(c) > 1
  BY <1>1, <1>2 DEF Stage, StageOf
<1>4. /\ Left(c) = todo[c].visit \X {"reach", "hash"}
      /\ Left(c)' = (todo'[c].visit \X {"reach", "hash"})
                    \cup (IF pc'[c] = "hash" THEN {<<p, "hash">>} ELSE {})
  BY <1>1, <1>2, <1>3 DEF Left
<1>5. Left(c)' \subseteq Left(c) /\ <<p, "reach">> \in Left(c) \ Left(c)'
  BY <1>1, <1>4
<1> QED
  BY <1>1, <1>2, <1>3, <1>5 DEF Advances, Paused, RoundOK, Nearer

LEMMA HashAdvances ==
  ASSUME TypeInv, NEW c \in Clients, RoundOK(c), HashFile(c)
  PROVE  Advances(c)
<1>1. /\ pc[c] = "hash" /\ pc'[c] = "crawl" /\ todo' = todo
      /\ \A b \in Clients : b # c => Paused(b)
  BY DEF HashFile, TypeInv, TypeOK, Paused
<1>2. Stage(c)' = Stage(c) /\ Stage(c) > 1
  BY <1>1 DEF Stage, StageOf
<1>3. /\ Left(c) = (todo[c].visit \X {"reach", "hash"}) \cup {<<cur[c].file, "hash">>}
      /\ Left(c)' = todo[c].visit \X {"reach", "hash"}
  BY <1>1, <1>2 DEF Left
<1>4. cur[c].file \notin todo[c].visit
  BY <1>1 DEF RoundOK
<1>5. Left(c)' \subseteq Left(c) /\ <<cur[c].file, "hash">> \in Left(c) \ Left(c)'
  BY <1>3, <1>4
<1> QED
  BY <1>1, <1>2, <1>5 DEF Advances, RoundOK, Nearer

LEMMA CallAdvances ==
  ASSUME TypeInv, NEW c \in Clients, CallUpdate(c)
  PROVE  Advances(c)
<1>1. /\ pc[c] = "crawl" /\ pc'[c] = "clientDirs"
      /\ \A b \in Clients : b # c => Paused(b)
  BY DEF CallUpdate, CrawlDone, TypeInv, TypeOK, Paused
<1>2. Stage(c)' < Stage(c)
  BY <1>1 DEF Stage, StageOf
<1> QED
  BY <1>1, <1>2 DEF Advances, RoundOK, Nearer

\* One path less to compare, in any of the four loops.
LEMMA CompareAdvances ==
  ASSUME TypeInv, NEW c \in Clients, NEW p \in Paths,
         pc[c] \in UpdateSteps, p \in todo[c].visit, UNCHANGED <<pc, cur>>,
         todo'[c].visit = todo[c].visit \ {p},
         \A b \in Clients : b # c => todo'[b] = todo[b]
  PROVE  Advances(c)
<1>1. Stage(c)' = Stage(c) /\ Stage(c) > 1 /\ pc[c] \notin {"hash", "index", "fetch"}
  BY DEF Stage, StageOf, UpdateSteps
<1>2. /\ Left(c) = todo[c].visit \X {"reach", "hash"}
      /\ Left(c)' = (todo[c].visit \ {p}) \X {"reach", "hash"}
  BY <1>1 DEF Left
<1>3. Left(c)' \subseteq Left(c) /\ <<p, "reach">> \in Left(c) \ Left(c)'
  BY <1>2
<1> QED
  BY <1>1, <1>3 DEF Advances, Paused, RoundOK, Nearer

LEMMA ProcessUpdateAdvances ==
  ASSUME TypeInv, NEW c \in Clients, ProcessUpdate(c)
  PROVE  Advances(c)
<1>1. ASSUME NEW d \in Dirs, CompareClientDir(c, d) \/ CompareServerDir(c, d) PROVE Advances(c)
  <2>1. /\ pc[c] \in UpdateSteps /\ d \in todo[c].visit /\ UNCHANGED <<pc, cur>>
        /\ todo'[c].visit = todo[c].visit \ {d}
        /\ \A b \in Clients : b # c => todo'[b] = todo[b]
    BY <1>1 DEF CompareClientDir, CompareServerDir, Compare, UpdateSteps, TypeInv, TypeOK, Todos
  <2> QED
    BY <2>1, CompareAdvances DEF Paths
<1>2. ASSUME NEW f \in Files, CompareClientFile(c, f) \/ CompareServerFile(c, f) PROVE Advances(c)
  <2>1. /\ pc[c] \in UpdateSteps /\ f \in todo[c].visit /\ UNCHANGED <<pc, cur>>
        /\ todo'[c].visit = todo[c].visit \ {f}
        /\ \A b \in Clients : b # c => todo'[b] = todo[b]
    BY <1>2 DEF CompareClientFile, CompareServerFile, Compare, UpdateSteps, TypeInv, TypeOK, Todos
  <2> QED
    BY <2>1, CompareAdvances DEF Paths
<1>3. CASE LoopDone(c)
  <2>1. /\ pc[c] \in UpdateSteps /\ pc'[c] = NextLoop[pc[c]].pc
        /\ \A b \in Clients : b # c => Paused(b)
    BY <1>3 DEF LoopDone, TypeInv, TypeOK, Paused
  <2>2. Stage(c)' < Stage(c) /\ pc'[c] \notin {"hash", "index", "fetch"}
    BY <2>1 DEF Stage, StageOf, NextLoop, UpdateSteps
  <2> QED
    BY <2>1, <2>2 DEF Advances, RoundOK, Nearer
<1> QED
  BY <1>1, <1>2, <1>3 DEF ProcessUpdate

\* What is left between calls and transfers.
LeftOf(t) ==
  (t.upDirs \X {"create", "index"}) \cup (t.downDirs \X {"copy"}) \cup (t.upFiles \X {"send"})
  \cup (t.downFiles \X {"receive", "request"})

\* The same while something is created or fetched.
LeftAt(p, t, x) ==
  IF p = "index" THEN LeftOf(t) \cup {<<x, "index">>}
  ELSE IF p = "fetch" THEN LeftOf(t) \ {<<x, "request">>}
  ELSE LeftOf(t)

LEMMA LeftTransfer ==
  ASSUME NEW c \in Clients, RoundOK(c), pc[c] \in {"transfer", "index", "fetch"}
  PROVE  Stage(c) = 1 /\ Left(c) = LeftAt(pc[c], todo[c], cur[c])
<1>1. Stage(c) = 1
  BY DEF Stage, StageOf
<1> QED
  BY <1>1 DEF Left, LeftAt, LeftOf, RoundOK

LEMMA LeftTransferNext ==
  ASSUME NEW c \in Clients, RoundOK(c)', pc'[c] \in {"transfer", "index", "fetch"}
  PROVE  Stage(c)' = 1 /\ Left(c)' = LeftAt(pc'[c], todo'[c], cur'[c])
<1>1. Stage(c)' = 1
  BY DEF Stage, StageOf
<1> QED
  BY <1>1 DEF Left, LeftAt, LeftOf, RoundOK

LEMMA TransferAdvances ==
  ASSUME NEW c \in Clients, RoundOK(c), RoundOK(c)', \A b \in Clients : b # c => Paused(b),
         pc[c] \in {"transfer", "index", "fetch"}, pc'[c] \in {"transfer", "index", "fetch"},
         NEW x, x \in LeftAt(pc[c], todo[c], cur[c]),
         LeftAt(pc'[c], todo'[c], cur'[c]) \subseteq LeftAt(pc[c], todo[c], cur[c]) \ {x}
  PROVE  Advances(c)
BY LeftTransfer, LeftTransferNext DEF Advances, Nearer

LEMMA DirectoryAdvances ==
  ASSUME TypeInv, NEW c \in Clients, RoundOK(c), NEW d \in Dirs,
         \/ SendDirectory(c, d) \/ DownloadDirectory(c, d)
         \/ SendDirectoryFails(c, d) \/ DownloadDirectoryFails(c, d)
  PROVE  Advances(c)
<1>1. todo[c] \in Todos /\ \A b \in Clients : b # c => Paused(b)
  BY DEF SendDirectory, DownloadDirectory, SendDirectoryFails, DownloadDirectoryFails, Paused,
         TypeInv, TypeOK
<1>2. CASE SendDirectory(c, d)
  <2>1. /\ pc[c] = "transfer" /\ d \in todo[c].upDirs /\ pc'[c] = "index" /\ cur'[c] = d
        /\ todo'[c] = [todo[c] EXCEPT !.upDirs = @ \ {d}]
    BY <1>2 DEF SendDirectory, UpDirsLeft, TypeInv, TypeOK
  <2>2. RoundOK(c)'
    BY <1>1, <2>1 DEF RoundOK, Todos
  <2>3. <<d, "create">> \in LeftAt(pc[c], todo[c], cur[c])
    BY <2>1 DEF LeftAt, LeftOf
  <2>4. LeftAt(pc'[c], todo'[c], cur'[c]) \subseteq LeftAt(pc[c], todo[c], cur[c]) \ {<<d, "create">>}
    BY <1>1, <2>1 DEF LeftAt, LeftOf, Todos
  <2> QED
    BY <1>1, <2>1, <2>2, <2>3, <2>4, TransferAdvances
<1>3. CASE SendDirectoryFails(c, d)
  <2>1. /\ pc[c] = "transfer" /\ d \in todo[c].upDirs /\ pc'[c] = "transfer"
        /\ todo'[c] = [todo[c] EXCEPT !.upDirs = @ \ {d}]
    BY <1>3 DEF SendDirectoryFails, UpDirsLeft, TypeInv, TypeOK
  <2>2. RoundOK(c)'
    BY <2>1 DEF RoundOK
  <2>3. <<d, "create">> \in LeftAt(pc[c], todo[c], cur[c])
    BY <2>1 DEF LeftAt, LeftOf
  <2>4. LeftAt(pc'[c], todo'[c], cur'[c]) \subseteq LeftAt(pc[c], todo[c], cur[c]) \ {<<d, "create">>}
    BY <1>1, <2>1 DEF LeftAt, LeftOf, Todos
  <2> QED
    BY <1>1, <2>1, <2>2, <2>3, <2>4, TransferAdvances
<1>4. CASE DownloadDirectory(c, d) \/ DownloadDirectoryFails(c, d)
  <2>1. /\ pc[c] = "transfer" /\ d \in todo[c].downDirs /\ pc'[c] = "transfer"
        /\ todo'[c] = [todo[c] EXCEPT !.downDirs = @ \ {d}]
    BY <1>4 DEF DownloadDirectory, DownloadDirectoryFails, DownDirsLeft, TypeInv, TypeOK
  <2>2. RoundOK(c)'
    BY <2>1 DEF RoundOK
  <2>3. <<d, "copy">> \in LeftAt(pc[c], todo[c], cur[c])
    BY <2>1 DEF LeftAt, LeftOf
  <2>4. LeftAt(pc'[c], todo'[c], cur'[c]) \subseteq LeftAt(pc[c], todo[c], cur[c]) \ {<<d, "copy">>}
    BY <1>1, <2>1 DEF LeftAt, LeftOf, Todos
  <2> QED
    BY <1>1, <2>1, <2>2, <2>3, <2>4, TransferAdvances
<1> QED
  BY <1>2, <1>3, <1>4

LEMMA IndexAdvances ==
  ASSUME TypeInv, NEW c \in Clients, RoundOK(c), IndexDirectory(c)
  PROVE  Advances(c)
<1>1. /\ pc[c] = "index" /\ pc'[c] = "transfer" /\ todo' = todo
      /\ \A b \in Clients : b # c => Paused(b)
  BY DEF IndexDirectory, Paused, TypeInv, TypeOK
<1>2. cur[c] \notin todo[c].upDirs /\ RoundOK(c)'
  BY <1>1 DEF RoundOK
<1>3. <<cur[c], "index">> \in LeftAt(pc[c], todo[c], cur[c])
  BY <1>1 DEF LeftAt
<1>4. LeftAt(pc'[c], todo'[c], cur'[c]) \subseteq LeftAt(pc[c], todo[c], cur[c]) \ {<<cur[c], "index">>}
  BY <1>1, <1>2 DEF LeftAt, LeftOf
<1> QED
  BY <1>1, <1>2, <1>3, <1>4, TransferAdvances

LEMMA UploadAdvances ==
  ASSUME TypeInv, NEW c \in Clients, RoundOK(c), NEW f \in Files, UploadFile(c, f)
  PROVE  Advances(c)
<1>1. /\ pc[c] = "transfer" /\ f \in todo[c].upFiles /\ pc'[c] = "transfer"
      /\ todo'[c] = [todo[c] EXCEPT !.upFiles = @ \ {f}] /\ todo[c] \in Todos
      /\ \A b \in Clients : b # c => Paused(b)
  BY DEF UploadFile, UpFilesLeft, DirsDone, Paused, TypeInv, TypeOK
<1>2. RoundOK(c)'
  BY <1>1 DEF RoundOK
<1>3. <<f, "send">> \in LeftAt(pc[c], todo[c], cur[c])
  BY <1>1 DEF LeftAt, LeftOf
<1>4. LeftAt(pc'[c], todo'[c], cur'[c]) \subseteq LeftAt(pc[c], todo[c], cur[c]) \ {<<f, "send">>}
  BY <1>1 DEF LeftAt, LeftOf, Todos
<1> QED
  BY <1>1, <1>2, <1>3, <1>4, TransferAdvances

LEMMA RequestAdvances ==
  ASSUME TypeInv, NEW c \in Clients, RoundOK(c), NEW f \in Files, RequestFile(c, f)
  PROVE  Advances(c)
<1>1. /\ pc[c] = "transfer" /\ f \in todo[c].downFiles /\ pc'[c] = "fetch" /\ cur'[c] = f
      /\ todo' = todo
      /\ \A b \in Clients : b # c => Paused(b)
  BY DEF RequestFile, DownFilesLeft, DirsDone, Paused, TypeInv, TypeOK
<1>2. RoundOK(c)'
  BY <1>1 DEF RoundOK
<1>3. <<f, "request">> \in LeftAt(pc[c], todo[c], cur[c])
  BY <1>1 DEF LeftAt, LeftOf
<1>4. LeftAt(pc'[c], todo'[c], cur'[c]) \subseteq LeftAt(pc[c], todo[c], cur[c]) \ {<<f, "request">>}
  BY <1>1 DEF LeftAt, LeftOf
<1> QED
  BY <1>1, <1>2, <1>3, <1>4, TransferAdvances

LEMMA ReceiveAdvances ==
  ASSUME TypeInv, NEW c \in Clients, RoundOK(c), ReceiveFile(c)
  PROVE  Advances(c)
<1>1. /\ pc[c] = "fetch" /\ pc'[c] = "transfer" /\ todo[c] \in Todos
      /\ todo'[c] = [todo[c] EXCEPT !.downFiles = @ \ {cur[c]}]
      /\ \A b \in Clients : b # c => Paused(b)
  BY DEF ReceiveFile, Paused, TypeInv, TypeOK
<1>2. cur[c] \in todo[c].downFiles /\ RoundOK(c)'
  BY <1>1 DEF RoundOK
<1>3. <<cur[c], "receive">> \in LeftAt(pc[c], todo[c], cur[c])
  BY <1>1, <1>2 DEF LeftAt, LeftOf
<1>4. LeftAt(pc'[c], todo'[c], cur'[c]) \subseteq LeftAt(pc[c], todo[c], cur[c]) \ {<<cur[c], "receive">>}
  BY <1>1, <1>2 DEF LeftAt, LeftOf, Todos
<1> QED
  BY <1>1, <1>2, <1>3, <1>4, TransferAdvances

LEMMA ClientAdvances ==
  ASSUME TypeInv, NEW c \in Clients, RoundOK(c), ClientStep(c) \/ UpdateLost(c)
  PROVE  Advances(c)
<1>1. CASE CrawlStep(c)
  BY <1>1, BeginAdvances, VisitAdvances, HashAdvances DEF CrawlStep
<1>2. CASE UpdateStep(c)
  <2>1. UpdateRefused(c) => EndRound(c) /\ pc[c] # "idle"
    BY DEF UpdateRefused, CrawlDone
  <2> QED
    BY <1>2, <2>1, CallAdvances, EndAdvances, ProcessUpdateAdvances DEF UpdateStep
<1>3. CASE TransferStep(c)
  <2>1. ConnectFails(c) \/ RoundDone(c) => EndRound(c) /\ pc[c] # "idle"
    BY DEF ConnectFails, RoundDone, UpFilesLeft, DownFilesLeft, DirsDone
  <2> QED
    BY <1>3, <2>1, EndAdvances, DirectoryAdvances, IndexAdvances, UploadAdvances, RequestAdvances,
       ReceiveAdvances DEF TransferStep
<1>4. CASE UpdateLost(c)
  <2>1. EndRound(c) /\ pc[c] # "idle"
    BY <1>4 DEF UpdateLost, UpdateSteps
  <2> QED
    BY <2>1, EndAdvances
<1> QED
  BY <1>1, <1>2, <1>3, <1>4 DEF ClientStep

\* A stop of the server ends a round, or the call that it is in.
LEMMA StopAdvances ==
  ASSUME TypeInv, NEW c \in Clients, RoundOK(c), ServerStop
  PROVE  /\ RoundOK(c)'
         /\ Paused(c) \/ (pc[c] # "idle" /\ Nearer(c))
<1>1. CASE CutOff(c)
  <2>1. pc'[c] = "idle" /\ pc[c] # "idle" /\ pc[c] \in PCs /\ "idle" \in PCs
    BY <1>1 DEF ServerStop, CutOff, UpdateSteps, TypeInv, TypeOK, PCs
  <2>2. Stage(c)' < Stage(c)
    BY <2>1, StageLower DEF Stage
  <2> QED
    BY <2>1, <2>2 DEF RoundOK, Nearer
<1>2. CASE ~ CutOff(c) /\ pc[c] = "index"
  <2>1. pc'[c] = "transfer" /\ todo'[c] = todo[c]
    BY <1>2 DEF ServerStop, TypeInv, TypeOK
  <2>2. cur[c] \notin todo[c].upDirs /\ RoundOK(c)'
    BY <1>2, <2>1 DEF RoundOK
  <2>3. <<cur[c], "index">> \in LeftAt(pc[c], todo[c], cur[c])
    BY <1>2 DEF LeftAt
  <2>4. LeftAt(pc'[c], todo'[c], cur'[c]) \subseteq LeftAt(pc[c], todo[c], cur[c]) \ {<<cur[c], "index">>}
    BY <1>2, <2>1, <2>2 DEF LeftAt, LeftOf
  <2> QED
    BY <1>2, <2>1, <2>2, <2>3, <2>4, LeftTransfer, LeftTransferNext DEF Nearer
<1>3. CASE ~ CutOff(c) /\ pc[c] # "index"
  <2>1. Paused(c)
    BY <1>3 DEF ServerStop, Paused, TypeInv, TypeOK
  <2> QED
    BY <2>1 DEF Paused, RoundOK
<1> QED
  BY <1>1, <1>2, <1>3

LEMMA OthersPause ==
  ASSUME TypeInv,
         \/ \E c \in Clients : UserStep(c)
         \/ AsioStep \/ Tick \/ ServerStart \/ UNCHANGED vars
  PROVE  \A b \in Clients : Paused(b)
BY DEF UserStep, EditFile, BeginSave, EndSave, NewDirectory, AsioStep, AcceptFile, WriteFile,
       AcceptRequest, Tick, ServerStart, vars, clientVars, Paused

LEMMA RoundStep ==
  ASSUME TypeInv, RoundInv, [Next]_vars
  PROVE  /\ RoundInv'
         /\ \A c \in Clients : pc[c] # "idle" => Nearer(c) \/ (Paused(c) /\ ~ ClientStep(c))
<1>1. ASSUME NEW c \in Clients, ClientStep(c) PROVE Nearer(c) \/ pc[c] = "idle"
  BY <1>1, ClientAdvances DEF RoundInv, Advances
<1>2. ASSUME NEW c \in Clients, ClientStep(c) \/ UpdateLost(c)
      PROVE  /\ RoundInv'
             /\ \A b \in Clients : pc[b] # "idle" => Nearer(b) \/ Paused(b)
  <2>1. Advances(c)
    BY <1>2, ClientAdvances DEF RoundInv
  <2>2. \A b \in Clients : Paused(b) => RoundOK(b)'
    BY DEF RoundInv, RoundOK, Paused
  <2> QED
    BY <2>1, <2>2 DEF RoundInv, Advances
<1>3. CASE ServerStop
  BY <1>1, <1>3, StopAdvances DEF RoundInv
<1>4. CASE \A b \in Clients : Paused(b)
  BY <1>1, <1>4 DEF RoundInv, RoundOK, Paused
<1> QED
  BY <1>1, <1>2, <1>3, <1>4, OthersPause DEF Next

\* Every step that a client makes in a round, and every step of others that
\* changes its round, brings the round nearer to its end, whatever calls fail
\* and whenever the server stops.  With finitely many paths a round is finite.
THEOREM RoundsOnlyAdvance == Spec => RoundsAdvance
<1>1. Init => RoundInv
  BY DEF Init, RoundInv, RoundOK
<1>2. TypeInv /\ RoundInv /\ [Next]_vars => RoundInv'
  BY RoundStep
<1>3. TypeInv /\ RoundInv /\ [Next]_vars =>
        [\A c \in Clients :
           /\ pc[c] # "idle"
           /\ ClientStep(c) \/ pc'[c] # pc[c] \/ todo'[c] # todo[c]
           => Nearer(c)]_vars
  BY RoundStep DEF Paused
<1> QED
  BY <1>1, <1>2, <1>3, TypesAndCursors, PTL DEF Spec, RoundsAdvance

=============================================================================
