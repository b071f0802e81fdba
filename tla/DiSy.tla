-------------------------------- MODULE DiSy --------------------------------
(***************************************************************************)
(* The synchronisation protocol: one server and its clients, each with a   *)
(* directory on disk.  A client loops through sendUpdate: it crawls its    *)
(* directory, calls the Update RPC, then uploads and downloads what the    *)
(* response names, directories first.  The RPC handlers run in gRPC's      *)
(* threads, one per call; files go through a single asio thread that takes *)
(* connections in the order they were made.  Nothing is locked, so every   *)
(* loop over serverDirTree goes path by path and every write is a step of  *)
(* its own.                                                                *)
(*                                                                         *)
(* The users who edit the clients' directories, the clock and the faults   *)
(* are the environment; Editors, EditWhen and Faults say what it may do.   *)
(***************************************************************************)
EXTENDS DirTree, Sequences

CONSTANTS
  Clients,
  Server,
  Digest,     \* SHA-512: Digest[v] is the hash of contents v
  Skew,       \* Skew[r]: seconds by which the clock of r is ahead
  Editors,    \* the clients whose users edit
  EditWhen,   \* "anytime", "betweenRounds" or "settled"
  Mixtures,   \* contents of half-saved files; none if saves replace files whole
  Faults,     \* the RPCs that may fail, and "stop" if the server may stop
  MaxEdits,   \* bound on the versions a user writes of each file
  MaxTime,    \* bound on the clock
  MaxFaults,  \* bound on the number of faults
  MaxConns    \* connections the listening socket holds before connect blocks

Replicas == Clients \cup {Server}

\* Contents of a file: version v as its user saved it, or Empty, which is
\* also what reading a file that does not exist gives.
Empty == 0
Versions == Empty .. MaxEdits

\* Or what is read of a file while its user's program writes it: some bytes of
\* one version and some of another, which nobody saved.
Contents == Versions \cup Mixtures

FilesOnDisk == [mtime : Nat, data : Contents]

\* What the asio thread has received and not yet written.
Writes == [file : Files, data : Contents]

ASSUME DiSyAssumption ==
  /\ Server \notin Clients
  /\ None \notin Clients \cup Contents \cup FilesOnDisk \cup Writes
  /\ Digest \in [Contents -> Hashes]
  /\ \A v, w \in Contents : Digest[v] = Digest[w] => v = w
  /\ Skew \in [Replicas -> Nat]
  /\ Editors \subseteq Clients
  /\ EditWhen \in {"anytime", "betweenRounds", "settled"}
  /\ Mixtures \cap Int = {}
  /\ Faults \subseteq {"Update", "SendDirectory", "GetDirectory", "stop"}
  /\ MaxEdits \in Nat /\ MaxTime \in Nat /\ MaxFaults \in Nat /\ MaxConns \in Nat \ {0}

VARIABLES
  now,            \* the clock, in seconds
  edits,          \* edits[f]: the number of versions users have saved of f
  saving,         \* saving[c]: the version c's user is writing over a file
  disk,           \* disk[r][f]: mtime and contents of f at r
  dirs,           \* dirs[r]: the directories that exist at r
  up,             \* the server process runs
  serverDirTree,  \* the server's view of its own directory
  pc,             \* pc[c]: where the client (or the handler of its call) is
  tree,           \* tree[c]: updateRequest.dir_tree, under construction or sent
  todo,           \* todo[c]: what is left to visit, then of updateResponse
  cur,            \* cur[c]: the path being hashed, created or fetched
  conns,          \* connections made and not yet taken by the asio thread
  writing,        \* the file the asio thread is about to write
  reply,          \* reply[c]: contents sent to c and not yet read
  faults          \* faults so far

userVars == <<edits, saving>>
fsVars == <<disk, dirs>>
serverVars == <<up, serverDirTree>>
clientVars == <<pc, tree, todo, cur>>
asioVars == <<conns, writing, reply>>
vars == <<now, userVars, fsVars, serverVars, clientVars, asioVars, faults>>

UpdateSteps == {"clientDirs", "serverDirs", "clientFiles", "serverFiles"}
PCs == {"idle", "crawl", "hash", "transfer", "index", "fetch"} \cup UpdateSteps

\* A file that has been stat'ed and not yet hashed.
Stats == [file : Files, mtime : Nat]

Todos == [visit : SUBSET Paths, upDirs : SUBSET Dirs, downDirs : SUBSET Dirs,
          upFiles : SUBSET Files, downFiles : SUBSET Files]
NoTodo == [visit |-> {}, upDirs |-> {}, downDirs |-> {}, upFiles |-> {}, downFiles |-> {}]

FileMsgs == [type : {"File"}, file : Files, metadata : Metadata, data : Contents]
MetadataMsgs == [type : {"FileMetadata"}, file : Files, client : Clients]

TypeOK ==
  /\ now \in Nat
  /\ edits \in [Files -> 0 .. MaxEdits]
  /\ saving \in [Clients -> Writes \cup {None}]
  /\ disk \in [Replicas -> [Files -> FilesOnDisk \cup {None}]]
  /\ dirs \in [Replicas -> SUBSET Dirs]
  /\ up \in BOOLEAN
  /\ serverDirTree \in Trees
  /\ pc \in [Clients -> PCs]
  /\ tree \in [Clients -> Trees]
  /\ todo \in [Clients -> Todos]
  /\ cur \in [Clients -> Paths \cup Stats \cup {None}]
  /\ conns \in Seq(FileMsgs \cup MetadataMsgs)
  /\ writing \in Writes \cup {None}
  /\ reply \in [Clients -> Contents \cup {None}]
  /\ faults \in Nat

Init ==
  /\ now = 0
  /\ edits = [f \in Files |-> 0]
  /\ saving = [c \in Clients |-> None]
  /\ disk = [r \in Replicas |-> [f \in Files |-> None]]
  /\ dirs = [r \in Replicas |-> {}]
  /\ up = TRUE
  /\ serverDirTree = EmptyTree
  /\ pc = [c \in Clients |-> "idle"]
  /\ tree = [c \in Clients |-> EmptyTree]
  /\ todo = [c \in Clients |-> NoTodo]
  /\ cur = [c \in Clients |-> None]
  /\ conns = <<>>
  /\ writing = None
  /\ reply = [c \in Clients |-> None]
  /\ faults = 0

-----------------------------------------------------------------------------
(***************************************************************************)
(* Files.                                                                  *)
(***************************************************************************)
Clock(r) == now + Skew[r]

\* getFileFromMetadata: a file that cannot be opened reads as empty.
Read(r, f) == IF disk[r][f] = None THEN Empty ELSE disk[r][f].data

\* writeFile: the stream opens only if the directory exists, and nobody looks
\* whether it did.  The modification time is that of the write.
Written(r, f, v) ==
  IF Above[f] \subseteq dirs[r]
  THEN [disk EXCEPT ![r][f] = [mtime |-> Clock(r), data |-> v]]
  ELSE disk

\* Mutant: only the directories above d are created.
CreatedAbove(r, d) == [dirs EXCEPT ![r] = @ \cup Above[d]]

\* writeDirectory creates the directories above d as well.
Created(r, d) == [dirs EXCEPT ![r] = @ \cup Above[d] \cup {d}]

\* crawlDirectory as the server's constructor calls it, before any thread runs.
Crawled(r) ==
  [dirs  |-> dirs[r],
   files |-> [f \in Files |->
                IF disk[r][f] = None THEN None
                ELSE [mtime |-> disk[r][f].mtime, hash |-> Digest[disk[r][f].data]]]]

-----------------------------------------------------------------------------
(***************************************************************************)
(* The environment: users, clock.                                          *)
(***************************************************************************)
\* c and the server list the same directories and the same contents.
InSync(c) ==
  /\ dirs[c] = serverDirTree.dirs
  /\ \A f \in Files :
       IF disk[c][f] = None THEN serverDirTree.files[f] = None
       ELSE /\ serverDirTree.files[f] # None
            /\ serverDirTree.files[f].hash = Digest[disk[c][f].data]

\* Every client agrees with the server.
Synchronised == up /\ \A c \in Clients : InSync(c)

\* Besides, no round is under way and the asio thread has nothing to do.
Settled ==
  /\ Synchronised
  /\ conns = <<>>
  /\ writing = None
  /\ \A c \in Clients : pc[c] = "idle"

\* The last disjunct also asks for a second later than every write so far.
MayEdit(c) ==
  /\ c \in Editors
  /\ \/ EditWhen = "anytime"
     \/ EditWhen = "betweenRounds" /\ pc[c] = "idle"
     \/ /\ EditWhen = "settled"
        /\ Settled
        /\ \A r \in Replicas : \A f \in Files :
             disk[r][f] # None => disk[r][f].mtime < Clock(c)

\* A user saves one file at a time.
MaySave(c, f) ==
  /\ MayEdit(c)
  /\ saving[c] = None
  /\ edits[f] < MaxEdits
  /\ Above[f] \subseteq dirs[c]

Saved(c, f, v) == [disk EXCEPT ![c][f] = [mtime |-> Clock(c), data |-> v]]

\* Saves write over files that may be read meanwhile.
SavesInPlace == EditWhen = "anytime" /\ Mixtures # {}

\* A save that replaces the file as a whole, or that nobody can watch.
EditFile(c, f) ==
  /\ ~ SavesInPlace
  /\ MaySave(c, f)
  /\ edits' = [edits EXCEPT ![f] = @ + 1]
  /\ disk' = Saved(c, f, edits[f] + 1)
  /\ UNCHANGED <<now, saving, dirs, serverVars, clientVars, asioVars, faults>>

\* A save that writes over the file.  Read and HashFile below go through a file
\* byte by byte (reader.hpp:26-31, hashing.hpp:24-31) and are one step each;
\* that a save goes on meanwhile is seen by taking that step in between.
BeginSave(c, f) ==
  /\ SavesInPlace
  /\ MaySave(c, f)
  /\ edits' = [edits EXCEPT ![f] = @ + 1]
  /\ saving' = [saving EXCEPT ![c] = [file |-> f, data |-> edits[f] + 1]]
  /\ \E m \in Mixtures : disk' = Saved(c, f, m)
  /\ UNCHANGED <<now, dirs, serverVars, clientVars, asioVars, faults>>

\* What it leaves is the version, or a mixture of it and of a download that was
\* written over the file meanwhile.
EndSave(c) ==
  /\ saving[c] # None
  /\ \E v \in {saving[c].data} \cup Mixtures : disk' = Saved(c, saving[c].file, v)
  /\ saving' = [saving EXCEPT ![c] = None]
  /\ UNCHANGED <<now, edits, dirs, serverVars, clientVars, asioVars, faults>>

NewDirectory(c, d) ==
  /\ MayEdit(c)
  /\ d \notin dirs[c]
  /\ Above[d] \subseteq dirs[c]
  /\ dirs' = [dirs EXCEPT ![c] = @ \cup {d}]
  /\ UNCHANGED <<now, userVars, disk, serverVars, clientVars, asioVars, faults>>

Tick ==
  /\ now < MaxTime
  /\ now' = now + 1
  /\ UNCHANGED <<userVars, fsVars, serverVars, clientVars, asioVars, faults>>

-----------------------------------------------------------------------------
(***************************************************************************)
(* Client::sendUpdate up to the call.                                      *)
(***************************************************************************)
BeginCrawl(c) ==
  /\ pc[c] = "idle"
  /\ pc' = [pc EXCEPT ![c] = "crawl"]
  /\ todo' = [todo EXCEPT ![c].visit = Paths]
  /\ UNCHANGED <<now, userVars, fsVars, serverVars, tree, cur, asioVars, faults>>

\* recursive_directory_iterator reaches p: a directory is listed, a file is
\* stat'ed.  What lies in a directory it did not see is not visited.
Visit(c, p) ==
  /\ pc[c] = "crawl"
  /\ p \in todo[c].visit
  /\ Above[p] \cap todo[c].visit = {}
  /\ todo' = [todo EXCEPT ![c].visit = @ \ {p}]
  /\ LET seen == Above[p] \subseteq tree[c].dirs
     IN  IF seen /\ p \in dirs[c]
         THEN /\ tree' = [tree EXCEPT ![c].dirs = @ \cup {p}]
              /\ UNCHANGED <<pc, cur>>
         ELSE IF seen /\ p \in Files /\ disk[c][p] # None
         THEN /\ pc' = [pc EXCEPT ![c] = "hash"]
              /\ cur' = [cur EXCEPT ![c] = [file |-> p, mtime |-> disk[c][p].mtime]]
              /\ UNCHANGED tree
         ELSE UNCHANGED <<pc, tree, cur>>
  /\ UNCHANGED <<now, userVars, fsVars, serverVars, asioVars, faults>>

HashFile(c) ==
  /\ pc[c] = "hash"
  /\ tree' = [tree EXCEPT ![c].files[cur[c].file] =
                 [mtime |-> cur[c].mtime, hash |-> Digest[Read(c, cur[c].file)]]]
  /\ pc' = [pc EXCEPT ![c] = "crawl"]
  /\ cur' = [cur EXCEPT ![c] = None]
  /\ UNCHANGED <<now, userVars, fsVars, serverVars, todo, asioVars, faults>>

\* The locals of sendUpdate go; the client sleeps, then starts over.
EndRound(c) ==
  /\ pc' = [pc EXCEPT ![c] = "idle"]
  /\ tree' = [tree EXCEPT ![c] = EmptyTree]
  /\ todo' = [todo EXCEPT ![c] = NoTodo]
  /\ cur' = [cur EXCEPT ![c] = None]

CrawlDone(c) == pc[c] = "crawl" /\ todo[c].visit = {}

Approved(c) == ClientApproved(Clock(Server), Clock(c))

CallUpdate(c) ==
  /\ CrawlDone(c)
  /\ up
  /\ Approved(c)
  /\ pc' = [pc EXCEPT ![c] = "clientDirs"]
  /\ todo' = [todo EXCEPT ![c].visit = Dirs]
  /\ UNCHANGED <<now, userVars, fsVars, serverVars, tree, cur, asioVars, faults>>

\* status is not OK: no server, or Update returned CANCELLED.
UpdateRefused(c) ==
  /\ CrawlDone(c)
  /\ ~ up \/ ~ Approved(c)
  /\ EndRound(c)
  /\ UNCHANGED <<now, userVars, fsVars, serverVars, asioVars, faults>>

Fault(what) == what \in Faults /\ faults < MaxFaults /\ faults' = faults + 1

\* The call or its response is lost.
UpdateLost(c) ==
  /\ pc[c] \in UpdateSteps
  /\ Fault("Update")
  /\ EndRound(c)
  /\ UNCHANGED <<now, userVars, fsVars, serverVars, asioVars>>

-----------------------------------------------------------------------------
(***************************************************************************)
(* Server::processUpdate: four loops, one after the other, over the paths  *)
(* of one tree with a look into the other.  Another thread may write       *)
(* serverDirTree between any two paths.                                    *)
(***************************************************************************)
Compare(c, loop, p) ==
  /\ pc[c] = loop
  /\ p \in todo[c].visit
  /\ UNCHANGED <<now, userVars, fsVars, serverVars, pc, tree, cur, asioVars, faults>>

CompareClientDir(c, d) ==
  /\ Compare(c, "clientDirs", d)
  /\ todo' = [todo EXCEPT ![c].visit = @ \ {d},
               ![c].upDirs = @ \cup ({d} \cap MissingDirs(tree[c], serverDirTree))]

CompareServerDir(c, d) ==
  /\ Compare(c, "serverDirs", d)
  /\ todo' = [todo EXCEPT ![c].visit = @ \ {d},
               ![c].downDirs = @ \cup ({d} \cap MissingDirs(serverDirTree, tree[c]))]

CompareClientFile(c, f) ==
  /\ Compare(c, "clientFiles", f)
  /\ todo' = [todo EXCEPT ![c].visit = @ \ {f},
               ![c].upFiles = @ \cup ({f} \cap WantedFiles(tree[c], serverDirTree))]

\* Mutant: the fourth loop fills the map of the third.
CompareServerFileWrongMap(c, f) ==
  /\ Compare(c, "serverFiles", f)
  /\ todo' = [todo EXCEPT ![c].visit = @ \ {f},
               ![c].upFiles = @ \cup ({f} \cap WantedFiles(serverDirTree, tree[c]))]

CompareServerFile(c, f) ==
  /\ Compare(c, "serverFiles", f)
  /\ todo' = [todo EXCEPT ![c].visit = @ \ {f},
               ![c].downFiles = @ \cup ({f} \cap WantedFiles(serverDirTree, tree[c]))]

NextLoop ==
  [clientDirs  |-> [pc |-> "serverDirs", visit |-> Dirs],
   serverDirs  |-> [pc |-> "clientFiles", visit |-> Files],
   clientFiles |-> [pc |-> "serverFiles", visit |-> Files],
   serverFiles |-> [pc |-> "transfer", visit |-> {}]]

\* The end of the last loop returns the response.
LoopDone(c) ==
  /\ pc[c] \in UpdateSteps
  /\ todo[c].visit = {}
  /\ pc' = [pc EXCEPT ![c] = NextLoop[@].pc]
  /\ todo' = [todo EXCEPT ![c].visit = NextLoop[pc[c]].visit]
  /\ UNCHANGED <<now, userVars, fsVars, serverVars, tree, cur, asioVars, faults>>

-----------------------------------------------------------------------------
(***************************************************************************)
(* The client's transfers, in the order of sendUpdate.                     *)
(***************************************************************************)
UpDirsLeft(c) == pc[c] = "transfer" /\ todo[c].upDirs # {}
DownDirsLeft(c) == pc[c] = "transfer" /\ todo[c].upDirs = {} /\ todo[c].downDirs # {}
\* Mutant: files may go before directories.
DirsIgnored(c) == pc[c] = "transfer"
DirsDone(c) == pc[c] = "transfer" /\ todo[c].upDirs = {} /\ todo[c].downDirs = {}
UpFilesLeft(c) == DirsDone(c) /\ todo[c].upFiles # {}
\* Mutant: downloads may go before uploads.
DownFilesAtOnce(c) == DirsDone(c) /\ todo[c].downFiles # {}
DownFilesLeft(c) == DirsDone(c) /\ todo[c].upFiles = {} /\ todo[c].downFiles # {}

\* uploadDirectory calls SendDirectory, which first writes the disk ...
SendDirectory(c, d) ==
  /\ UpDirsLeft(c)
  /\ d \in todo[c].upDirs
  /\ up
  /\ dirs' = Created(Server, d)
  /\ todo' = [todo EXCEPT ![c].upDirs = @ \ {d}]
  /\ pc' = [pc EXCEPT ![c] = "index"]
  /\ cur' = [cur EXCEPT ![c] = d]
  /\ UNCHANGED <<now, userVars, disk, serverVars, tree, asioVars, faults>>

\* ... then the tree, and returns.
IndexDirectory(c) ==
  /\ pc[c] = "index"
  /\ serverDirTree' = [serverDirTree EXCEPT !.dirs = @ \cup {cur[c]}]
  /\ pc' = [pc EXCEPT ![c] = "transfer"]
  /\ cur' = [cur EXCEPT ![c] = None]
  /\ UNCHANGED <<now, userVars, fsVars, up, tree, todo, asioVars, faults>>

\* Mutant: a failed call is made again.
SendDirectoryAgain(c, d) ==
  /\ UpDirsLeft(c)
  /\ d \in todo[c].upDirs
  /\ Fault("SendDirectory") \/ (~ up /\ UNCHANGED faults)
  /\ UNCHANGED <<now, userVars, fsVars, serverVars, clientVars, asioVars>>

\* A failed call is logged and the loop goes on.
SendDirectoryFails(c, d) ==
  /\ UpDirsLeft(c)
  /\ d \in todo[c].upDirs
  /\ Fault("SendDirectory") \/ (~ up /\ UNCHANGED faults)
  /\ todo' = [todo EXCEPT ![c].upDirs = @ \ {d}]
  /\ UNCHANGED <<now, userVars, fsVars, serverVars, pc, tree, cur, asioVars>>

\* GetDirectory echoes the path; the client creates it.
DownloadDirectory(c, d) ==
  /\ DownDirsLeft(c)
  /\ d \in todo[c].downDirs
  /\ up
  /\ dirs' = Created(c, d)
  /\ todo' = [todo EXCEPT ![c].downDirs = @ \ {d}]
  /\ UNCHANGED <<now, userVars, disk, serverVars, pc, tree, cur, asioVars, faults>>

\* On failure the path in the response is empty and nothing is created.
DownloadDirectoryFails(c, d) ==
  /\ DownDirsLeft(c)
  /\ d \in todo[c].downDirs
  /\ Fault("GetDirectory") \/ (~ up /\ UNCHANGED faults)
  /\ todo' = [todo EXCEPT ![c].downDirs = @ \ {d}]
  /\ UNCHANGED <<now, userVars, fsVars, serverVars, pc, tree, cur, asioVars>>

\* The metadata is the crawl's, the contents are read now.  Nothing is
\* acknowledged: the client goes on as soon as the bytes are with the socket.
UploadFile(c, f) ==
  /\ UpFilesLeft(c)
  /\ f \in todo[c].upFiles
  /\ up
  /\ Len(conns) < MaxConns
  /\ conns' = Append(conns, [type |-> "File", file |-> f,
                             metadata |-> tree[c].files[f], data |-> Read(c, f)])
  /\ todo' = [todo EXCEPT ![c].upFiles = @ \ {f}]
  /\ UNCHANGED <<now, userVars, fsVars, serverVars, pc, tree, cur, writing, reply, faults>>

\* downloadFile up to the blocking receive.
RequestFile(c, f) ==
  /\ DownFilesLeft(c)
  /\ f \in todo[c].downFiles
  /\ up
  /\ Len(conns) < MaxConns
  /\ conns' = Append(conns, [type |-> "FileMetadata", file |-> f, client |-> c])
  /\ pc' = [pc EXCEPT ![c] = "fetch"]
  /\ cur' = [cur EXCEPT ![c] = f]
  /\ UNCHANGED <<now, userVars, fsVars, serverVars, tree, todo, writing, reply, faults>>

\* Mutant: a client gives up waiting for the file it asked for.
GiveUp(c) ==
  /\ pc[c] = "fetch"
  /\ EndRound(c)
  /\ UNCHANGED <<now, userVars, fsVars, serverVars, asioVars, faults>>

ReceiveFile(c) ==
  /\ pc[c] = "fetch"
  /\ reply[c] # None
  /\ disk' = Written(c, cur[c], reply[c])
  /\ todo' = [todo EXCEPT ![c].downFiles = @ \ {cur[c]}]
  /\ pc' = [pc EXCEPT ![c] = "transfer"]
  /\ cur' = [cur EXCEPT ![c] = None]
  /\ reply' = [reply EXCEPT ![c] = None]
  /\ UNCHANGED <<now, userVars, dirs, serverVars, tree, conns, writing, faults>>

\* connect throws and sendUpdate's handler ends the round.
ConnectFails(c) ==
  /\ UpFilesLeft(c) \/ DownFilesLeft(c)
  /\ ~ up
  /\ EndRound(c)
  /\ UNCHANGED <<now, userVars, fsVars, serverVars, asioVars, faults>>

RoundDone(c) ==
  /\ DirsDone(c)
  /\ todo[c].upFiles = {}
  /\ todo[c].downFiles = {}
  /\ EndRound(c)
  /\ UNCHANGED <<now, userVars, fsVars, serverVars, asioVars, faults>>

-----------------------------------------------------------------------------
(***************************************************************************)
(* Server::startAsioServer, one connection after the other.                *)
(***************************************************************************)
NextConn(type) == up /\ writing = None /\ conns # <<>> /\ Head(conns).type = type

\* Mutant: an entry that is there already is kept.
AcceptFileOnce ==
  /\ NextConn("File")
  /\ LET m == Head(conns)
     IN  /\ serverDirTree' = [serverDirTree EXCEPT !.files[m.file] = IF @ = None THEN m.metadata ELSE @]
         /\ writing' = [file |-> m.file, data |-> m.data]
  /\ conns' = Tail(conns)
  /\ UNCHANGED <<now, userVars, fsVars, up, clientVars, reply, faults>>

\* An uploaded file enters the tree first ...
AcceptFile ==
  /\ NextConn("File")
  /\ LET m == Head(conns)
     IN  /\ serverDirTree' = [serverDirTree EXCEPT !.files[m.file] = m.metadata]
         /\ writing' = [file |-> m.file, data |-> m.data]
  /\ conns' = Tail(conns)
  /\ UNCHANGED <<now, userVars, fsVars, up, clientVars, reply, faults>>

\* ... and the disk second.
WriteFile ==
  /\ writing # None
  /\ disk' = Written(Server, writing.file, writing.data)
  /\ writing' = None
  /\ UNCHANGED <<now, userVars, dirs, serverVars, clientVars, conns, reply, faults>>

AcceptRequest ==
  /\ NextConn("FileMetadata")
  /\ reply' = [reply EXCEPT ![Head(conns).client] = Read(Server, Head(conns).file)]
  /\ conns' = Tail(conns)
  /\ UNCHANGED <<now, userVars, fsVars, serverVars, clientVars, writing, faults>>

-----------------------------------------------------------------------------
(***************************************************************************)
(* The server process stops and is started again.                          *)
(***************************************************************************)
\* Mutant: the client does not notice that the peer is gone.
CutOffInRPC(c) == pc[c] \in UpdateSteps

\* The client is inside Update, or waits for a file not yet sent: the call
\* fails or the socket throws, and the round is over.
CutOff(c) == pc[c] \in UpdateSteps \/ (pc[c] = "fetch" /\ reply[c] = None)

\* What was queued is lost without a word; a file being written may be left
\* untouched, truncated or complete.
ServerStop ==
  /\ Fault("stop")
  /\ up
  /\ up' = FALSE
  /\ serverDirTree' = EmptyTree
  /\ \/ UNCHANGED disk
     \/ /\ writing # None
        /\ \E v \in {Empty, writing.data} : disk' = Written(Server, writing.file, v)
  /\ conns' = <<>>
  /\ writing' = None
  /\ pc' = [c \in Clients |-> IF CutOff(c) THEN "idle"
                              ELSE IF pc[c] = "index" THEN "transfer" ELSE pc[c]]
  /\ tree' = [c \in Clients |-> IF CutOff(c) THEN EmptyTree ELSE tree[c]]
  /\ todo' = [c \in Clients |-> IF CutOff(c) THEN NoTodo ELSE todo[c]]
  /\ cur' = [c \in Clients |-> IF CutOff(c) \/ pc[c] = "index" THEN None ELSE cur[c]]
  /\ UNCHANGED <<now, userVars, dirs, reply>>

\* The constructor crawls the directory afresh.
ServerStart ==
  /\ ~ up
  /\ up' = TRUE
  /\ serverDirTree' = Crawled(Server)
  /\ UNCHANGED <<now, userVars, fsVars, clientVars, asioVars, faults>>

-----------------------------------------------------------------------------
UserStep(c) ==
  \/ \E f \in Files : EditFile(c, f) \/ BeginSave(c, f)
  \/ EndSave(c)
  \/ \E d \in Dirs : NewDirectory(c, d)

CrawlStep(c) ==
  \/ BeginCrawl(c)
  \/ \E p \in Paths : Visit(c, p)
  \/ HashFile(c)

ProcessUpdate(c) ==
  \/ \E d \in Dirs : CompareClientDir(c, d) \/ CompareServerDir(c, d)
  \/ \E f \in Files : CompareClientFile(c, f) \/ CompareServerFile(c, f)
  \/ LoopDone(c)

UpdateStep(c) == CallUpdate(c) \/ UpdateRefused(c) \/ ProcessUpdate(c)

TransferStep(c) ==
  \/ \E d \in Dirs : SendDirectory(c, d) \/ DownloadDirectory(c, d)
  \/ \E d \in Dirs : SendDirectoryFails(c, d) \/ DownloadDirectoryFails(c, d)
  \/ IndexDirectory(c)
  \/ \E f \in Files : UploadFile(c, f) \/ RequestFile(c, f)
  \/ ReceiveFile(c)
  \/ ConnectFails(c)
  \/ RoundDone(c)

ClientStep(c) == CrawlStep(c) \/ UpdateStep(c) \/ TransferStep(c)

AsioStep == AcceptFile \/ WriteFile \/ AcceptRequest

Next ==
  \/ \E c \in Clients : ClientStep(c) \/ UpdateLost(c) \/ UserStep(c)
  \/ AsioStep
  \/ Tick
  \/ ServerStop
  \/ ServerStart

Spec == Init /\ [][Next]_vars

\* Every client process, the asio thread and the clock keep running; users need
\* not edit, calls need not fail, a stopped server need not be started.
FairSpec ==
  /\ Spec
  /\ \A c \in Clients : WF_vars(ClientStep(c))
  /\ WF_vars(AsioStep)
  /\ WF_vars(Tick)

-----------------------------------------------------------------------------
(***************************************************************************)
(* Properties.                                                             *)
(***************************************************************************)
\* Every directory the server lists exists on its disk, whatever calls fail
\* and whenever the server stops between the two halves of SendDirectory.
IndexedDirsExist == serverDirTree.dirs \subseteq dirs[Server]

\* A file reaches the asio thread only when the directories above it are on
\* the server: the order of transfers in sendUpdate and the acknowledged
\* SendDirectory calls guarantee it, though uploads are queued unacknowledged.
UploadsLand ==
  /\ \A i \in 1 .. Len(conns) :
       conns[i].type = "File" => Above[conns[i].file] \subseteq dirs[Server]
  /\ writing # None => Above[writing.file] \subseteq dirs[Server]

\* What processUpdate tells clients of a file is what the asio thread will
\* serve: the file exists and has the hash listed, except while it is being
\* written.
ListedAsStored(f) ==
  \/ serverDirTree.files[f] = None
  \/ /\ disk[Server][f] # None
     /\ serverDirTree.files[f].hash = Digest[disk[Server][f].data]
IndexTellsTruth == \A f \in Files : ListedAsStored(f) \/ (writing # None /\ writing.file = f)

\* "File on client but not on server" (server.cpp:155) is decided by the
\* tree alone: a file the tree lists is on the server, or being written.
IndexedFilesExist ==
  \A f \in Files :
    serverDirTree.files[f] # None =>
      disk[Server][f] # None \/ (writing # None /\ writing.file = f)

\* No replica ever holds contents that no user saved: in particular nobody
\* receives the empty contents that getFileFromMetadata makes of a missing file.
\* Where saves write over a file that is read meanwhile, it may hold what was
\* there in the middle of a save, and nothing else.
LeftBySaves(n) == (1 .. n) \cup (IF SavesInPlace THEN Mixtures ELSE {})
OnlySavedContents ==
  \A r \in Replicas, f \in Files :
    disk[r][f] # None => disk[r][f].data \in LeftBySaves(edits[f])

\* Under live edits an upload carries the time and hash of the crawl and later
\* contents, so that the server lists what it does not have; but not for ever:
\* a later round sets the tree right, unless a client's copy has the very
\* second that is listed, when the two are never exchanged (server.cpp:167).
Tied(c, f) ==
  /\ disk[c][f] # None
  /\ serverDirTree.files[f] # None
  /\ disk[c][f].mtime = serverDirTree.files[f].mtime
  /\ Digest[disk[c][f].data] # serverDirTree.files[f].hash
TruthReturns == []<>(\A f \in Files : ListedAsStored(f) \/ \E c \in Clients : Tied(c, f))

\* A client that waits for a file has its request queued or its answer under
\* way, never both, and a client that does not wait has neither: no download
\* can take the answer of an earlier one, and none waits for nothing.
Requests(c) == {i \in 1 .. Len(conns) :
                  conns[i].type = "FileMetadata" /\ conns[i].client = c}
AnswerDue(c) ==
  IF pc[c] = "fetch"
  THEN IF reply[c] = None
       THEN \E i \in Requests(c) : Requests(c) = {i} /\ conns[i].file = cur[c]
       ELSE Requests(c) = {}
  ELSE Requests(c) = {} /\ reply[c] = None
OneAnswer == \A c \in Clients : AnswerDue(c)

\* Whenever nothing is left to synchronise, every replica has the version that
\* was saved last: no edit was overwritten by an older version of the file.
LatestEverywhere ==
  Settled => \A r \in Replicas, f \in Files :
               IF edits[f] = 0 THEN disk[r][f] = None
               ELSE disk[r][f] # None /\ disk[r][f].data = edits[f]

\* Every round ends: no client waits for ever for the asio thread, a handler
\* or a server that is gone.
RoundsEnd == \A c \in Clients : []<>(pc[c] = "idle")

\* Why it ends: whatever a client does in a round, and whatever the server and
\* the other clients do to it meanwhile, brings it nearer to its end.  A failed
\* call is not made again, what the response asks for is done at most once and
\* nothing is added to it when files keep changing, so that a round takes no
\* more steps than there are paths and loops.
StageOf == [idle |-> 0, transfer |-> 1, index |-> 1, fetch |-> 1, serverFiles |-> 2,
            clientFiles |-> 3, serverDirs |-> 4, clientDirs |-> 5, crawl |-> 6, hash |-> 6]
Stage(c) == StageOf[pc[c]]
Left(c) ==
  IF Stage(c) > 1
  THEN (todo[c].visit \X {"reach", "hash"})
       \cup (IF pc[c] = "hash" THEN {<<cur[c].file, "hash">>} ELSE {})
  ELSE (todo[c].upDirs \X {"create", "index"})
       \cup (IF pc[c] = "index" THEN {<<cur[c], "index">>} ELSE {})
       \cup (todo[c].downDirs \X {"copy"})
       \cup (todo[c].upFiles \X {"send"})
       \cup (todo[c].downFiles \X {"receive"})
       \cup ((IF pc[c] = "fetch" THEN todo[c].downFiles \ {cur[c]} ELSE todo[c].downFiles)
              \X {"request"})
Nearer(c) ==
  \/ Stage(c)' < Stage(c)
  \/ Stage(c)' = Stage(c) /\ Left(c)' \subseteq Left(c) /\ Left(c)' # Left(c)
RoundsAdvance ==
  [][\A c \in Clients :
       /\ pc[c] # "idle"
       /\ ClientStep(c) \/ pc'[c] # pc[c] \/ todo'[c] # todo[c]
       => Nearer(c)]_vars

\* The directories keep becoming equal, also when the clocks that are compared
\* wrap around and a client whose clock is right is refused for a while.
Synchronises == []<>Synchronised

\* If the server stays up, all replicas end with the same directories: what a
\* failed call, a lost response or a stop left out is made up for by a later
\* round.
SameDirs == \A c \in Clients :
              dirs[c] = dirs[Server] /\ serverDirTree.dirs = dirs[Server]
DirectoriesConverge == <>[]up => <>[]SameDirs

\* An upload that was lost with the listening queue, or with a server that
\* stopped before it wrote the file, is made again: once the server stays up
\* the directories keep becoming equal.  It is not so while the server lists a
\* file it does not have (server.cpp:155), nor where a file is empty, because
\* the server stopped when it had truncated it.
NoneEmpty == \A r \in Replicas, f \in Files : disk[r][f] # None => disk[r][f].data # Empty
LostUploadsRemade == <>[](up /\ IndexedFilesExist /\ NoneEmpty) => []<>Synchronised

\* "Server has older file than client" (server.cpp:170): the version a client
\* is asked to upload was saved later than the one the server has.
UploadsAreNewer ==
  [][\A c \in Clients, f \in Files :
         /\ CompareClientFile(c, f)
         /\ f \in todo'[c].upFiles \ todo[c].upFiles
         /\ serverDirTree.files[f] # None
         => \E old, new \in Versions :
              /\ serverDirTree.files[f].hash = Digest[old]
              /\ tree[c].files[f].hash = Digest[new]
              /\ old < new]_vars

\* The abstract specification this one implements when users edit settled
\* directories only.
Promise == INSTANCE Replication WITH
  store <- [r \in Replicas |-> [f \in Files |->
              IF disk[r][f] = None THEN 0 ELSE disk[r][f].data]]
PromiseKept == Promise!Spec

\* The asio thread serves its connections in order and answers every request
\* once, also when the server stops and starts.
Queue == INSTANCE FileQueue WITH
  queue <- [i \in 1 .. Len(conns) |->
              IF conns[i].type = "FileMetadata" THEN conns[i].client ELSE None],
  answered <- {c \in Clients : reply[c] # None}
QueueKept == Queue!Spec

\* Its safety part, which needs no fairness: connections are served in order
\* and a request has one answer, taken by the client that sent it.
QueueInOrder == Queue!Safety

=============================================================================
