----------------------------- MODULE DiSy_latest -----------------------------
(***************************************************************************)
(* The last version of every file, when users take turns: it is never      *)
(* overwritten by an older one, and what replicas do is what Replication   *)
(* allows.                                                                 *)
(***************************************************************************)
EXTENDS DiSy_truth

\* Users edit only when everything is settled, in a second of its own.
TakingTurns == NoDirectoryLost /\ EditWhen = "settled"

\* What holds already.
Proved == Base /\ SavedInv /\ TruthInv

-----------------------------------------------------------------------------
(***************************************************************************)
(* Crawls, when nobody edits meanwhile.                                    *)
(***************************************************************************)
\* What exists at c is in directories that exist.
Closed(c) ==
  /\ \A d \in dirs[c] : Above[d] \subseteq dirs[c]
  /\ \A f \in Files : disk[c][f] # None => Above[f] \subseteq dirs[c]

\* A list has the times of the disk, as far as it will be sent.
Stamped(c) ==
  /\ pc[c] = "hash" => cur[c].mtime = disk[c][cur[c].file].mtime
  /\ \A f \in Files :
       /\ tree[c].files[f] # None
       /\ pc[c] \notin Transferring \/ f \in todo[c].upFiles
       => tree[c].files[f].mtime = disk[c][f].mtime

\* A list misses nothing.
Complete(c) ==
  /\ pc[c] \in {"crawl", "hash"} =>
       /\ dirs[c] \ todo[c].visit \subseteq tree[c].dirs
       /\ \A f \in Files \ todo[c].visit :
            \/ disk[c][f] = None
            \/ tree[c].files[f] # None
            \/ pc[c] = "hash" /\ cur[c].file = f
  /\ pc[c] \in UpdateSteps => \A f \in Files : disk[c][f] # None => tree[c].files[f] # None

\* Between rounds there is nothing to transfer, and what is being fetched is
\* part of the response.
Errands(c) ==
  /\ pc[c] = "idle" => todo[c].upFiles = {} /\ todo[c].downFiles = {}
  /\ pc[c] = "fetch" => cur[c] \in todo[c].downFiles

CrawlOK(c) == Closed(c) /\ Stamped(c) /\ Complete(c) /\ Errands(c)

CrawlInv == \A c \in Clients : CrawlOK(c)

Untouched(b) == Unmoved(b) /\ disk'[b] = disk[b] /\ dirs'[b] = dirs[b]

LEMMA UntouchedOK == ASSUME NEW b \in Clients, CrawlOK(b), Untouched(b) PROVE CrawlOK(b)'
BY DEF CrawlOK, Closed, Stamped, Complete, Errands, Untouched, Unmoved

LEMMA OneMoves ==
  ASSUME CrawlInv, NEW c \in Clients, \A b \in Clients : b # c => Untouched(b), CrawlOK(c)'
  PROVE  CrawlInv'
BY UntouchedOK DEF CrawlInv

LEMMA TurnTaken ==
  ASSUME TakingTurns, NEW c \in Clients, MayEdit(c)
  PROVE  /\ Settled
         /\ \A r \in Replicas, f \in Files : disk[r][f] # None => disk[r][f].mtime < Clock(c)
BY DEF TakingTurns, MayEdit

\* Nobody reads a file that is being saved, so every copy is a version.
LEMMA VersionsOnly ==
  ASSUME TakingTurns
  PROVE  /\ \A n \in Nat : LeftBySaves(n) = 1 .. n
         /\ TypeInv /\ SavedInv =>
              \A r \in Replicas, f \in Files :
                disk[r][f] # None => disk[r][f].data \in 1 .. edits[f]
<1>1. \A n \in Nat : LeftBySaves(n) = 1 .. n
  BY DEF TakingTurns, LeftBySaves, SavesInPlace
<1> QED
  BY <1>1, DiSyAssumption DEF SavedInv, OnlySavedContents, TypeInv, TypeOK

LEMMA EditCrawl ==
  ASSUME TakingTurns, Proved, CrawlInv, NEW c \in Clients, NEW f \in Files, EditFile(c, f)
  PROVE  CrawlInv'
<1>1. pc[c] = "idle" /\ Above[f] \subseteq dirs[c] /\ UNCHANGED dirs
  BY TurnTaken DEF EditFile, MaySave, Settled
<1>2. /\ UNCHANGED <<pc, tree, todo, cur>>
      /\ \A r \in Replicas, g \in Files : r # c \/ g # f => disk'[r][g] = disk[r][g]
  BY EditEffect DEF Proved, Base
<1>3. \A r \in Replicas : r # c => disk'[r] = disk[r]
  BY DEF EditFile, Saved, Proved, Base, TypeInv, TypeOK
<1>4. \A b \in Clients : b # c => Untouched(b)
  BY <1>1, <1>2, <1>3, Replica DEF Untouched, Unmoved
<1>5. \A g \in Files : tree[c].files[g] = None
  BY <1>1 DEF Proved, TruthInv, ListTellsTruth
<1>6. Closed(c)'
  BY <1>1, <1>2, Replica DEF CrawlInv, CrawlOK, Closed
<1>7. Stamped(c)' /\ Complete(c)' /\ Errands(c)'
  BY <1>1, <1>2, <1>5 DEF CrawlInv, CrawlOK, Stamped, Complete, Errands, UpdateSteps
<1> QED
  BY <1>4, <1>6, <1>7, OneMoves DEF CrawlOK

LEMMA NewDirectoryCrawl ==
  ASSUME TakingTurns, Proved, CrawlInv, NEW c \in Clients, NEW d \in Dirs, NewDirectory(c, d)
  PROVE  CrawlInv'
<1>1. /\ pc[c] = "idle" /\ Above[d] \subseteq dirs[c]
      /\ UNCHANGED <<disk, pc, tree, todo, cur>>
      /\ dirs'[c] = dirs[c] \cup {d}
      /\ \A b \in Clients : b # c => dirs'[b] = dirs[b]
  BY TurnTaken, Replica DEF NewDirectory, Settled, clientVars, Proved, Base, TypeInv, TypeOK
<1>2. Closed(c)' /\ Stamped(c)' /\ Complete(c)' /\ Errands(c)'
  BY <1>1 DEF CrawlInv, CrawlOK, Closed, Stamped, Complete, Errands, UpdateSteps
<1> QED
  BY <1>1, <1>2, OneMoves DEF CrawlOK, Untouched, Unmoved

LEMMA BeginCrawlCrawl ==
  ASSUME Proved, CrawlInv, NEW c \in Clients, BeginCrawl(c)
  PROVE  CrawlInv'
<1>1. /\ UNCHANGED <<disk, dirs, tree, cur>>
      /\ \A b \in Clients : b # c => Unmoved(b)
      /\ pc[c] = "idle" /\ pc'[c] = "crawl"
      /\ todo'[c].visit = Paths
  BY DEF BeginCrawl, fsVars, Unmoved, Proved, Base, TypeInv, TypeOK, Todos
<1>2. dirs[c] \subseteq Paths /\ Files \subseteq Paths
  BY Replica DEF Paths, Proved, Base, TypeInv, TypeOK
<1>3. \A g \in Files : tree[c].files[g] = None
  BY <1>1 DEF Proved, TruthInv, ListTellsTruth
<1>4. Closed(c)' /\ Stamped(c)' /\ Complete(c)' /\ Errands(c)'
  BY <1>1, <1>2, <1>3 DEF CrawlInv, CrawlOK, Closed, Stamped, Complete, Errands, UpdateSteps
<1> QED
  BY <1>1, <1>4, OneMoves DEF CrawlOK, Untouched

LEMMA VisitEffect ==
  ASSUME TypeInv, NEW c \in Clients, NEW p \in Paths, Visit(c, p)
  PROVE  /\ FilesQuiet /\ UNCHANGED dirs
         /\ \A b \in Clients : b # c => Unmoved(b)
         /\ pc[c] = "crawl" /\ pc'[c] \in {"crawl", "hash"}
         /\ Above[p] \cap todo[c].visit = {}
         /\ todo'[c].visit = todo[c].visit \ {p}
         /\ todo'[c].upFiles = todo[c].upFiles /\ todo'[c].downFiles = todo[c].downFiles
         /\ tree'[c].files = tree[c].files /\ tree[c].dirs \subseteq tree'[c].dirs
         /\ pc'[c] = "hash" => cur'[c] = [file |-> p, mtime |-> disk[c][p].mtime]
         /\ Above[p] \subseteq tree[c].dirs /\ p \in dirs[c] => p \in tree'[c].dirs
         /\ Above[p] \subseteq tree[c].dirs /\ p \notin dirs[c] /\ p \in Files /\ disk[c][p] # None
            => pc'[c] = "hash"
<1>1. FilesQuiet /\ UNCHANGED dirs /\ \A b \in Clients : b # c => Unmoved(b)
  BY DEF Visit, FilesQuiet, Unmoved, userVars, fsVars, serverVars, asioVars, TypeInv, TypeOK
<1>2. /\ pc[c] = "crawl" /\ Above[p] \cap todo[c].visit = {}
      /\ todo'[c].visit = todo[c].visit \ {p}
      /\ todo'[c].upFiles = todo[c].upFiles /\ todo'[c].downFiles = todo[c].downFiles
  BY DEF Visit, TypeInv, TypeOK, Todos
<1> DEFINE seen == Above[p] \subseteq tree[c].dirs
<1>3. CASE seen /\ p \in dirs[c]
  <2>1. tree' = [tree EXCEPT ![c].dirs = @ \cup {p}] /\ UNCHANGED <<pc, cur>>
    BY <1>3 DEF Visit
  <2>2. tree'[c].files = tree[c].files /\ tree'[c].dirs = tree[c].dirs \cup {p}
    BY <2>1 DEF TypeInv, TypeOK, Trees
  <2> QED
    BY <1>1, <1>2, <1>3, <2>1, <2>2
<1>4. CASE ~ (seen /\ p \in dirs[c]) /\ seen /\ p \in Files /\ disk[c][p] # None
  <2>1. /\ pc' = [pc EXCEPT ![c] = "hash"]
        /\ cur' = [cur EXCEPT ![c] = [file |-> p, mtime |-> disk[c][p].mtime]]
        /\ UNCHANGED tree
    BY <1>4 DEF Visit
  <2>2. pc'[c] = "hash" /\ cur'[c] = [file |-> p, mtime |-> disk[c][p].mtime]
    BY <2>1 DEF TypeInv, TypeOK
  <2> QED
    BY <1>1, <1>2, <1>4, <2>1, <2>2
<1>5. CASE ~ (seen /\ p \in dirs[c]) /\ ~ (seen /\ p \in Files /\ disk[c][p] # None)
  <2>1. UNCHANGED <<pc, tree, cur>>
    BY <1>5 DEF Visit
  <2> QED
    BY <1>1, <1>2, <1>5, <2>1
<1> QED
  BY <1>3, <1>4, <1>5

LEMMA VisitCrawl ==
  ASSUME Proved, CrawlInv, NEW c \in Clients, NEW p \in Paths, Visit(c, p)
  PROVE  CrawlInv'
<1>1. TypeInv /\ CrawlOK(c)
  BY DEF Proved, Base, CrawlInv
<1>2. /\ disk' = disk /\ dirs' = dirs
      /\ \A b \in Clients : b # c => Unmoved(b)
      /\ pc[c] = "crawl" /\ pc'[c] \in {"crawl", "hash"}
      /\ Above[p] \cap todo[c].visit = {}
      /\ todo'[c].visit = todo[c].visit \ {p}
      /\ tree'[c].files = tree[c].files /\ tree[c].dirs \subseteq tree'[c].dirs
  BY <1>1, VisitEffect DEF FilesQuiet
<1>3. pc'[c] = "hash" => cur'[c].file = p /\ cur'[c].mtime = disk[c][p].mtime
  <2>1. pc'[c] = "hash" => cur'[c] = [file |-> p, mtime |-> disk[c][p].mtime]
    BY <1>1, VisitEffect
  <2> QED
    BY <2>1
<1>4. Closed(c)'
  BY <1>1, <1>2 DEF CrawlOK, Closed
<1>5. Stamped(c)'
  BY <1>1, <1>2, <1>3 DEF CrawlOK, Stamped, Transferring
<1>6. /\ p \in dirs[c] => Above[p] \subseteq tree[c].dirs
      /\ p \in Files /\ disk[c][p] # None => Above[p] \subseteq tree[c].dirs
  BY <1>1, <1>2 DEF CrawlOK, Closed, Complete
<1>7. dirs[c] \ todo'[c].visit \subseteq tree'[c].dirs
  BY <1>1, <1>2, <1>6, VisitEffect DEF CrawlOK, Complete
<1>8. p \in Files => p \notin dirs[c]
  BY <1>1, Replica, PathsAssumption DEF TypeInv, TypeOK
<1>9. ASSUME NEW f \in Files \ todo'[c].visit, disk[c][f] # None
      PROVE  tree'[c].files[f] # None \/ (pc'[c] = "hash" /\ cur'[c].file = f)
  <2>1. CASE f = p
    BY <1>1, <1>3, <1>6, <1>8, <1>9, <2>1, VisitEffect
  <2>2. CASE f # p
    BY <1>1, <1>2, <1>9, <2>2 DEF CrawlOK, Complete
  <2> QED
    BY <2>1, <2>2
<1>10. Complete(c)'
  BY <1>2, <1>7, <1>9 DEF Complete, UpdateSteps
<1>11. Errands(c)'
  BY <1>2 DEF Errands
<1> QED
  BY <1>2, <1>4, <1>5, <1>10, <1>11, OneMoves DEF CrawlOK, Untouched

LEMMA HashFileCrawl ==
  ASSUME Proved, CrawlInv, NEW c \in Clients, HashFile(c)
  PROVE  CrawlInv'
<1> DEFINE g == cur[c].file
           m == [mtime |-> cur[c].mtime, hash |-> Digest[Read(c, g)]]
<1>1. TypeInv /\ CrawlOK(c)
  BY DEF Proved, Base, CrawlInv
<1>2. /\ disk' = disk /\ UNCHANGED todo
      /\ \A b \in Clients : b # c => Unmoved(b)
      /\ pc[c] = "hash" /\ pc'[c] = "crawl" /\ g \in Files
      /\ \A f \in Files : f # g => tree'[c].files[f] = tree[c].files[f]
      /\ tree'[c].files[g] = m
  BY <1>1, HashFileEffect DEF FilesQuiet
<1>3. dirs' = dirs /\ tree'[c].dirs = tree[c].dirs
  BY <1>1 DEF HashFile, fsVars, TypeInv, TypeOK, Trees
<1>4. m # None
  BY <1>1, <1>2, ReadType, MetadataRead, Replica, NoneAssumption DEF TypeInv, CursorOK, Stats
<1>5. m.mtime = disk[c][g].mtime
  BY <1>1, <1>2 DEF CrawlOK, Stamped
<1> HIDE DEF g, m
<1>6. Closed(c)'
  BY <1>1, <1>2, <1>3 DEF CrawlOK, Closed
<1>7. ASSUME NEW f \in Files, tree'[c].files[f] # None
      PROVE  tree'[c].files[f].mtime = disk[c][f].mtime
  <2>1. CASE f = g
    BY <1>2, <1>5, <2>1
  <2>2. CASE f # g
    BY <1>1, <1>2, <1>7, <2>2 DEF CrawlOK, Stamped, Transferring
  <2> QED
    BY <2>1, <2>2
<1>8. Stamped(c)'
  BY <1>2, <1>7 DEF Stamped
<1>9. ASSUME NEW f \in Files \ todo[c].visit, disk[c][f] # None
      PROVE  tree'[c].files[f] # None
  <2>1. CASE f = g
    BY <1>2, <1>4, <2>1
  <2>2. CASE f # g
    BY <1>1, <1>2, <1>9, <2>2 DEF CrawlOK, Complete, g
  <2> QED
    BY <2>1, <2>2
<1>10. Complete(c)'
  BY <1>1, <1>2, <1>3, <1>9 DEF CrawlOK, Complete, UpdateSteps
<1>11. Errands(c)'
  BY <1>2 DEF Errands
<1> QED
  BY <1>2, <1>3, <1>6, <1>8, <1>10, <1>11, OneMoves DEF CrawlOK, Untouched

LEMMA CallUpdateCrawl ==
  ASSUME Proved, CrawlInv, NEW c \in Clients, CallUpdate(c)
  PROVE  CrawlInv'
<1>1. /\ UNCHANGED <<disk, dirs, tree, cur>>
      /\ \A b \in Clients : b # c => Unmoved(b)
      /\ pc[c] = "crawl" /\ todo[c].visit = {} /\ pc'[c] = "clientDirs"
  BY DEF CallUpdate, CrawlDone, fsVars, Unmoved, Proved, Base, TypeInv, TypeOK
<1>2. Closed(c)' /\ Stamped(c)' /\ Complete(c)' /\ Errands(c)'
  BY <1>1 DEF CrawlInv, CrawlOK, Closed, Stamped, Complete, Errands, UpdateSteps, Transferring
<1> QED
  BY <1>1, <1>2, OneMoves DEF CrawlOK, Untouched

LEMMA ProcessUpdateCrawl ==
  ASSUME Proved, CrawlInv, NEW c \in Clients, ProcessUpdate(c)
  PROVE  CrawlInv'
<1>1. /\ UNCHANGED <<disk, dirs, tree, cur>>
      /\ \A b \in Clients : b # c => Unmoved(b)
      /\ pc[c] \in UpdateSteps /\ pc'[c] \in UpdateSteps \cup {"transfer"}
  BY ProcessUpdateEffect DEF Unmoved, Proved, Base
<1>2. Closed(c)' /\ Stamped(c)' /\ Complete(c)' /\ Errands(c)'
  BY <1>1 DEF CrawlInv, CrawlOK, Closed, Stamped, Complete, Errands, UpdateSteps, Transferring
<1> QED
  BY <1>1, <1>2, OneMoves DEF CrawlOK, Untouched

LEMMA RoundStepCrawl ==
  ASSUME Proved, CrawlInv, NEW c \in Clients,
         UpdateRefused(c) \/ UpdateLost(c) \/ ConnectFails(c) \/ RoundDone(c)
  PROVE  CrawlInv'
<1>1. EndRound(c) /\ UNCHANGED <<disk, dirs>>
  BY DEF UpdateRefused, UpdateLost, ConnectFails, RoundDone, fsVars
<1>2. /\ \A b \in Clients : b # c => Unmoved(b)
      /\ pc'[c] = "idle" /\ tree'[c] = EmptyTree
      /\ todo'[c].upFiles = {} /\ todo'[c].downFiles = {}
  BY <1>1 DEF EndRound, Unmoved, NoTodo, Proved, Base, TypeInv, TypeOK
<1>3. Closed(c)' /\ Stamped(c)' /\ Complete(c)' /\ Errands(c)'
  BY <1>1, <1>2 DEF CrawlInv, CrawlOK, Closed, Stamped, Complete, Errands, UpdateSteps, EmptyTree
<1> QED
  BY <1>1, <1>2, <1>3, OneMoves DEF CrawlOK, Untouched

LEMMA DirectoryStepCrawl ==
  ASSUME Proved, CrawlInv, NEW c \in Clients, NEW d \in Dirs,
         \/ SendDirectory(c, d) \/ SendDirectoryFails(c, d)
         \/ DownloadDirectory(c, d) \/ DownloadDirectoryFails(c, d)
  PROVE  CrawlInv'
<1>1. /\ UNCHANGED <<disk, tree>>
      /\ pc[c] = "transfer" /\ pc'[c] \in {"transfer", "index"}
      /\ todo'[c].upFiles = todo[c].upFiles
      /\ \A b \in Clients : b # c => Unmoved(b)
  <2>1. TypeInv
    BY DEF Proved, Base
  <2>2. UNCHANGED <<disk, tree>>
    BY DEF SendDirectory, SendDirectoryFails, DownloadDirectory, DownloadDirectoryFails, fsVars
  <2>3. /\ pc[c] = "transfer" /\ pc'[c] \in {"transfer", "index"}
        /\ todo'[c].upFiles = todo[c].upFiles
    BY <2>1 DEF SendDirectory, SendDirectoryFails, DownloadDirectory, DownloadDirectoryFails,
                UpDirsLeft, DownDirsLeft, TypeInv, TypeOK, Todos
  <2>4. \A b \in Clients : b # c => Unmoved(b)
    BY <2>1 DEF SendDirectory, SendDirectoryFails, DownloadDirectory, DownloadDirectoryFails, Unmoved,
                TypeInv, TypeOK
  <2> QED
    BY <2>2, <2>3, <2>4
<1>2. \/ UNCHANGED dirs
      \/ dirs' = Created(Server, d)
      \/ dirs' = Created(c, d)
  BY DEF SendDirectory, SendDirectoryFails, DownloadDirectory, DownloadDirectoryFails, fsVars
<1>3. /\ \A b \in Clients : b # c => dirs'[b] = dirs[b]
      /\ dirs'[c] = dirs[c] \/ dirs'[c] = dirs[c] \cup Above[d] \cup {d}
  BY <1>2, Replica, DiSyAssumption DEF Created, Proved, Base, TypeInv, TypeOK
<1>4. Above[d] \subseteq Dirs /\ \A e \in Above[d] : Above[e] \subseteq Above[d]
  BY PathsAssumption DEF Paths
<1>5. Closed(c)'
  BY <1>1, <1>3, <1>4 DEF CrawlInv, CrawlOK, Closed
<1>6. Stamped(c)' /\ Complete(c)' /\ Errands(c)'
  BY <1>1 DEF CrawlInv, CrawlOK, Stamped, Complete, Errands, UpdateSteps, Transferring
<1> QED
  BY <1>1, <1>3, <1>5, <1>6, OneMoves DEF CrawlOK, Untouched

LEMMA IndexStepCrawl ==
  ASSUME Proved, CrawlInv, NEW c \in Clients, IndexDirectory(c)
  PROVE  CrawlInv'
<1>1. /\ UNCHANGED <<disk, dirs, tree, todo>>
      /\ \A b \in Clients : b # c => Unmoved(b)
      /\ pc[c] = "index" /\ pc'[c] = "transfer"
  BY DEF IndexDirectory, fsVars, Unmoved, Proved, Base, TypeInv, TypeOK
<1>2. Closed(c)' /\ Stamped(c)' /\ Complete(c)' /\ Errands(c)'
  BY <1>1 DEF CrawlInv, CrawlOK, Closed, Stamped, Complete, Errands, UpdateSteps, Transferring
<1> QED
  BY <1>1, <1>2, OneMoves DEF CrawlOK, Untouched

LEMMA FileStepCrawl ==
  ASSUME Proved, CrawlInv, NEW c \in Clients, NEW f \in Files, UploadFile(c, f) \/ RequestFile(c, f)
  PROVE  CrawlInv'
<1>1. TypeInv
  BY DEF Proved, Base
<1>2. /\ UNCHANGED <<disk, dirs, tree>>
      /\ \A b \in Clients : b # c => Unmoved(b)
      /\ pc[c] = "transfer" /\ pc'[c] \in {"transfer", "fetch"}
      /\ todo'[c].upFiles \subseteq todo[c].upFiles
      /\ pc'[c] = "fetch" => cur'[c] \in todo'[c].downFiles
  BY <1>1, UploadEffect, RequestEffect
<1>3. Closed(c)' /\ Stamped(c)' /\ Complete(c)' /\ Errands(c)'
  BY <1>2 DEF CrawlInv, CrawlOK, Closed, Stamped, Complete, Errands, UpdateSteps, Transferring
<1> QED
  BY <1>2, <1>3, OneMoves DEF CrawlOK, Untouched

LEMMA ReceiveCrawl ==
  ASSUME Proved, CrawlInv, NEW c \in Clients, ReceiveFile(c)
  PROVE  CrawlInv'
<1>1. TypeInv
  BY DEF Proved, Base
<1>2. /\ UNCHANGED <<dirs, tree>>
      /\ \A b \in Clients : b # c => Unmoved(b)
      /\ pc[c] = "fetch" /\ pc'[c] = "transfer"
      /\ todo'[c].upFiles = todo[c].upFiles
      /\ disk' = Written(c, cur[c], reply[c]) /\ cur[c] \in Files
  BY <1>1, ReceiveEffect
<1>3. /\ \A r \in Replicas : r # c => disk'[r] = disk[r]
      /\ \A g \in Files : disk'[c][g] # None => disk[c][g] # None \/ Above[g] \subseteq dirs[c]
  BY <1>1, <1>2, Replica DEF Written, TypeInv, TypeOK
<1>4. todo[c].upFiles = {}
  BY <1>2 DEF Proved, TruthInv, ListTellsTruth
<1>5. Closed(c)'
  BY <1>2, <1>3 DEF CrawlInv, CrawlOK, Closed
<1>6. Stamped(c)' /\ Complete(c)' /\ Errands(c)'
  BY <1>2, <1>4 DEF Stamped, Complete, Errands, UpdateSteps, Transferring
<1> QED
  BY <1>2, <1>3, <1>5, <1>6, Replica, OneMoves DEF CrawlOK, Untouched

LEMMA ServerStepCrawl ==
  ASSUME Proved, CrawlInv, AsioStep \/ Tick \/ UNCHANGED vars
  PROVE  CrawlInv'
<1>1. UNCHANGED <<pc, tree, todo, cur, dirs>>
  BY DEF AsioStep, AcceptFile, WriteFile, AcceptRequest, Tick, vars, fsVars, clientVars
<1>2. disk' = disk \/ disk' = Written(Server, writing.file, writing.data)
  BY DEF AsioStep, AcceptFile, WriteFile, AcceptRequest, Tick, vars, fsVars
<1>3. \A b \in Clients : disk'[b] = disk[b]
  BY <1>2, Replica, DiSyAssumption DEF Written, Proved, Base, TypeInv, TypeOK
<1>4. \A b \in Clients : Untouched(b)
  BY <1>1, <1>3 DEF Untouched, Unmoved
<1> QED
  BY <1>4, UntouchedOK DEF CrawlInv

LEMMA CrawlStepOK ==
  ASSUME TakingTurns, Proved, CrawlInv, [Next]_vars
  PROVE  CrawlInv'
<1>1. ASSUME NEW c \in Clients, UserStep(c) PROVE CrawlInv'
  BY <1>1, NoSaveWatched, EditCrawl, NewDirectoryCrawl DEF TakingTurns, Proved, Base
<1>2. ASSUME NEW c \in Clients, CrawlStep(c) PROVE CrawlInv'
  BY <1>2, BeginCrawlCrawl, VisitCrawl, HashFileCrawl DEF CrawlStep
<1>3. ASSUME NEW c \in Clients, UpdateStep(c) \/ UpdateLost(c) PROVE CrawlInv'
  BY <1>3, CallUpdateCrawl, RoundStepCrawl, ProcessUpdateCrawl DEF UpdateStep
<1>4. ASSUME NEW c \in Clients, TransferStep(c) PROVE CrawlInv'
  BY <1>4, DirectoryStepCrawl, IndexStepCrawl, FileStepCrawl, ReceiveCrawl, RoundStepCrawl
  DEF TransferStep
<1>5. ~ ServerStop /\ ~ ServerStart
  BY ServerStaysUp DEF TakingTurns, Proved, Base, DeliveryInv, ServerStart
<1> QED
  BY <1>1, <1>2, <1>3, <1>4, <1>5, ServerStepCrawl DEF Next, ClientStep

LEMMA CrawlInit == Init => CrawlInv
BY Replica DEF Init, CrawlInv, CrawlOK, Closed, Stamped, Complete, Errands, EmptyTree, NoTodo, UpdateSteps

-----------------------------------------------------------------------------
(***************************************************************************)
(* The last version of a file.                                             *)
(***************************************************************************)
\* The server lists the last version.
Fresh(f) == serverDirTree.files[f] # None /\ serverDirTree.files[f].hash = Digest[edits[f]]

\* Of a file saved last at k, a client has nothing, the last version, which it
\* has from the server unless it is k, or the one before with an earlier time.
ClientHas(k, c, f) ==
  LET m == disk[c][f]
  IN  \/ m = None /\ edits[f] = 1
      \/ m # None /\ m.data = edits[f] /\ (c = k \/ Fresh(f))
      \/ /\ m # None /\ m.data = edits[f] - 1
         /\ edits[f] >= 2
         /\ m.mtime < disk[k][f].mtime

\* The same of the server's list, which has the last version with k's time.
ServerLists(k, f) ==
  LET m == serverDirTree.files[f]
  IN  \/ m = None /\ edits[f] = 1
      \/ m # None /\ m.hash = Digest[edits[f]] /\ m.mtime = disk[k][f].mtime
      \/ /\ m # None /\ m.hash = Digest[edits[f] - 1]
         /\ edits[f] >= 2
         /\ m.mtime < disk[k][f].mtime

\* Only the last version is on its way, from k to the server ...
UploadsLatest(k, f) ==
  /\ \A i \in 1 .. Len(conns) :
       conns[i].type = "File" /\ conns[i].file = f
       => conns[i].metadata.mtime = disk[k][f].mtime /\ conns[i].data = edits[f]
  /\ writing # None /\ writing.file = f => writing.data = edits[f]
  /\ \A c \in Clients : f \in todo[c].upFiles => c = k

\* ... and from there to the others.
DownloadsLatest(k, f) ==
  \A c \in Clients :
    /\ f \in todo[c].downFiles => c # k /\ Fresh(f)
    /\ reply[c] # None /\ cur[c] = f => reply[c] = edits[f] /\ Read(Server, f) = edits[f]

SavedAt(k, f) ==
  /\ disk[k][f] # None /\ disk[k][f].data = edits[f]
  /\ \A c \in Clients : ClientHas(k, c, f)
  /\ ServerLists(k, f)
  /\ UploadsLatest(k, f)
  /\ DownloadsLatest(k, f)

LatestInv == \A f \in Files : edits[f] # 0 => \E k \in Clients : SavedAt(k, f)

LEMMA LatestKept ==
  ASSUME LatestInv, edits' = edits,
         \A f \in Files, k \in Clients : edits[f] # 0 /\ SavedAt(k, f) => SavedAt(k, f)'
  PROVE  LatestInv'
BY DEF LatestInv

LEMMA LatestQuiet ==
  ASSUME Proved, LatestInv, FilesQuiet, \A b \in Clients : ClientQuiet(b)
  PROVE  LatestInv'
<1>1. /\ UNCHANGED <<edits, disk, conns, writing, reply>>
      /\ serverDirTree'.files = serverDirTree.files
      /\ \A b \in Clients : /\ todo'[b].upFiles \subseteq todo[b].upFiles
                            /\ todo'[b].downFiles \subseteq todo[b].downFiles
  BY DEF FilesQuiet, ClientQuiet
<1>2. \A b \in Clients : reply[b] # None => cur'[b] = cur[b]
  BY DEF ClientQuiet, Proved, Base, OneAnswer, AnswerDue
<1>3. ASSUME NEW f \in Files, NEW k \in Clients, SavedAt(k, f) PROVE SavedAt(k, f)'
  <2>1. (\A c \in Clients : ClientHas(k, c, f)') /\ ServerLists(k, f)'
    BY <1>1, <1>3 DEF SavedAt, ClientHas, ServerLists, Fresh
  <2>2. UploadsLatest(k, f)'
    BY <1>1, <1>3 DEF SavedAt, UploadsLatest
  <2>3. DownloadsLatest(k, f)'
    BY <1>1, <1>2, <1>3 DEF SavedAt, DownloadsLatest, Fresh, Read
  <2> QED
    BY <1>1, <1>3, <2>1, <2>2, <2>3 DEF SavedAt
<1> QED
  BY <1>1, <1>3, LatestKept

\* A step of a crawl changes nothing but the list.
LEMMA ListingLatest ==
  ASSUME Proved, LatestInv, FilesQuiet, NEW c \in Clients,
         \A b \in Clients : b # c => Unmoved(b),
         todo'[c].upFiles = todo[c].upFiles, todo'[c].downFiles = todo[c].downFiles,
         pc[c] # "fetch"
  PROVE  LatestInv'
<1>1. /\ UNCHANGED <<edits, disk, conns, writing, reply>>
      /\ serverDirTree'.files = serverDirTree.files
      /\ \A b \in Clients : /\ todo'[b].upFiles = todo[b].upFiles
                            /\ todo'[b].downFiles = todo[b].downFiles
  BY DEF FilesQuiet, Unmoved
<1>2. \A b \in Clients : reply[b] # None => cur'[b] = cur[b]
  BY DEF Unmoved, Proved, Base, OneAnswer, AnswerDue
<1>3. ASSUME NEW f \in Files, NEW k \in Clients, SavedAt(k, f) PROVE SavedAt(k, f)'
  <2>1. (\A b \in Clients : ClientHas(k, b, f)') /\ ServerLists(k, f)'
    BY <1>1, <1>3 DEF SavedAt, ClientHas, ServerLists, Fresh
  <2>2. UploadsLatest(k, f)' /\ DownloadsLatest(k, f)'
    BY <1>1, <1>2, <1>3 DEF SavedAt, UploadsLatest, DownloadsLatest, Fresh, Read
  <2> QED
    BY <1>1, <1>3, <2>1, <2>2 DEF SavedAt
<1> QED
  BY <1>1, <1>3, LatestKept

\* A client whose list is compared lists exactly what it has.
LEMMA ListsItsDisk ==
  ASSUME Proved, CrawlInv, NEW c \in Clients, pc[c] \in UpdateSteps, NEW f \in Files
  PROVE  /\ tree[c].files[f] = None <=> disk[c][f] = None
         /\ disk[c][f] # None =>
              /\ tree[c].files[f].mtime = disk[c][f].mtime /\ disk[c][f].mtime \in Nat
              /\ tree[c].files[f].hash = Digest[disk[c][f].data]
<1>1. tree[c].files[f] = None <=> disk[c][f] = None
  BY DEF Proved, SavedInv, ListedOnDisk, CrawlInv, CrawlOK, Complete
<1>2. pc[c] \notin Transferring
  BY DEF UpdateSteps, Transferring
<1>3. disk[c][f] # None => disk[c][f].mtime \in Nat
  BY Replica DEF Proved, Base, TypeInv, TypeOK, FilesOnDisk
<1> QED
  BY <1>1, <1>2, <1>3 DEF Proved, TruthInv, ListTellsTruth, CrawlInv, CrawlOK, Stamped

\* So processUpdate sends the last version and nothing else.
LEMMA WantsLatest ==
  ASSUME Proved, CrawlInv, NEW c \in Clients, pc[c] \in UpdateSteps,
         NEW f \in Files, NEW k \in Clients, SavedAt(k, f)
  PROVE  /\ f \in WantedFiles(tree[c], serverDirTree) => c = k
         /\ f \in WantedFiles(serverDirTree, tree[c]) => c # k /\ Fresh(f)
<1> DEFINE a == tree[c].files[f]
           b == serverDirTree.files[f]
           m == disk[c][f]
<1>1. /\ a = None <=> m = None
      /\ m # None => a.mtime = m.mtime /\ m.mtime \in Nat /\ a.hash = Digest[m.data]
  BY ListsItsDisk
<1>2. disk[k][f] # None /\ disk[k][f].mtime \in Nat /\ edits[f] \in Nat
  BY Replica, DiSyAssumption DEF SavedAt, Proved, Base, TypeInv, TypeOK, FilesOnDisk
<1>3. b # None => b.mtime \in Nat
  BY DEF Proved, Base, TypeInv, TypeOK, Trees, FileMap, Metadata
<1>4. ClientHas(k, c, f) /\ ServerLists(k, f)
  BY DEF SavedAt
<1>5. ASSUME f \in WantedFiles(tree[c], serverDirTree) PROVE c = k
  <2>1. a # None /\ (b = None \/ (a.mtime > b.mtime /\ a.hash # b.hash))
    BY <1>5 DEF WantedFiles, Supersedes
  <2> QED
    BY <1>1, <1>2, <1>3, <1>4, <2>1 DEF ClientHas, ServerLists, Fresh
<1>6. ASSUME f \in WantedFiles(serverDirTree, tree[c]) PROVE c # k /\ Fresh(f)
  <2>1. b # None /\ (a = None \/ (b.mtime > a.mtime /\ b.hash # a.hash))
    BY <1>6 DEF WantedFiles, Supersedes
  <2>2. c # k
    BY <1>1, <1>2, <1>3, <1>4, <2>1 DEF ServerLists
  <2> QED
    BY <1>1, <1>2, <1>3, <1>4, <2>1, <2>2 DEF ClientHas, ServerLists, Fresh
<1> QED
  BY <1>5, <1>6

LEMMA ProcessUpdateLatest ==
  ASSUME Proved, CrawlInv, LatestInv, NEW c \in Clients, ProcessUpdate(c)
  PROVE  LatestInv'
<1>1. /\ UNCHANGED <<edits, disk, serverDirTree, tree, cur, conns, writing, reply>>
      /\ pc[c] \in UpdateSteps
      /\ \A b \in Clients : b # c => todo'[b] = todo[b]
      /\ todo'[c].upFiles \subseteq todo[c].upFiles \cup WantedFiles(tree[c], serverDirTree)
      /\ todo'[c].downFiles \subseteq todo[c].downFiles \cup WantedFiles(serverDirTree, tree[c])
  BY ProcessUpdateEffect DEF Proved, Base
<1>2. ASSUME NEW f \in Files, NEW k \in Clients, SavedAt(k, f) PROVE SavedAt(k, f)'
  <2>1. (\A b \in Clients : ClientHas(k, b, f)') /\ ServerLists(k, f)'
    BY <1>1, <1>2 DEF SavedAt, ClientHas, ServerLists, Fresh
  <2>2. UploadsLatest(k, f)'
    BY <1>1, <1>2, WantsLatest DEF SavedAt, UploadsLatest
  <2>3. DownloadsLatest(k, f)'
    BY <1>1, <1>2, WantsLatest DEF SavedAt, DownloadsLatest, Fresh, Read
  <2> QED
    BY <1>1, <1>2, <2>1, <2>2, <2>3 DEF SavedAt
<1> QED
  BY <1>1, <1>2, LatestKept

LEMMA UploadLatest ==
  ASSUME Proved, CrawlInv, LatestInv, NEW c \in Clients, NEW g \in Files, UploadFile(c, g)
  PROVE  LatestInv'
<1>1. /\ UNCHANGED <<edits, disk, serverDirTree, tree, cur, writing, reply>>
      /\ pc[c] = "transfer" /\ g \in todo[c].upFiles /\ tree[c].files[g] # None
      /\ \A b \in Clients : /\ todo'[b].upFiles \subseteq todo[b].upFiles
                            /\ todo'[b].downFiles = todo[b].downFiles
  BY UploadEffect DEF Unmoved, Proved, Base
<1>2. /\ Len(conns) \in Nat /\ Len(conns') = Len(conns) + 1
      /\ \A i \in 1 .. Len(conns) : conns'[i] = conns[i]
      /\ conns'[Len(conns) + 1].file = g
      /\ conns'[Len(conns) + 1].metadata = tree[c].files[g]
      /\ conns'[Len(conns) + 1].data = Read(c, g)
  <2>1. conns'[Len(conns) + 1] = [type |-> "File", file |-> g, metadata |-> tree[c].files[g],
                                  data |-> Read(c, g)]
    BY UploadEffect DEF Proved, Base
  <2> QED
    BY <2>1, UploadEffect DEF Proved, Base
<1>3. tree[c].files[g].mtime = disk[c][g].mtime /\ Read(c, g) = disk[c][g].data
  BY <1>1 DEF CrawlInv, CrawlOK, Stamped, Proved, SavedInv, ListedOnDisk, Read
<1>4. ASSUME NEW f \in Files, NEW k \in Clients, SavedAt(k, f) PROVE SavedAt(k, f)'
  <2>1. (\A b \in Clients : ClientHas(k, b, f)') /\ ServerLists(k, f)'
    BY <1>1, <1>4 DEF SavedAt, ClientHas, ServerLists, Fresh
  <2>2. DownloadsLatest(k, f)'
    BY <1>1, <1>4 DEF SavedAt, DownloadsLatest, Fresh, Read
  <2>3. ASSUME NEW i \in 1 .. Len(conns'), conns'[i].type = "File", conns'[i].file = f
        PROVE  conns'[i].metadata.mtime = disk[k][f].mtime /\ conns'[i].data = edits[f]
    <3>1. CASE i \in 1 .. Len(conns)
      BY <1>2, <1>4, <2>3, <3>1 DEF SavedAt, UploadsLatest
    <3>2. CASE i = Len(conns) + 1
      <4>1. f = g /\ c = k
        BY <1>1, <1>2, <1>4, <2>3, <3>2 DEF SavedAt, UploadsLatest
      <4> QED
        BY <1>2, <1>3, <1>4, <3>2, <4>1 DEF SavedAt
    <3> QED
      BY <1>2, <2>3, <3>1, <3>2
  <2>4. UploadsLatest(k, f)'
    BY <1>1, <1>4, <2>3 DEF SavedAt, UploadsLatest
  <2> QED
    BY <1>1, <1>4, <2>1, <2>2, <2>4 DEF SavedAt
<1> QED
  BY <1>1, <1>4, LatestKept

LEMMA RequestLatest ==
  ASSUME Proved, LatestInv, NEW c \in Clients, NEW g \in Files, RequestFile(c, g)
  PROVE  LatestInv'
<1>1. /\ UNCHANGED <<edits, disk, serverDirTree, todo, writing, reply>>
      /\ \A b \in Clients : b # c => cur'[b] = cur[b]
      /\ reply[c] = None
  BY RequestEffect DEF Unmoved, Proved, Base, OneAnswer, AnswerDue
<1>2. \A i \in 1 .. Len(conns') : conns'[i].type = "File" => i \in 1 .. Len(conns) /\ conns'[i] = conns[i]
  BY RequestEffect DEF Proved, Base
<1>3. ASSUME NEW f \in Files, NEW k \in Clients, SavedAt(k, f) PROVE SavedAt(k, f)'
  <2>1. (\A b \in Clients : ClientHas(k, b, f)') /\ ServerLists(k, f)'
    BY <1>1, <1>3 DEF SavedAt, ClientHas, ServerLists, Fresh
  <2>2. UploadsLatest(k, f)'
    BY <1>1, <1>2, <1>3 DEF SavedAt, UploadsLatest
  <2>3. DownloadsLatest(k, f)'
    BY <1>1, <1>3 DEF SavedAt, DownloadsLatest, Fresh, Read
  <2> QED
    BY <1>1, <1>3, <2>1, <2>2, <2>3 DEF SavedAt
<1> QED
  BY <1>1, <1>3, LatestKept

\* A download brings the last version to a client other than k.
LEMMA ReceiveLatest ==
  ASSUME Proved, CrawlInv, LatestInv, NEW c \in Clients, ReceiveFile(c)
  PROVE  LatestInv'
<1> DEFINE g == cur[c]
<1>1. /\ UNCHANGED <<edits, serverDirTree, conns, writing>>
      /\ \A b \in Clients : b # c => cur'[b] = cur[b] /\ reply'[b] = reply[b]
      /\ \A b \in Clients : /\ todo'[b].upFiles = todo[b].upFiles
                            /\ todo'[b].downFiles \subseteq todo[b].downFiles
      /\ reply'[c] = None
      /\ g \in Files /\ g \in todo[c].downFiles
      /\ reply[c] # None /\ reply[c] \in Contents
      /\ disk' = Written(c, g, reply[c])
  BY ReceiveEffect DEF Unmoved, Proved, Base, CrawlInv, CrawlOK, Errands
<1>2. /\ \A q \in Replicas, f \in Files : q # c \/ f # g => disk'[q][f] = disk[q][f]
      /\ disk'[c][g] = disk[c][g] \/ (disk'[c][g] # None /\ disk'[c][g].data = reply[c])
  BY <1>1, WrittenEffect, Replica DEF Proved, Base, TypeInv
<1> HIDE DEF g
<1>3. ASSUME NEW f \in Files, NEW k \in Clients, SavedAt(k, f) PROVE SavedAt(k, f)'
  <2>1. f = g => c # k /\ Fresh(f) /\ reply[c] = edits[f]
    BY <1>1, <1>3 DEF SavedAt, DownloadsLatest, g
  <2>2. disk'[k][f] = disk[k][f] /\ disk'[Server][f] = disk[Server][f]
    BY <1>2, <2>1, Replica, DiSyAssumption
  <2>3. ASSUME NEW b \in Clients PROVE ClientHas(k, b, f)'
    <3>1. CASE disk'[b][f] = disk[b][f]
      BY <1>1, <1>3, <2>2, <3>1 DEF SavedAt, ClientHas, Fresh
    <3>2. CASE disk'[b][f] # disk[b][f]
      <4>1. b = c /\ f = g /\ disk'[b][f] # None /\ disk'[b][f].data = reply[c]
        BY <1>2, <3>2, Replica
      <4> QED
        BY <1>1, <2>1, <4>1 DEF ClientHas, Fresh
    <3> QED
      BY <3>1, <3>2
  <2>4. ServerLists(k, f)' /\ UploadsLatest(k, f)'
    BY <1>1, <1>3, <2>2 DEF SavedAt, ServerLists, UploadsLatest
  <2>5. DownloadsLatest(k, f)'
    BY <1>1, <1>3, <2>2 DEF SavedAt, DownloadsLatest, Fresh, Read
  <2> QED
    BY <1>1, <1>3, <2>2, <2>3, <2>4, <2>5 DEF SavedAt
<1> QED
  BY <1>1, <1>3, LatestKept

-----------------------------------------------------------------------------
LEMMA AcceptFileLatest ==
  ASSUME Proved, LatestInv, AcceptFile
  PROVE  LatestInv'
<1> DEFINE m == Head(conns)
<1>1. /\ UNCHANGED <<edits, disk, todo, cur, reply>>
      /\ conns # <<>> /\ conns' = Tail(conns)
      /\ m \in FileMsgs
      /\ writing'.file = m.file /\ writing'.data = m.data
      /\ \A f \in Files : f # m.file => serverDirTree'.files[f] = serverDirTree.files[f]
      /\ serverDirTree'.files[m.file] = m.metadata /\ m.metadata # None
  BY AcceptFileEffect DEF Proved, Base
<1>2. /\ m = conns[1] /\ 1 \in 1 .. Len(conns)
      /\ \A i \in 1 .. Len(conns') : i + 1 \in 1 .. Len(conns) /\ conns'[i] = conns[i + 1]
  BY <1>1, HeadTaken DEF Proved, Base
<1>3. m.type = "File" /\ m.metadata.hash = Digest[m.data]
  BY <1>1, <1>2 DEF Proved, TruthInv, UploadsTellTruth, FileMsgs
<1> HIDE DEF m
<1>4. ASSUME NEW f \in Files, NEW k \in Clients, SavedAt(k, f) PROVE SavedAt(k, f)'
  <2>1. m.file = f => m.metadata.mtime = disk[k][f].mtime /\ m.data = edits[f]
    BY <1>2, <1>3, <1>4 DEF SavedAt, UploadsLatest
  <2>2. ServerLists(k, f)' /\ (Fresh(f) => Fresh(f)')
    BY <1>1, <1>3, <1>4, <2>1 DEF SavedAt, ServerLists, Fresh
  <2>3. \A b \in Clients : ClientHas(k, b, f)'
    BY <1>1, <1>4, <2>2 DEF SavedAt, ClientHas
  <2>4. UploadsLatest(k, f)'
    BY <1>1, <1>2, <1>4, <2>1 DEF SavedAt, UploadsLatest
  <2>5. DownloadsLatest(k, f)'
    BY <1>1, <1>4, <2>2 DEF SavedAt, DownloadsLatest, Read
  <2> QED
    BY <1>1, <1>4, <2>2, <2>3, <2>4, <2>5 DEF SavedAt
<1> QED
  BY <1>1, <1>4, LatestKept

LEMMA WriteEffect ==
  ASSUME Proved, WriteFile
  PROVE  /\ UNCHANGED <<edits, serverDirTree, todo, cur, conns, reply>>
         /\ writing # None /\ writing' = None
         /\ writing.file \in Files /\ writing.data \in Contents
         /\ \A q \in Replicas, g \in Files :
              q # Server \/ g # writing.file => disk'[q][g] = disk[q][g]
         /\ disk'[Server][writing.file] # None /\ disk'[Server][writing.file].data = writing.data
<1>1. /\ UNCHANGED <<edits, serverDirTree, todo, cur, conns, reply>>
      /\ writing # None /\ writing' = None
      /\ disk' = Written(Server, writing.file, writing.data)
  BY DEF WriteFile, userVars, serverVars, clientVars
<1>2. writing.file \in Files /\ writing.data \in Contents
  BY <1>1 DEF Proved, Base, TypeInv, TypeOK, Writes
<1>3. Above[writing.file] \subseteq dirs[Server]
  BY <1>1 DEF Proved, Base, DeliveryInv, UploadsLand
<1> QED
  BY <1>1, <1>2, <1>3, WrittenEffect, Replica DEF Proved, Base, TypeInv

LEMMA WriteLatest ==
  ASSUME Proved, LatestInv, WriteFile
  PROVE  LatestInv'
<1>1. /\ UNCHANGED <<edits, serverDirTree, todo, cur, conns, reply>>
      /\ writing # None /\ writing' = None
      /\ \A b \in Clients, g \in Files : disk'[b][g] = disk[b][g]
  BY WriteEffect, Replica, DiSyAssumption
<1>2. ASSUME NEW f \in Files, NEW k \in Clients, SavedAt(k, f) PROVE SavedAt(k, f)'
  <2>1. (\A b \in Clients : ClientHas(k, b, f)') /\ ServerLists(k, f)' /\ UploadsLatest(k, f)'
    BY <1>1, <1>2 DEF SavedAt, ClientHas, ServerLists, UploadsLatest, Fresh
  <2>2. Read(Server, f) = edits[f] => Read(Server, f)' = edits[f]
    <3>1. CASE f = writing.file
      BY <1>1, <1>2, <3>1, WriteEffect DEF SavedAt, UploadsLatest, Read
    <3>2. CASE f # writing.file
      BY <3>2, WriteEffect, Replica DEF Read
    <3> QED
      BY <3>1, <3>2
  <2>3. DownloadsLatest(k, f)'
    BY <1>1, <1>2, <2>2 DEF SavedAt, DownloadsLatest, Fresh
  <2> QED
    BY <1>1, <1>2, <2>1, <2>3 DEF SavedAt
<1> QED
  BY <1>1, <1>2, LatestKept

\* Nothing is being written when a request is answered, so the server has what
\* it lists.
LEMMA AcceptRequestLatest ==
  ASSUME Proved, CrawlInv, LatestInv, AcceptRequest
  PROVE  LatestInv'
<1> DEFINE m == Head(conns)
           c == m.client
<1>1. /\ UNCHANGED <<edits, disk, serverDirTree, todo, cur, writing>>
      /\ writing = None /\ conns # <<>> /\ conns' = Tail(conns) /\ m.type = "FileMetadata"
      /\ reply' = [reply EXCEPT ![c] = Read(Server, m.file)]
  BY DEF AcceptRequest, NextConn, userVars, fsVars, serverVars, clientVars
<1>2. /\ m = conns[1] /\ 1 \in 1 .. Len(conns)
      /\ \A i \in 1 .. Len(conns') : i + 1 \in 1 .. Len(conns) /\ conns'[i] = conns[i + 1]
      /\ c \in Clients /\ m.file \in Files
  BY <1>1, HeadTaken DEF FileMsgs, MetadataMsgs, Proved, Base
<1>3. pc[c] = "fetch" /\ m.file = cur[c] /\ cur[c] \in todo[c].downFiles
  <2>1. 1 \in Requests(c)
    BY <1>1, <1>2 DEF Requests
  <2> QED
    BY <1>2, <2>1 DEF Proved, Base, OneAnswer, AnswerDue, CrawlInv, CrawlOK, Errands
<1>4. /\ reply'[c] = Read(Server, m.file)
      /\ \A b \in Clients : b # c => reply'[b] = reply[b]
  BY <1>1, <1>2 DEF Proved, Base, TypeInv, TypeOK
<1> HIDE DEF m, c
<1>5. ASSUME NEW f \in Files, NEW k \in Clients, SavedAt(k, f) PROVE SavedAt(k, f)'
  <2>1. (\A b \in Clients : ClientHas(k, b, f)') /\ ServerLists(k, f)'
    BY <1>1, <1>5 DEF SavedAt, ClientHas, ServerLists, Fresh
  <2>2. UploadsLatest(k, f)'
    BY <1>1, <1>2, <1>5 DEF SavedAt, UploadsLatest
  <2>3. m.file = f => Read(Server, f) = edits[f]
    <3>1. SUFFICES ASSUME m.file = f PROVE Read(Server, f) = edits[f]
      OBVIOUS
    <3>2. Fresh(f)
      BY <1>2, <1>3, <1>5, <3>1 DEF SavedAt, DownloadsLatest
    <3>3. disk[Server][f] # None /\ Digest[disk[Server][f].data] = Digest[edits[f]]
      BY <1>1, <3>2 DEF Fresh, Proved, TruthInv, IndexTellsTruth, ListedAsStored
    <3>4. disk[Server][f].data \in Contents /\ edits[f] \in Contents
      BY <3>3, Replica DEF Proved, Base, TypeInv, TypeOK, FilesOnDisk, Contents, Versions, Empty
    <3> QED
      BY <3>3, <3>4, DiSyAssumption DEF Read
  <2>4. DownloadsLatest(k, f)'
    BY <1>1, <1>2, <1>3, <1>4, <1>5, <2>3 DEF SavedAt, DownloadsLatest, Fresh, Read
  <2> QED
    BY <1>1, <1>5, <2>1, <2>2, <2>4 DEF SavedAt
<1> QED
  BY <1>1, <1>5, LatestKept

-----------------------------------------------------------------------------
LEMMA SettledLatest ==
  ASSUME TakingTurns, Proved, LatestInv, Settled, NEW f \in Files
  PROVE  /\ edits[f] = 0 => /\ \A r \in Replicas : disk[r][f] = None
                            /\ serverDirTree.files[f] = None
         /\ edits[f] # 0 =>
              /\ \A r \in Replicas : disk[r][f] # None /\ disk[r][f].data = edits[f]
              /\ Fresh(f)
              /\ \E k \in Clients : serverDirTree.files[f].mtime = disk[k][f].mtime
<1>1. /\ edits[f] \in Contents /\ edits[f] \in Nat
      /\ \A r \in Replicas : disk[r][f] # None =>
           disk[r][f].data \in Contents /\ disk[r][f].data \in 1 .. edits[f]
  BY DiSyAssumption, VersionsOnly
  DEF Proved, Base, TypeInv, TypeOK, FilesOnDisk, Contents, Versions, Empty
<1>2. serverDirTree.files[f] # None =>
        disk[Server][f] # None /\ serverDirTree.files[f].hash = Digest[disk[Server][f].data]
  BY DEF Settled, Proved, TruthInv, IndexTellsTruth, ListedAsStored
<1>3. CASE edits[f] = 0
  BY <1>1, <1>2, <1>3, Replica
<1>4. CASE edits[f] # 0
  <2>1. PICK k \in Clients : SavedAt(k, f)
    BY <1>4 DEF LatestInv
  <2>2. Fresh(f)
    BY <2>1 DEF SavedAt, Settled, Synchronised, InSync, Fresh
  <2>3. edits[f] >= 2 => Digest[edits[f] - 1] # Digest[edits[f]]
    <3>1. edits[f] >= 2 => edits[f] - 1 \in Contents /\ edits[f] - 1 # edits[f]
      BY <1>1, DiSyAssumption DEF Contents, Versions, Empty
    <3> QED
      BY <1>1, <3>1, DiSyAssumption
  <2>4. serverDirTree.files[f].mtime = disk[k][f].mtime
    BY <2>1, <2>2, <2>3 DEF SavedAt, ServerLists, Fresh
  <2>5. ASSUME NEW c \in Clients PROVE disk[c][f] # None /\ disk[c][f].data = edits[f]
    <3>1. disk[c][f] # None /\ Digest[disk[c][f].data] = Digest[edits[f]]
      BY <2>2 DEF Settled, Synchronised, InSync, Fresh
    <3> QED
      BY <1>1, <3>1, Replica, DiSyAssumption
  <2>6. disk[Server][f] # None /\ disk[Server][f].data = edits[f]
    BY <1>1, <1>2, <2>2, Replica, DiSyAssumption DEF Fresh
  <2> QED
    BY <1>4, <2>2, <2>4, <2>5, <2>6 DEF Replicas
<1> QED
  BY <1>3, <1>4

LEMMA EditLatest ==
  ASSUME TakingTurns, Proved, CrawlInv, LatestInv, NEW c \in Clients, NEW f \in Files, EditFile(c, f)
  PROVE  LatestInv'
<1>1. /\ Settled
      /\ \A r \in Replicas, g \in Files : disk[r][g] # None => disk[r][g].mtime < Clock(c)
  BY TurnTaken DEF EditFile, MaySave
<1>2. /\ UNCHANGED <<serverDirTree, pc, tree, todo, cur, conns, writing, reply>>
      /\ \A r \in Replicas, g \in Files : r # c \/ g # f => disk'[r][g] = disk[r][g]
      /\ disk'[c][f] # None /\ disk'[c][f].data = edits[f] + 1
  BY EditEffect DEF Proved, Base
<1>3. /\ edits[f] \in Nat /\ edits'[f] = edits[f] + 1
      /\ \A g \in Files : g # f => edits'[g] = edits[g]
  BY EditEffect, DiSyAssumption DEF Proved, Base, TypeInv, TypeOK
<1>4. disk'[c][f].mtime = Clock(c)
  <2>1. disk' = [disk EXCEPT ![c][f] = [mtime |-> Clock(c), data |-> edits[f] + 1]]
    BY DEF EditFile, Saved
  <2>2. disk'[c][f] = [mtime |-> Clock(c), data |-> edits[f] + 1]
    BY <2>1, Replica DEF Proved, Base, TypeInv, TypeOK
  <2> QED
    BY <2>2
<1>5. /\ conns = <<>> /\ writing = None
      /\ \A b \in Clients : /\ pc[b] = "idle" /\ reply[b] = None
                            /\ todo[b].upFiles = {} /\ todo[b].downFiles = {}
  BY <1>1 DEF Settled, CrawlInv, CrawlOK, Errands, Proved, Base, OneAnswer, AnswerDue
<1>6. SavedAt(c, f)'
  <2>1. ASSUME NEW b \in Clients PROVE ClientHas(c, b, f)'
    <3>1. CASE b = c
      BY <1>2, <1>3, <3>1 DEF ClientHas
    <3>2. CASE b # c
      <4>1. disk'[b][f] = disk[b][f]
        BY <1>2, <3>2, Replica
      <4>2. CASE edits[f] = 0
        BY <1>1, <1>3, <4>1, <4>2, SettledLatest, Replica DEF ClientHas
      <4>3. CASE edits[f] # 0
        <5>1. disk[b][f] # None /\ disk[b][f].data = edits[f] /\ disk[b][f].mtime < Clock(c)
          BY <1>1, <4>3, SettledLatest, Replica
        <5> QED
          BY <1>3, <1>4, <4>1, <4>3, <5>1 DEF ClientHas
      <4> QED
        BY <4>2, <4>3
    <3> QED
      BY <3>1, <3>2
  <2>2. ServerLists(c, f)'
    <3>1. CASE edits[f] = 0
      BY <1>1, <1>2, <1>3, <3>1, SettledLatest DEF ServerLists
    <3>2. CASE edits[f] # 0
      <4>1. Fresh(f) /\ serverDirTree.files[f].mtime < Clock(c)
        BY <1>1, <3>2, SettledLatest, Replica
      <4> QED
        BY <1>2, <1>3, <1>4, <3>2, <4>1 DEF ServerLists, Fresh
    <3> QED
      BY <3>1, <3>2
  <2>3. UploadsLatest(c, f)'
    BY <1>2, <1>5 DEF UploadsLatest
  <2>4. DownloadsLatest(c, f)'
    BY <1>2, <1>5 DEF DownloadsLatest
  <2> QED
    BY <1>2, <1>3, <2>1, <2>2, <2>3, <2>4 DEF SavedAt
<1>7. ASSUME NEW g \in Files, g # f, NEW k \in Clients, SavedAt(k, g) PROVE SavedAt(k, g)'
  <2>1. \A r \in Replicas : disk'[r][g] = disk[r][g]
    BY <1>2, <1>7
  <2>2. (\A b \in Clients : ClientHas(k, b, g)') /\ ServerLists(k, g)'
    BY <1>2, <1>3, <1>7, <2>1, Replica DEF SavedAt, ClientHas, ServerLists, Fresh
  <2>3. UploadsLatest(k, g)' /\ DownloadsLatest(k, g)'
    BY <1>2, <1>5 DEF UploadsLatest, DownloadsLatest
  <2> QED
    BY <1>3, <1>7, <2>1, <2>2, <2>3, Replica DEF SavedAt
<1> QED
  BY <1>3, <1>6, <1>7 DEF LatestInv

LEMMA LatestStep ==
  ASSUME TakingTurns, Proved, CrawlInv, LatestInv, [Next]_vars
  PROVE  LatestInv'
<1> DEFINE Quiets == FilesQuiet /\ \A b \in Clients : ClientQuiet(b)
<1>1. TypeInv /\ DeliveryInv /\ NoDirectoryLost
  BY DEF Proved, Base, TakingTurns
<1>2. Quiets => LatestInv'
  BY LatestQuiet
<1>3. ASSUME NEW c \in Clients, UserStep(c) PROVE LatestInv'
  <2>1. CASE \E f \in Files : EditFile(c, f)
    BY <2>1, EditLatest
  <2>2. CASE \E d \in Dirs : NewDirectory(c, d)
    BY <1>1, <1>2, <2>2, OtherStepQuiet
  <2> QED
    BY <1>1, <1>3, <2>1, <2>2, NoSaveWatched DEF TakingTurns
<1>4. ASSUME NEW c \in Clients, CrawlStep(c) PROVE LatestInv'
  <2>1. CASE BeginCrawl(c)
    BY <1>1, <1>2, <2>1, CrawlStepQuiet
  <2>2. ASSUME NEW p \in Paths, Visit(c, p) PROVE LatestInv'
    BY <1>1, <2>2, ListingLatest, VisitEffect
  <2>3. CASE HashFile(c)
    BY <1>1, <2>3, ListingLatest, HashFileEffect
  <2> QED
    BY <1>4, <2>1, <2>2, <2>3 DEF CrawlStep
<1>5. ASSUME NEW c \in Clients, UpdateStep(c) \/ UpdateLost(c) PROVE LatestInv'
  <2>1. CASE CallUpdate(c)
    BY <1>1, <1>2, <2>1, CrawlStepQuiet
  <2>2. CASE UpdateRefused(c) \/ UpdateLost(c)
    BY <1>1, <1>2, <2>2, RoundStepQuiet
  <2>3. CASE ProcessUpdate(c)
    BY <2>3, ProcessUpdateLatest
  <2> QED
    BY <1>5, <2>1, <2>2, <2>3 DEF UpdateStep
<1>6. ASSUME NEW c \in Clients, TransferStep(c) PROVE LatestInv'
  <2>1. ASSUME NEW d \in Dirs,
               \/ SendDirectory(c, d) \/ SendDirectoryFails(c, d)
               \/ DownloadDirectory(c, d) \/ DownloadDirectoryFails(c, d)
        PROVE  LatestInv'
    BY <1>1, <1>2, <2>1, DirectoryStepQuiet
  <2>2. CASE IndexDirectory(c)
    BY <1>1, <1>2, <2>2, IndexStepQuiet
  <2>3. CASE ConnectFails(c) \/ RoundDone(c)
    BY <1>1, <1>2, <2>3, RoundStepQuiet
  <2>4. ASSUME NEW f \in Files, UploadFile(c, f) \/ RequestFile(c, f) PROVE LatestInv'
    BY <2>4, UploadLatest, RequestLatest
  <2>5. CASE ReceiveFile(c)
    BY <2>5, ReceiveLatest
  <2> QED
    BY <1>6, <2>1, <2>2, <2>3, <2>4, <2>5 DEF TransferStep
<1>7. CASE AsioStep
  BY <1>7, AcceptFileLatest, WriteLatest, AcceptRequestLatest DEF AsioStep
<1>8. CASE Tick \/ UNCHANGED vars
  BY <1>1, <1>2, <1>8, OtherStepQuiet
<1>9. ~ ServerStop /\ ~ ServerStart
  BY <1>1, ServerStaysUp DEF DeliveryInv, ServerStart
<1> QED
  BY <1>3, <1>4, <1>5, <1>6, <1>7, <1>8, <1>9 DEF Next, ClientStep

LEMMA LatestInit == Init => LatestInv
BY DEF Init, LatestInv

\* Everything that holds when users take turns.
TurnsInv == DirsInv /\ DeliveryInv /\ SavedInv /\ TruthInv /\ CrawlInv /\ LatestInv

LEMMA TurnsInit == Init => TurnsInv
BY DeliveryInit, SavedInit, TruthInit, CrawlInit, LatestInit DEF TurnsInv

LEMMA TurnsStep ==
  TakingTurns /\ TypeInv /\ OneAnswer /\ TurnsInv /\ [Next]_vars => TurnsInv'
<1> SUFFICES ASSUME TakingTurns, TypeInv, OneAnswer, TurnsInv, [Next]_vars PROVE TurnsInv'
  OBVIOUS
<1>1. Proved /\ EditsBetweenRounds
  BY DEF Proved, Base, TurnsInv, TakingTurns, EditsBetweenRounds
<1> QED
  BY <1>1, DirsStep, DeliveryStep, SavedStep, TruthStep, CrawlStepOK, LatestStep
  DEF Proved, Base, TurnsInv, TakingTurns

\* If users take turns, no SendDirectory call is lost and the server does not
\* stop, then whenever nothing is left to synchronise every replica has the
\* version of every file that was saved last: although downloads are stamped
\* with times of their own and clocks differ, no version is ever sent over a
\* later one.
THEOREM LatestVersionEverywhere == TakingTurns => (Spec => []LatestEverywhere)
<1> SUFFICES ASSUME TakingTurns PROVE Spec => []LatestEverywhere
  OBVIOUS
<1>1. TypeInv /\ OneAnswer /\ TurnsInv /\ [Next]_vars => TurnsInv'
  BY TurnsStep
<1>2. TypeInv /\ OneAnswer /\ TurnsInv => LatestEverywhere
  BY SettledLatest DEF Proved, Base, TurnsInv, LatestEverywhere
<1> QED
  BY <1>1, <1>2, TurnsInit, TypesAndCursors, AnswersMatchRequests, PTL DEF Spec

\* A client is asked to upload a file that the server lists: it has the last
\* version and the server the one before.
LEMMA UploadNewer ==
  ASSUME TakingTurns, Proved, CrawlInv, LatestInv, NEW c \in Clients, NEW f \in Files,
         CompareClientFile(c, f), f \in todo'[c].upFiles \ todo[c].upFiles,
         serverDirTree.files[f] # None
  PROVE  \E old, new \in Versions :
           /\ serverDirTree.files[f].hash = Digest[old]
           /\ tree[c].files[f].hash = Digest[new]
           /\ old < new
<1>1. f \in WantedFiles(tree[c], serverDirTree) /\ pc[c] \in UpdateSteps
  BY DEF CompareClientFile, Compare, UpdateSteps, Proved, Base, TypeInv, TypeOK, Todos
<1>2. /\ tree[c].files[f] # None
      /\ tree[c].files[f].hash # serverDirTree.files[f].hash
  BY <1>1 DEF WantedFiles, Supersedes
<1>3. disk[c][f] # None /\ tree[c].files[f].hash = Digest[disk[c][f].data]
  BY <1>1, <1>2, ListsItsDisk
<1>4. /\ disk[c][f].data \in Contents /\ disk[c][f].data \in 1 .. edits[f]
      /\ edits[f] \in Nat
  BY <1>3, Replica, DiSyAssumption, VersionsOnly DEF Proved, Base, TypeInv, TypeOK, FilesOnDisk
<1>5. PICK k \in Clients : SavedAt(k, f)
  BY <1>4 DEF LatestInv
<1>6. c = k
  BY <1>1, <1>5, WantsLatest
<1>7. disk[c][f].data = edits[f] /\ ServerLists(k, f)
  BY <1>5, <1>6 DEF SavedAt
<1>8. serverDirTree.files[f].hash = Digest[edits[f] - 1] /\ edits[f] >= 2
  BY <1>2, <1>3, <1>7 DEF ServerLists
<1>9. edits[f] - 1 \in Versions /\ edits[f] \in Versions
  BY <1>4, <1>7, <1>8, DiSyAssumption DEF Versions, Empty, Proved, Base, TypeInv, TypeOK
<1> QED
  BY <1>3, <1>4, <1>7, <1>8, <1>9

\* Under the same conditions processUpdate never asks for an older version
\* than the server's, though it compares times of different clocks.
THEOREM NoStaleUploads == TakingTurns => (Spec => UploadsAreNewer)
<1> SUFFICES ASSUME TakingTurns PROVE Spec => UploadsAreNewer
  OBVIOUS
<1>1. TypeInv /\ OneAnswer /\ TurnsInv /\ [Next]_vars => TurnsInv'
  BY TurnsStep
<1>2. TypeInv /\ OneAnswer /\ TurnsInv /\ [Next]_vars =>
        [\A c \in Clients, f \in Files :
           /\ CompareClientFile(c, f)
           /\ f \in todo'[c].upFiles \ todo[c].upFiles
           /\ serverDirTree.files[f] # None
           => \E old, new \in Versions :
                /\ serverDirTree.files[f].hash = Digest[old]
                /\ tree[c].files[f].hash = Digest[new]
                /\ old < new]_vars
  BY UploadNewer DEF Proved, Base, TurnsInv
<1> QED
  BY <1>1, <1>2, TurnsInit, TypesAndCursors, AnswersMatchRequests, PTL DEF Spec, UploadsAreNewer

-----------------------------------------------------------------------------
(***************************************************************************)
(* Refinement.                                                             *)
(***************************************************************************)
\* What Replication's store stands for.
Store == [r \in Replicas |-> [f \in Files |-> Read(r, f)]]

LEMMA StoreMapping ==
  /\ Promise!rvars = <<edits, Store>>
  /\ Promise!rvars' = <<edits', Store'>>
BY DEF Promise!rvars, Store, Read, Empty

LEMMA StoreSame ==
  ASSUME \A q \in Replicas, f \in Files : Read(q, f)' = Read(q, f)
  PROVE  Store' = Store
<1>1. Store' = [r \in Replicas |-> [f \in Files |-> Read(r, f)']]
  BY DEF Store, Replicas
<1> HIDE DEF Read
<1> QED
  BY <1>1 DEF Store

LEMMA StoreSet ==
  ASSUME NEW c \in Replicas, NEW f \in Files, NEW v, Read(c, f)' = v,
         \A q \in Replicas, h \in Files : q # c \/ h # f => Read(q, h)' = Read(q, h)
  PROVE  Store' = [Store EXCEPT ![c][f] = v]
<1>1. Store' = [r \in Replicas |-> [h \in Files |-> Read(r, h)']]
  BY DEF Store, Replicas
<1>2. [Store EXCEPT ![c][f] = v]
      = [r \in Replicas |-> IF r = c THEN [Store[c] EXCEPT ![f] = v] ELSE Store[r]]
  BY DEF Store
<1>3. [Store[c] EXCEPT ![f] = v] = [h \in Files |-> Read(c, h)']
  <2>1. [Store[c] EXCEPT ![f] = v] = [h \in Files |-> IF h = f THEN v ELSE Read(c, h)]
    BY DEF Store
  <2>2. \A h \in Files : (IF h = f THEN v ELSE Read(c, h)) = Read(c, h)'
    OBVIOUS
  <2> QED
    BY <2>1, <2>2
<1>4. \A r \in Replicas : r # c => Store[r] = [h \in Files |-> Read(r, h)']
  BY DEF Store
<1> QED
  BY <1>1, <1>2, <1>3, <1>4

LEMMA SavePromise ==
  ASSUME TakingTurns, Proved, CrawlInv, LatestInv, NEW c \in Clients, NEW f \in Files, EditFile(c, f)
  PROVE  Promise!Next
<1>1. Settled /\ c \in Editors
  BY TurnTaken DEF EditFile, MaySave, MayEdit
<1>2. Promise!Agreed
  BY <1>1, SettledLatest DEF Promise!Agreed, Promise!Members, Replicas, Proved, Base, TypeInv, TypeOK
<1>3. edits' = [edits EXCEPT ![f] = edits[f] + 1]
  BY EditEffect DEF Proved, Base
<1>4. Store' = [Store EXCEPT ![c][f] = edits[f] + 1]
  <2>1. /\ \A q \in Replicas, h \in Files : q # c \/ h # f => Read(q, h)' = Read(q, h)
        /\ Read(c, f)' = edits[f] + 1 /\ c \in Replicas
    BY EditEffect, Replica DEF Read, Proved, Base
  <2> QED
    BY <2>1, StoreSet
<1>5. Promise!Save(c, f)
  BY <1>2, <1>3, <1>4 DEF Promise!Save, Store, Read, Empty
<1> QED
  BY <1>1, <1>5 DEF Promise!Next

LEMMA FetchPromise ==
  ASSUME TakingTurns, Proved, CrawlInv, LatestInv, NEW c \in Clients, ReceiveFile(c)
  PROVE  Promise!Next \/ UNCHANGED Promise!rvars
<1>0. PICK g \in Files : g = cur[c]
  BY ReceiveEffect DEF Proved, Base, CrawlInv, CrawlOK, Errands
<1>1. /\ edits' = edits /\ g \in todo[c].downFiles
      /\ reply[c] # None /\ reply[c] \in Contents
      /\ disk' = Written(c, g, reply[c])
  BY <1>0, ReceiveEffect DEF Proved, Base, CrawlInv, CrawlOK, Errands
<1>2. /\ \A q \in Replicas, f \in Files : q # c \/ f # g => disk'[q][f] = disk[q][f]
      /\ disk'[c][g] = disk[c][g] \/ (disk'[c][g] # None /\ disk'[c][g].data = reply[c])
  BY <1>1, WrittenEffect, Replica DEF Proved, Base, TypeInv
<1>3. edits[g] # 0
  <2>1. edits[g] \in Nat /\ reply[c] \in LeftBySaves(edits[g])
    BY <1>0, <1>1, DiSyAssumption DEF Proved, SavedInv, RepliesSaved, Base, TypeInv, TypeOK
  <2> QED
    BY <2>1, VersionsOnly
<1>4. reply[c] = edits[g] /\ Read(Server, g) = edits[g]
  BY <1>0, <1>1, <1>3 DEF LatestInv, SavedAt, DownloadsLatest
<1>5. Read(c, g) \in 0 .. edits[g] /\ edits[g] \in Nat
  BY <1>0, Replica, DiSyAssumption, VersionsOnly DEF Read, Empty, Proved, Base, TypeInv, TypeOK
<1>6. CASE Read(c, g)' = Read(c, g)
  <2>1. \A q \in Replicas, f \in Files : Read(q, f)' = Read(q, f)
    <3> SUFFICES ASSUME NEW q \in Replicas, NEW f \in Files PROVE Read(q, f)' = Read(q, f)
      OBVIOUS
    <3>1. CASE q = c /\ f = g
      BY <3>1, <1>6
    <3>2. CASE q # c \/ f # g
      BY <3>2, <1>2 DEF Read
    <3> QED
      BY <3>1, <3>2
  <2> QED
    BY <1>1, <2>1, StoreSame, StoreMapping
<1>7. CASE Read(c, g)' # Read(c, g)
  <2>1. Read(c, g)' = edits[g]
    <3>1. disk'[c][g] # disk[c][g]
      BY <1>7 DEF Read
    <3> QED
      BY <1>2, <1>4, <3>1 DEF Read
  <2>2. Store' = [Store EXCEPT ![c][g] = Store[Server][g]]
    <3>1. \A q \in Replicas, f \in Files : q # c \/ f # g => Read(q, f)' = Read(q, f)
      BY <1>2 DEF Read
    <3>2. Store[Server][g] = edits[g]
      BY <1>1, <1>4, Replica DEF Store
    <3> QED
      BY <1>1, <2>1, <3>1, <3>2, Replica, StoreSet
  <2>3. Store[c][g] < Store[Server][g]
    BY <1>1, <1>4, <1>5, <1>7, <2>1, Replica DEF Store
  <2>4. Promise!Fetch(c, g)
    BY <1>1, <2>2, <2>3 DEF Promise!Fetch, Store, Read, Empty
  <2>5. Promise!Spread
    BY <1>1, <2>4 DEF Promise!Spread
  <2> QED
    BY <2>5 DEF Promise!Next
<1> QED
  BY <1>6, <1>7

LEMMA PublishPromise ==
  ASSUME TakingTurns, Proved, LatestInv, WriteFile
  PROVE  Promise!Next \/ UNCHANGED Promise!rvars
<1>0. PICK g \in Files : g = writing.file
  BY WriteEffect
<1>1. /\ edits' = edits /\ writing # None
      /\ \A q \in Replicas, f \in Files : q # Server \/ f # g => disk'[q][f] = disk[q][f]
      /\ disk'[Server][g] # None /\ disk'[Server][g].data = writing.data
  BY <1>0, WriteEffect
<1>2. writing.data = edits[g] /\ edits[g] \in Nat
  <2>1. edits[g] \in Nat /\ writing.data \in 1 .. edits[g]
    BY <1>0, <1>1, DiSyAssumption, VersionsOnly
    DEF Proved, SavedInv, UploadsSaved, Base, TypeInv, TypeOK
  <2> QED
    BY <1>0, <1>1, <2>1 DEF LatestInv, SavedAt, UploadsLatest
<1>3. Read(Server, g) \in 0 .. edits[g]
  BY <1>0, <1>2, Replica, VersionsOnly DEF Read, Empty, Proved, Base
<1>4. /\ \A q \in Replicas, f \in Files : q # Server \/ f # g => Read(q, f)' = Read(q, f)
      /\ Read(Server, g)' = edits[g] /\ Server \in Replicas
  BY <1>1, <1>2, Replica DEF Read
<1>5. CASE Read(Server, g) = edits[g]
  <2>1. \A q \in Replicas, f \in Files : Read(q, f)' = Read(q, f)
    <3> SUFFICES ASSUME NEW q \in Replicas, NEW f \in Files PROVE Read(q, f)' = Read(q, f)
      OBVIOUS
    <3>1. CASE q = Server /\ f = g
      BY <3>1, <1>4, <1>5
    <3>2. CASE q # Server \/ f # g
      BY <3>2, <1>4
    <3> QED
      BY <3>1, <3>2
  <2> QED
    BY <1>1, <2>1, StoreSame, StoreMapping
<1>6. CASE Read(Server, g) # edits[g]
  <2>1. Store[Server][g] < edits[g]
    BY <1>1, <1>2, <1>3, <1>6, Replica DEF Store
  <2>2. Store' = [Store EXCEPT ![Server][g] = edits[g]]
    BY <1>1, <1>4, StoreSet
  <2>3. Promise!Publish(g)
    BY <1>1, <2>1, <2>2 DEF Promise!Publish, Store, Read, Empty
  <2>4. Promise!Spread
    BY <1>1, <2>3 DEF Promise!Spread
  <2> QED
    BY <2>4 DEF Promise!Next
<1> QED
  BY <1>5, <1>6

LEMMA PromiseStep ==
  ASSUME TakingTurns, Proved, CrawlInv, LatestInv, [Next]_vars
  PROVE  [Promise!Next]_(Promise!rvars)
<1>1. edits' = edits /\ disk' = disk => UNCHANGED Promise!rvars
  BY StoreMapping DEF Store, Read
<1>2. ASSUME NEW c \in Clients, UserStep(c) PROVE Promise!Next \/ UNCHANGED Promise!rvars
  <2>1. CASE \E f \in Files : EditFile(c, f)
    BY <2>1, SavePromise
  <2>2. CASE \E d \in Dirs : NewDirectory(c, d)
    BY <1>1, <2>2 DEF NewDirectory, userVars
  <2> QED
    BY <1>2, <2>1, <2>2, NoSaveWatched DEF TakingTurns, Proved, Base
<1>3. ASSUME NEW c \in Clients, CrawlStep(c) \/ UpdateStep(c) \/ UpdateLost(c)
      PROVE  edits' = edits /\ disk' = disk
  BY <1>3, ProcessUpdateEffect
  DEF CrawlStep, BeginCrawl, Visit, HashFile, UpdateStep, CallUpdate, UpdateRefused, UpdateLost,
      userVars, fsVars, Proved, Base
<1>4. ASSUME NEW c \in Clients, TransferStep(c) PROVE Promise!Next \/ UNCHANGED Promise!rvars
  <2>1. CASE ReceiveFile(c)
    BY <2>1, FetchPromise
  <2>2. CASE ~ ReceiveFile(c)
    <3>1. edits' = edits /\ disk' = disk
      BY <1>4, <2>2 DEF TransferStep, SendDirectory, SendDirectoryFails, DownloadDirectory,
           DownloadDirectoryFails, IndexDirectory, UploadFile, RequestFile, ConnectFails, RoundDone,
           userVars, fsVars
    <3> QED
      BY <1>1, <3>1
  <2> QED
    BY <2>1, <2>2
<1>5. CASE AsioStep
  <2>1. CASE WriteFile
    BY <2>1, PublishPromise
  <2>2. CASE AcceptFile \/ AcceptRequest
    BY <1>1, <2>2 DEF AcceptFile, AcceptRequest, userVars, fsVars
  <2> QED
    BY <1>5, <2>1, <2>2 DEF AsioStep
<1>6. CASE Tick \/ UNCHANGED vars
  BY <1>1, <1>6 DEF Tick, vars, userVars, fsVars
<1>7. ~ ServerStop /\ ~ ServerStart
  BY ServerStaysUp DEF TakingTurns, Proved, Base, DeliveryInv, ServerStart
<1> QED
  BY <1>1, <1>2, <1>3, <1>4, <1>5, <1>6, <1>7 DEF Next, ClientStep

LEMMA PromiseInit == Init => Promise!Init
BY Replica DEF Init, Promise!Init, Promise!Members, Replicas

\* Under the same conditions every step of DiSy is a step of Replication or
\* leaves its state alone: users save on directories that agree, the server
\* only goes forward to the version saved last, a client only to the server's.
\* That every version arrives, which is the fairness in PromiseKept, is left to
\* the run settled.
THEOREM StepsKeepPromise ==
  TakingTurns => (Spec => Promise!Init /\ [][Promise!Next]_(Promise!rvars))
<1> SUFFICES ASSUME TakingTurns PROVE Spec => Promise!Init /\ [][Promise!Next]_(Promise!rvars)
  OBVIOUS
<1>1. TypeInv /\ OneAnswer /\ TurnsInv /\ [Next]_vars => TurnsInv'
  BY TurnsStep
<1>2. TypeInv /\ OneAnswer /\ TurnsInv /\ [Next]_vars => [Promise!Next]_(Promise!rvars)
  BY PromiseStep DEF Proved, Base, TurnsInv
<1> QED
  BY <1>1, <1>2, PromiseInit, TurnsInit, TypesAndCursors, AnswersMatchRequests, PTL DEF Spec

=============================================================================
