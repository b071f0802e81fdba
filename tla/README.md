# DiSy: specifications and proofs

DiSy synchronises directories: every client keeps a directory equal to that of
one server. This directory holds TLA+ modules translated from `src/DiSy`, the
TLC runs that check them, and proofs checked by TLAPS. Paths below are relative
to `src/DiSy/` unless they start with `src/`; `documentation.tex` is
`src/documentation/documentation.tex`.

## 1. The system

| component | source | state | operations |
|---|---|---|---|
| client round | `src/client/client.cpp`, `uploader.cpp`, `downloader.cpp`, loop in `client/main.cpp:81-85` | `clientId`; the request and response of the current round; the directory on disk | crawl, `Update`, upload directories, download directories, upload files, download files, sleep 5 s, again |
| Update handler | `src/server/server.cpp:105-220` | reads `serverDirTree` | clock check, four comparison loops, response |
| directory RPCs | `server.cpp:222-248` | disk, `serverDirTree.directories` | `SendDirectory` writes the disk, then the tree; `GetDirectory` echoes the path |
| asio file server | `server.cpp:32-82` | listening queue, disk, `serverDirTree.files` | takes one connection at a time: a `File` enters the tree, then the disk; a `FileMetadata` is answered with the file |
| framing | `include/shared/asioNetworking.hpp` | the bytes in a socket | type byte, 8-byte size, protobuf, over asio's `write`, `receive` and `read` |
| id service | `server.cpp:93-103`, `client.cpp:51-70` | `nextClientId` | `GetNewId`; the client's constructor retries until it succeeds |
| crawler, hashing | `include/shared/crawler.hpp`, `hashing.hpp` | none | lists a directory: `stat`, then SHA-512 |
| reader, writer | `reader.hpp`, `writer.hpp` | disk | a missing file reads as empty; a write to a missing directory is dropped; a write gets the current time |
| client configuration | `client/main.cpp:17-78` | a config file, `config.json` in the working directory if `-c` names no other | command line, read or create the config file, path check |
| server start-up | `server/main.cpp` | none kept | command line, path check, the two ports |

**How they interact.** A client is one process with one thread, so its crawl,
RPCs and transfers are sequential. The server process runs gRPC handlers on
gRPC's own threads, several at once, and one asio thread. They share
`serverDirTree` and the disk without any lock. Directories go over gRPC and are
acknowledged; files go over TCP connections to the asio thread and uploads are
not acknowledged: the client closes the socket and goes on while its upload
waits in the listening queue. Clients started in one working directory share
`config.json`, unless `-c` names another file, or none (`-c ""`).

**What is hard.**

- Threads: the loops of `processUpdate` see a tree that `SendDirectory` and the
  asio thread change under them; the tree is updated before the disk for files
  (`server.cpp:60, 63`) and after it for directories (`server.cpp:244-245`);
  `nextClientId` has no lock.
- Stale reads: the metadata of an upload is that of the crawl, the contents are
  read when it is sent (`uploader.cpp:64`); `stat` precedes the hash; files are
  read and hashed while a user's program may be writing them (`reader.hpp:26-31`,
  `hashing.hpp:24-31`).
- Times: a downloaded file gets the time of the download, times are whole
  seconds, clocks differ between machines and are compared modulo 2^32.
- Failure: a failed `SendDirectory` is logged and its files are sent all the
  same; a failed `Update` starts the round over; the server may stop with
  uploads queued or half written and forgets its tree and its id counter; a
  socket error on the asio thread ends the whole server.
- Order: directories and files use different connections, and all files of all
  clients go through one thread that blocks in every receive and write.
- Shared files: nothing locks a config file, and a client may be killed between
  truncating and writing it.

**What makes each correct.**

- client round: it ends whatever happens to the server; a waiting download gets
  the answer to its own request; an old version is not sent over a newer one.
- Update handler: what it asks a client to send is newer than what it has; what
  it tells a client of a file is what the client will be sent.
- directory RPCs: a listed directory exists; what a failure left out is made up
  for.
- asio server: a file finds its directory; what is listed is on disk;
  connections are served in order, one answer a request; a client that closes
  its socket does not end the server.
- framing: a receiver parses exactly the bytes of one message; two ends never
  block each other for ever.
- id service: every client gets an id and no two get the same.
- client configuration: clients that run with one config file synchronise one
  directory, and it stays the same.
- the whole: replicas hold only what a user's save put into a file, and when
  nobody edits they become equal and hold the last version of everything.

Every hazard, with its line and the properties that watch it, is in
`PROJECT.json`.

## 2. Modules

| module | models | state and actions |
|---|---|---|
| `DirTree` | the messages of `DiSy.proto`, the comparisons of `processUpdate`, `checkClientApproved` | pure operators: `MissingDirs`, `Supersedes`, `WantedFiles`, `ClientApproved` |
| `DiSy` | clients, handlers, asio thread, disks, users, clock, faults | see below |
| `AsioServer` | one file connection after the other, byte by byte: framing, blocking sockets, stopping clients, the end of the asio thread | see below |
| `IdService` | client ids | `nextClientId`, `response`, `clientId`; the handler in three steps |
| `ClientConfig` | `main` of the client up to the constructor of `Client` | see below |
| `Replication` | abstract: what a synchroniser promises when users take turns | `edits`, `store`; `Save`, `Publish`, `Fetch` |
| `FileQueue` | abstract: whole messages, served in order, one answer a request | `queue`, `answered`; `Upload`, `Request`, `Serve`, `Collect`, `Stop`, `Crash` |
| `MCDiSy`, `MCAsioServer`, `MCIdService`, `MCClientConfig` | instances for TLC | |
| `DiSy_types`, `DiSy_delivery`, `DiSy_contents`, `DiSy_truth`, `DiSy_latest` | theorems about `DiSy`, each module extending the one before it | |
| `AsioServer_proofs`, `IdService_proofs`, `ClientConfig_proofs` | theorems about `AsioServer`, `IdService` and `ClientConfig` | |

`DiSy` implements `Replication` when users take turns, and `FileQueue` always;
`AsioServer` implements `FileQueue` as well. `DiSy` takes a message as a whole
and says what it does to the tree and the disk; `AsioServer` leaves tree and
disk out and says how the message gets there.

Operators marked "Mutant" are plausible errors in the definition next to them.
They are no part of the specifications; `PROJECT.json` names, for every property
of a run, the one that breaks it.

**DiSy in detail.** `disk[r][f]` is the mtime and contents of a file at a
replica, `dirs[r]` the directories there. Contents are version numbers: version
*v* of a file is what a user saved as its *v*th version, on whichever client,
and 0 is the empty contents that reading a missing file gives. `Mixtures` are
contents nobody saved: some bytes of one version and some of another, or the
first bytes of one. A protobuf map
is a set of directories, or a function from files that is `None` where there is
no entry. `pc[c]` is where client *c* is, or where the handler of its current
call is, since the client waits for it:

| `pc[c]` | code | actions |
|---|---|---|
| `idle` | between rounds, `client/main.cpp:84` | `BeginCrawl` |
| `crawl`, `hash` | `crawlDirectory`, one entry a step, `stat` and hash apart | `Visit`, `HashFile` |
| | `Update` call, `client.cpp:17-32` | `CallUpdate`, `UpdateRefused`, `UpdateLost` |
| `clientDirs` .. `serverFiles` | the loops of `processUpdate`, one path a step | `CompareClientDir`, `CompareServerDir`, `CompareClientFile`, `CompareServerFile`, `LoopDone` |
| `transfer` | `client.cpp:39-43` | `SendDirectory`, `DownloadDirectory`, their failures, `UploadFile`, `RequestFile`, `ConnectFails`, `RoundDone` |
| `index` | inside `SendDirectory`, after the disk | `IndexDirectory` |
| `fetch` | `downloadFile` blocked in its receive | `ReceiveFile` |

`todo[c].visit` holds the paths that a crawl or a loop has still to come to, the
rest of `todo[c]` what is left of the response; the order of transfers is in the
guards `UpDirsLeft`, `DownDirsLeft`, `UpFilesLeft` and `DownFilesLeft`. Within
one map the order is any order, as it is for a protobuf map. A loop steps
through all paths, and does nothing at those that are not in its map. `conns` is
the listening queue, `writing` the file that is in the tree and not yet on disk,
`reply[c]` the answer on its way. `ServerStop` is possible between any two
steps: it fails the calls under way, empties the queue, leaves the file being
written untouched, truncated or complete; `ServerStart` crawls the directory.
The tree built by the client is freed at the end of a round (`EndRound`).

**Saves that can be watched.** `getFileFromMetadata` reads a file byte by byte
and `getFileHash` goes through a shared mapping of it, both over time. `Read` and
`HashFile` are one step each, so what goes on meanwhile is on the user's side:
where `Mixtures` is not empty and users edit anytime, a save is two steps.
`BeginSave` leaves a mixture with a fresh time, `EndSave` the version (or a
mixture again, as a download may have been written over the file in between),
and any step of the client comes between them: a read that overlaps a save is
one that takes its step there and gets the mixture, also if it began before the
save or ended after it. With `Mixtures` empty a save replaces the file whole, as programs do that
rename a new file over the old one, and `EditFile` is one step. So it is between
rounds and in turns, when no code looks at the file during a save.

The environment is set by constants: `Editors` and `EditWhen` (users edit
`"anytime"`, `"betweenRounds"` of their own client, or only when everything is
`"settled"`, and then in a later second than every write so far: taking turns
as `documentation.tex:102` asks of users, and slower than the granularity of
mtimes, without which `same_second` shows what happens), `Faults` and
`MaxFaults`, and `Skew` (the clocks). The time that a client sends with `Update`
and the server's reading of its clock happen in one step.

**ClientConfig in detail.** `config[k]` is what config file `k` holds: nothing
(`None`, no such file; `Empty`, truncated and not yet written), a path, or
`NoPath`, a file whose user left `path` out. `file[c]` and `path[c]` are the
variables `config` and `path` of `main`. `Start` is the command line, with `-d`
and `-c` given or not; `SkipConfig` is `config == ""` (`client/main.cpp:36`);
then `OpenConfig`, and `ReadConfig` (`j.value("path", path)` keeps the path given
if the key is absent) or `CreateConfig` and `WriteConfig`, and `CheckPath`.

**AsioServer in detail.** A stream is how many bytes were written and how many
received; a byte stands for any number of bytes that always travel together.
`MayWrite` is one `write_some` inside `asio::write`: it takes what fits in the
socket (`Window`). `Received` is what `receive` and `asio::read` make of the
bytes that are there. `Pieces` says whether the eight bytes of `messageSize` may
be written or received in pieces; then the variable, which is not initialised,
holds anything in `Garbage`. `conns` are the connections the server has not
closed, the first the one it serves; `end` is what the client did with its
socket. `cut[c]` says that the server's end is gone. `ServerDies` is an
exception on the asio thread, which nothing catches: `std::terminate`.

## 3. Runs

Runs of `DiSy` use two clients (`same_second` one) and one file `f` in a
directory `d`, in `between_rounds` in `e` inside `d`.

| run | environment | properties |
|---|---|---|
| `live_edits` | one user saves anytime and in place, 1 version and 1 mixture, 3 instants | `TypeOK` `UploadsLand` `OnlySavedContents` `IndexedFilesExist` `QueueInOrder` `TruthReturns` |
| `between_rounds` | both users edit between their client's rounds, nested directories, 2 versions, 3 instants | `UploadsLand` `IndexedDirsExist` `IndexTellsTruth` |
| `settled` | users take turns, c1's clock is ahead, the compared clocks wrap, a lost `Update` or `GetDirectory` | `LatestEverywhere` `PromiseKept` `Synchronises` `UploadsAreNewer` |
| `server_stops` | one user, the server may stop, `SendDirectory` may fail, 2 faults | `OneAnswer` `IndexedDirsExist` `RoundsEnd` `RoundsAdvance` `DirectoriesConverge` `LostUploadsRemade` `QueueKept` |
| `ids` | 3 clients at once, 2 lost calls or restarts | `TypeOK` `UniqueUnlessRaced` `EveryClientNamed` |
| `file_bytes` | 2 clients upload and download, stop anywhere, the server dies and starts; sizes whole | `TypeOK` `MessagesWhole` `NeverBothBlocked` `ThreadOutlivesClients` `TransfersEnd` `QueueKept` |
| `client_starts` | 3 clients, 4 starts with one of 2 config files or none, killed anywhere, 2 directories that may exist or not | `TypeOK` `OneDirectory` `NotLeftEmpty` `ConfigSticks` |

What they show:

- `UploadsLand`: though files and directories take different ways and uploads
  are queued, a file reaches the asio thread after its directories.
- `OneAnswer`: a waiting client has its request queued or its answer under way,
  never both or neither, and the answer is for the file it asked for, wherever
  the server stops.
- `OnlySavedContents`: no replica ever holds anything in a file but what a save
  put there. Since a missing file reads as empty, this says that no such read is
  ever spread. It does not say that only saved versions spread: a file that is
  written over in place may be hashed and sent half saved, and in `live_edits`
  it is. Where saves replace files whole only saved versions do.
- `IndexedFilesExist`: a file the server lists is on its disk or being written.
- `IndexTellsTruth`: the hash that the server lists is that of the file it
  serves, except while it writes it. It does not hold under live edits, where
  the contents sent may be newer than the metadata sent with them, or half saved.
- `TruthReturns`: under live edits every entry of the tree is right again and
  again, so a wrong one does not stay, whether it came of an edit between
  `stat` and hash, between crawl and upload, or during either. There is one
  exception, `Tied`: a client's file has the very second that the tree lists and
  other contents, so that the two are never exchanged (`same_second`).
- `LatestEverywhere`: whenever nothing is left to do, all replicas have the
  version saved last. `PromiseKept`: the steps in between implement
  `Replication`, so no replica ever goes back to an older version and every
  version arrives. `UploadsAreNewer`: a client is asked only for a file of which
  it has a later version than the server, though what is compared is times;
  `stale_upload` shows what is left of it when users do not take turns.
  `Synchronises`: the directories keep becoming equal, also
  when a client is refused because the clocks straddle the wrap.
- `RoundsEnd`: no client waits for ever, wherever the server stops.
  `RoundsAdvance`: every step of a client in its round, and every step of others
  that changes the round, makes it shorter: a later loop or phase, or fewer
  things left in the same one (`Stage`, `Left`). Nothing that fails is tried
  again in the same round. `DirectoriesConverge`: once it stays up, all replicas get the same
  directories, whatever calls had failed. `LostUploadsRemade`: and the same
  files, so that an upload which was lost with the listening queue, or before it
  was written, is made again; except while the server lists a file it does not
  have (`phantom_file`), and unless a file was truncated when the server stopped.
- `IndexedDirsExist`: `SendDirectory` writes disk and tree in the right order.
- `QueueInOrder`: `DiSy` and `AsioServer` serve connections in order and answer
  each request once. `QueueKept`: they also go on serving.
- `UniqueUnlessRaced`: ids are unique unless two handlers overlapped or the
  counter was lost; `EveryClientNamed`: every client gets one.
- `MessagesWhole`: if sizes come whole, a receiver that parses has taken exactly
  the bytes of one message. `ThreadOutlivesClients`: only a client that was
  stopped inside a transfer ends the server, never one that closed its socket.
  `NeverBothBlocked`: the server and the client it serves never wait for each
  other, though both write into sockets that hold less than a file. A thread
  goes on if it has a message to parse, bytes to take or room to write; one of
  the two always does. And a client in a transfer has a connection or is told
  that the server is gone. `TransfersEnd`: no transfer lasts for ever, though both ends block when they
  write more than a socket holds.
- `OneDirectory`, `ConfigSticks`: clients that run with one config file
  synchronise the directory that is in it, whatever they were given with `-d`,
  and no start changes it; unless the file has no path, or two clients found no
  file and one truncated what the other had written (`raced`). Clients with
  another file, or with none, go their own way also in one working directory.
  `NotLeftEmpty`: an empty config file is being written, unless a writer of it
  was killed (`killed`).

Five runs refute what the repository says of the code:

| run | says | what happens |
|---|---|---|
| `stale_upload` | `server.cpp:170` "Server has older file than client" | client B downloads version 1 after A saved version 2; B's copy has the later time and B is asked to upload version 1 over 2 |
| `phantom_file` | `server.cpp:155` "File on client but not on server" | a `SendDirectory` call is lost, the file in it is uploaded, enters the tree and not the disk; it is never asked for again |
| `same_second` | `documentation.tex:66`: synchronises by timestamps and hashes | a user saves a file twice in one second, with a round in between: the tree lists the time that came with the first upload (`server.cpp:60`), the second version has the same and is never uploaded |
| `torn_size` | `documentation.tex:202`: a header determines the length of a message | the size of a message arrives in two pieces, one `receive` takes the first, and the server parses something that is not the message |
| `ids_race` | `documentation.tex:267` "an unique ID" | two overlapping `GetNewId` calls return the same id |

**Bounds.** Two clients give every conflict the code has: one that writes while
another reads, compares, or writes; a third adds no new kind of step, as clients
meet only at the server. For ids and config files three clients give a third
that comes after a race of two. One file is enough for what happens to a file,
since entries of different files are independent but for the queue; theorems
that hold for any set of files cover the rest. Two versions are needed for an
old and a new one; in `live_edits` the mixture is the other one, which the
version replaces or which replaces it when a download meets the end of the save,
and one user edits, since `documentation.tex:102` does not support live editing
on several clients. In `server_stops` what counts is whether the one version
arrives; three instants for a version to be saved, downloaded and
saved again at different times (four in `settled`, where every version needs a
second of its own, and where `TimeModulus` = 3 makes the clocks wrap once;
elsewhere it is 64 and they do not). `SkewLimit` = 2 stands for 1000 seconds:
the one second of skew is below it. Two faults allow a failed call besides a
stop, and a stop after a restart. `MaxConns` = 2 connections fill the queue with
an upload before a request. In `AsioServer` `SizeBytes` = 2 is the least that
can be torn, and `Window` = 4 holds a request and not a file, so that writers
block. `MaxStarts` = 4 is one start more than there are clients: one of them
starts again, and two config files let a client start with another one. `AnyClient` is a symmetry set where the clients (and config files) do not differ
and no liveness property is checked.

**Fairness.** `DiSy!FairSpec` assumes that every client process, the asio thread
and the clock keep running: they are loops without a condition. Nothing else is
fair: users need not edit, calls need not fail, a stopped server need not be
started again. `ClientStep` contains the steps of the handler that serves the
client, which runs on a thread of its own. The clock is bounded by `MaxTime` and
matters where a client is refused until the clocks have passed the wrap.
`AsioServer!FairSpec` assumes that a transfer that has begun is carried on by
both ends (`ClientStep`, `ServerStep`) unless the client is stopped or the
server gone; nobody has to begin one. `IdService!FairSpec` assumes that clients
keep trying and handlers keep running.

`CHECK_DEADLOCK` is left on everywhere: a client can always begin a round or a
transfer, and `IdService` and `ClientConfig` stutter explicitly when every
client has its id or every start is used up.

## 4. Proofs

The theorems hold for any clients, paths, hashes, contents and bounds that
satisfy the named assumptions: the paths of directories and files are disjoint
and the directories above a path are closed upwards (`PathsAssumption`), `None`
is no value and no client, nor is "nobody" (`NoneAssumption`, `DiSyAssumption`,
`AsioAssumption`, `ConfigAssumption`), mixtures are no versions and the
digest is injective on the contents that occur (`DiSyAssumption`; SHA-512 for the
code's purposes), and
counters and bounds are natural numbers.

| theorem | statement | argument |
|---|---|---|
| `DiSy_types!TypeCorrect` | `Spec => []TypeOK` | `TypeInv` adds what `cur` holds at each `pc` (`CursorOK`) and that a client is only asked for files it listed (`UploadsListed`) and what a save under way writes (`SavingOK`): without them an uploaded message could carry `None` as its metadata |
| `DiSy_types!TypesAndCursors` | `Spec => []TypeInv` | the invariant itself |
| `DiSy_types!RoundsOnlyAdvance` | `Spec => RoundsAdvance` | `RoundInv`: what is at hand has been taken from what is left, except a file that is fetched; then one lemma per action, and one for a stop of the server, which ends a round or the call it is in |
| `DiSy_delivery!AnswersMatchRequests` | `Spec => []OneAnswer` | inductive relative to `TypeInv`; appending adds an index, taking the head shifts the others, so the set of a client's requests follows |
| `DiSy_delivery!ServesInOrder` | `Spec => QueueInOrder` | the refinement step by step, relative to `TypeInv` and `OneAnswer`: the mapped queue is appended to, loses its head or is cut off; a request needs `OneAnswer`, by which its client has no other |
| `DiSy_delivery!ListedDirectoriesExist` | `Spec => []IndexedDirsExist` | adds that inside `SendDirectory` the directory has been created (`CreatedFirst`); directories are never removed |
| `DiSy_delivery!UploadsAlwaysLand` | `NoDirectoryLost => (Spec => []UploadsLand)` | a listed file's directories are listed (`ListedBelow`), and a listed directory is on the server or in `Asked(c)`: what the client is asked to upload and what the first loop may still ask of it (`DirsOnTheirWay`) |
| `DiSy_contents!ContentsWereSaved`, `ListedFilesExist` | `NoDirectoryLost => (Spec => []OnlySavedContents)`, likewise `IndexedFilesExist` | one invariant, `SavedInv`, over what saves leave (`LeftBySaves`: the versions so far, and mixtures if saves are in place): a client has what it lists, so an upload never reads a missing file; an upload lands (`UploadsLand`), so what is listed comes to exist; a request is for a listed file (`DownloadsListed`) and is answered when nothing is being written, so the answer is the file's |
| `DiSy_truth!ListedHashesAreTrue` | `EditsBetweenRounds => (Spec => []IndexTellsTruth)` | `TruthInv`: as long as a file is still to be uploaded its client's disk has the hash listed (`ListTellsTruth`, which needs uploads to precede downloads), so messages carry the hash of their contents (`UploadsTellTruth`) |
| `DiSy_latest!LatestVersionEverywhere` | `TakingTurns => (Spec => []LatestEverywhere)` | `CrawlInv` and `LatestInv`, below; where saves cannot be watched there are no mixtures (`VersionsOnly`) |
| `DiSy_latest!StepsKeepPromise` | `TakingTurns => (Spec => Promise!Init /\ [][Promise!Next]_(Promise!rvars))` | the same invariants; users save when replicas agree, a write on the server is `Publish`, one on a client is `Fetch`, or nothing changes |
| `DiSy_latest!NoStaleUploads` | `TakingTurns => (Spec => UploadsAreNewer)` | `LatestInv`: only the client that saved a file last is asked for it, its disk has what it lists, which is the last version, and the server lists the one before (`UploadNewer`) |
| `AsioServer_proofs!TypeCorrect` | `Spec => []TypeOK` | `TypeInv` adds that a server that is not idle has a connection |
| `AsioServer_proofs!MessagesArriveWhole` | `~ Pieces => (Spec => []MessagesWhole)` | `WholeInv`, below |
| `AsioServer_proofs!ThreadSurvives` | `~ Pieces => (Spec => ThreadOutlivesClients)` | `WholeInv`, below |
| `AsioServer_proofs!NeverBlocked` | `~ Pieces => (Spec => []NeverBothBlocked)` | `SentInv`, below |
| `AsioServer_proofs!BytesServeInOrder` | `~ Pieces => (Spec => QueueInOrder)` | `WholeInv` and `SentInv`: a connection is in the mapped queue until the server is done with it, and the last byte of an answer is written in the step that ends its service |
| `IdService_proofs!TypeCorrect` | `Spec => []TypeOK` | per action |
| `IdService_proofs!IdsUniqueUnlessRaced` | `Spec => []UniqueUnlessRaced` | while handlers have not overlapped and the counter was not lost, one at most is running (`OneHandler`), what it has read is the counter (`CounterRead`), and ids in responses and at clients are below the counter and distinct (`GivenIds`) |
| `ClientConfig_proofs!TypeCorrect` | `Spec => []TypeOK` | adds that who is at a file names one, and who goes to read has found it (`FoundFile`): else its path could become `None` |
| `ClientConfig_proofs!OneDirectoryForAll`, `RecordedPathSticks` | `Spec => []OneDirectory`, `Spec => ConfigSticks` | for each file, unless it was truncated under another client: one client at most is about to write it, and it is empty (`OneWriter`); a client past the reading has the path in it, if there is one (`FromFile`) |
| `ClientConfig_proofs!EmptyOnlyIfKilled` | `Spec => []NotLeftEmpty` | inductive relative to the types, races included |

**The latest version.** `LatestEverywhere` speaks of settled states only and is
far from inductive. Two invariants carry it.

`CrawlInv` is about lists: directories above what exists exist (`Closed`), a
list has the times of the disk (`Stamped`), it misses nothing (`Complete`), and
between rounds nothing is left to transfer (`Errands`). A crawl during which
nobody edits thus lists exactly the disk. Downloads of the same client do not
spoil its list, since it is not used for them.

`LatestInv` says where versions are: for every file that was saved there is a
client *k* (where it was saved last) such that every other client has the last
version, which it got from the server, or the one before with an earlier time,
or nothing of a file saved once; so does the server's list, which has *k*'s time
for the last version; only *k* is asked to upload and only the last version is in the queue
(`UploadsLatest`); what is fetched is the last version (`DownloadsLatest`). The
delicate point is that a download is stamped with a time of its own, later than
*k*'s. It does no harm because that client and the server then have the same
hash, which is compared first. The step of the user needs the most: the state
must be settled, so that every replica has version *n* before *n + 1* is saved,
and its time must be later than all of these stamps.

**Whole messages.** `WholeInv` ties each byte stream to both ends: where the
server is in the message of its peer (`ServerAt`), where the client is
(`ClientAt`), that streams of waiting connections are untouched by the server
(`Untouched`), that a closed upload had been written completely (`ClosedSent`),
and that a client has one open connection, which is in the queue (`OneOpen`,
`Attended`). With sizes in one piece each receiver knows the length of the body
and takes exactly that.

`SentInv` says what `WholeInv` leaves open, namely who still has to write:
nothing is received that was not sent, and no size is written in part
(`SentAhead`); a client that has not sent all of its message is in its write
(`SentAll`); a server that answers has had the whole request (`RequestTaken`);
and a client in a transfer has its connection in the queue or is cut off
(`Connected`). If the server waits for bytes its client is writing,
and the socket is empty; if it waits for room its client is receiving, and the
socket is full. The queue of `FileQueue` is read off the same positions.

**Hypotheses.** Each excludes something that the code does not survive.

| hypothesis | says | needed because of |
|---|---|---|
| `NoDirectoryLost` | no `SendDirectory` call is lost and the server does not stop | `phantom_file` |
| `EditsBetweenRounds` | also, users do not edit during their client's round | the contents sent may be newer than the metadata (`uploader.cpp:64`) |
| `TakingTurns` | `NoDirectoryLost`, and users edit settled directories only, in a second of its own | `stale_upload`, `same_second` |
| `~ Pieces` | the eight bytes of a size travel together | `torn_size` |
| `raced`, in `UniqueUnlessRaced` | handlers overlapped or the counter was lost | `ids_race` |
| `raced`, in `OneDirectory` and `ConfigSticks` | the files that a client truncated which had found none there | two starts at once (`client/main.cpp:61`) |
| `killed`, in `NotLeftEmpty` | the files whose writer was killed | a kill between opening and writing (`client/main.cpp:61-62`) |

**Only model-checked.** Liveness is beyond the prover: `RoundsEnd`,
`Synchronises`, `DirectoriesConverge`, `LostUploadsRemade`, `TruthReturns`,
`TransfersEnd`, `EveryClientNamed`, and
the fairness that `PromiseKept` and `QueueKept` add to `StepsKeepPromise`,
`ServesInOrder` and `BytesServeInOrder`. What can be proved of why these hold is
proved: that rounds only come nearer to their end (`RoundsOnlyAdvance`), that
the two ends of a connection never block each other (`NeverBlocked`) and that
who waits for an answer is in the queue (`AnswersMatchRequests`). What is left
to the runs is that steps which stay possible are taken.

## 5. Not modelled

Most of the lines under `src/` are vendored: `src/asio`, `src/CLI11`,
`src/json`, `src/spdlog`, `src/grpc`. They are not this program, and the modules
take from them what its own code relies on. Of `src/DiSy` these are left out:

- An invalid message type (`server.cpp:75-78`): no client sends one. An error of
  `accept`, which only makes the loop go round.
- A `SendDirectory` call whose response is lost while its handler still runs: a
  failed call does nothing here. The handler would go on beside its client.
- Undefined behaviour of memory: iteration over a protobuf map while another
  thread inserts into it, beyond what a loop that sees old and new entries can
  do, and the double free when `sendProto` throws (`uploader.cpp:65`).
- A client killed in the middle of a round of `DiSy`. When it is started again
  it begins a round with the directory it left. In it may be a download that was
  half written, with a fresh time (`writer.hpp:25`): it is then later than the
  server's version and is uploaded, as if a user had saved it. What
  the end of a client does to the connection is in `AsioServer`, to a config file
  in `ClientConfig`.
- A file that a user's program truncates while it is hashed: `getFileHash` then
  reads beyond the end of its mapping (`hashing.hpp:28`) and the client ends with
  a bus error, a kill as above.
- Messages that do not serialise: the result of `SerializeToOstream`
  (`asioNetworking.hpp:52`) is ignored, and a file of 2 GiB or more is sent as a
  message without it. Files are taken to be smaller.
- Config files that cannot be read or created although the name is not empty, or
  that hold something that does not parse, other than nothing: such a start ends
  or goes on with the command line.
- Paths given with and without a trailing slash (`crawler.hpp:34`), and paths
  that are a directory on one machine and a file on another.
- Deletion and file rights, which `documentation.tex:98-103` excludes, and
  errors of `open` and `fstat`, since nothing is ever removed.
- Command line, path check and ports of the server, a second server on the same
  ports, and logging.

Nothing is claimed of contents that were half written when the server stopped,
which `documentation.tex:105` excludes: such a file is listed with its hash when
the server starts again, and with a time that is later than its client's copy.

## 6. Possible extensions

A handler of `SendDirectory` that outlives its call; convergence of contents
after a server stop, for the clients whose copy is not older than the server's
half-written one; a size that comes in pieces in the proofs about `AsioServer`,
for what does hold then.
