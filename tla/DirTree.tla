------------------------------ MODULE DirTree ------------------------------
(***************************************************************************)
(* The DirTree message that client and server exchange, the comparison of  *)
(* two trees that Server::processUpdate makes, and the clock check that    *)
(* guards it.  Paths are opaque; only which directories lie above a path   *)
(* matters.  A protobuf map is a set of directories, or a function on      *)
(* Files that is None where the map has no entry.                        *)
(***************************************************************************)
EXTENDS Integers

CONSTANTS
  Dirs,         \* relative paths of directories
  Files,        \* relative paths of regular files
  Above,        \* Above[p]: every directory strictly between the root and p
  Hashes,       \* the values getFileHash can return
  None,         \* no entry in a map, no such file, no value
  TimeModulus,  \* 2^32 in the code: times are compared as uint32_t
  SkewLimit     \* 1000 in the code: seconds a client's clock may be off

Paths == Dirs \cup Files

\* One entry of the files map.  mtime is last_modified_time.
Metadata == [mtime : Nat, hash : Hashes]

FileMap == [Files -> Metadata \cup {None}]

Trees == [dirs : SUBSET Dirs, files : FileMap]

EmptyTree == [dirs |-> {}, files |-> [f \in Files |-> None]]

\* A path names the same kind of object on every machine, and the
\* directories above a path are closed upwards.
ASSUME PathsAssumption ==
  /\ Dirs \cap Files = {}
  /\ Above \in [Paths -> SUBSET Dirs]
  /\ \A p \in Paths : \A d \in Above[p] : Above[d] \subseteq Above[p] \ {d}

ASSUME NoneAssumption == None \notin Metadata

ASSUME ClockAssumption ==
  /\ TimeModulus \in Nat \ {0}
  /\ SkewLimit \in Nat

-----------------------------------------------------------------------------

\* The directory loops: what one tree has and the other has not.
MissingDirs(from, to) == from.dirs \ to.dirs

\* Mutants: the times are not compared, or the wrong way round.
DiffersFrom(new, old) == new.hash # old.hash
Precedes(new, old) == new.mtime < old.mtime /\ new.hash # old.hash

\* A version replaces another when it is later and has different contents.
Supersedes(new, old) == new.mtime > old.mtime /\ new.hash # old.hash

\* Mutant: a path that is new to the other side is not wanted.
KnownWanted(from, to) ==
  {f \in Files : from.files[f] # None /\ to.files[f] # None /\ Supersedes(from.files[f], to.files[f])}

\* The file loops: the entries of from that are absent from to or supersede
\* the entry there.
WantedFiles(from, to) ==
  {f \in Files :
     /\ from.files[f] # None
     /\ to.files[f] = None \/ Supersedes(from.files[f], to.files[f])}

Uint32(t) == t % TimeModulus

\* max - min < 1000 on the truncated clocks.
ClientApproved(serverTime, clientTime) ==
  LET s == Uint32(serverTime)
      c == Uint32(clientTime)
  IN  /\ s - c < SkewLimit
      /\ c - s < SkewLimit

=============================================================================
