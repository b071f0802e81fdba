---------------------------- MODULE ClientConfig ----------------------------
(***************************************************************************)
(* Start-up of the client program: main, up to the constructor of Client.  *)
(* The command line gives a directory or leaves the default, and names a   *)
(* config file: config.json in the working directory if no other, or none  *)
(* at all.  The directory in the file overrides the one given; a file that *)
(* cannot be opened is written.  Clients that name one file share it,      *)
(* nothing locks it, and it outlives them.  The addresses and the debug    *)
(* flag go the way of the directory.  Config files are taken to lie where  *)
(* they can be read and created.                                           *)
(***************************************************************************)
EXTENDS Integers

CONSTANTS
  Clients,
  Paths,     \* directories a user may want to synchronise
  Default,   \* the path that is taken when none is given
  Configs,   \* names of config files
  NoConfig,  \* the empty name, with which no config file is looked at
  None,      \* there is no such file
  Empty,     \* it has been opened for writing and not yet written
  NoPath,    \* a user wrote it and left the path out
  MaxStarts  \* bound on the number of starts

ASSUME ConfigAssumption ==
  /\ Default \in Paths
  /\ NoConfig \notin Configs
  /\ {None, Empty, NoPath} \cap Paths = {}
  /\ None # Empty /\ None # NoPath /\ Empty # NoPath
  /\ MaxStarts \in Nat

VARIABLES
  config,  \* config[k]: None, Empty, NoPath or the path that file k holds
  exists,  \* the paths that are directories
  pc,      \* pc[c]: where c's process is in main
  file,    \* file[c]: its variable config
  path,    \* path[c]: its variable path
  starts,  \* starts so far
  raced,   \* history: the files truncated by a client that had found none
  killed   \* history: the files whose writer was stopped before it wrote

vars == <<config, exists, pc, file, path, starts, raced, killed>>

PCs == {"off", "config", "read", "create", "write", "check", "running"}

TypeOK ==
  /\ config \in [Configs -> Paths \cup {None, Empty, NoPath}]
  /\ exists \subseteq Paths
  /\ pc \in [Clients -> PCs]
  /\ file \in [Clients -> Configs \cup {NoConfig}]
  /\ path \in [Clients -> Paths]
  /\ starts \in Nat
  /\ raced \subseteq Configs
  /\ killed \subseteq Configs

Init ==
  /\ config \in [Configs -> Paths \cup {None, NoPath}]
  /\ exists \in SUBSET Paths
  /\ pc = [c \in Clients |-> "off"]
  /\ file = [c \in Clients |-> NoConfig]
  /\ path = [c \in Clients |-> Default]
  /\ starts = 0
  /\ raced = {}
  /\ killed = {}

Go(c, from, to) ==
  /\ pc[c] = from
  /\ pc' = [pc EXCEPT ![c] = to]

-----------------------------------------------------------------------------
\* CLI11_PARSE returns unless the directory that is given exists; the default
\* and the config file are not looked at.
Start(c, p, k) ==
  /\ starts < MaxStarts
  /\ p = Default \/ p \in exists
  /\ Go(c, "off", "config")
  /\ file' = [file EXCEPT ![c] = k]
  /\ path' = [path EXCEPT ![c] = p]
  /\ starts' = starts + 1
  /\ UNCHANGED <<config, exists, raced, killed>>

\* config == "": the command line alone decides.
SkipConfig(c) ==
  /\ file[c] = NoConfig
  /\ Go(c, "config", "check")
  /\ UNCHANGED <<config, exists, file, path, starts, raced, killed>>

OpenConfig(c) ==
  /\ file[c] # NoConfig
  /\ Go(c, "config", IF config[file[c]] = None THEN "create" ELSE "read")
  /\ UNCHANGED <<config, exists, file, path, starts, raced, killed>>

\* Mutants: a directory given on the command line is kept, or saved; a path is
\* taken from a file that has none.
ReadConfigAsDefault(c) ==
  /\ Go(c, "read", "check")
  /\ config[file[c]] # Empty
  /\ path' = [path EXCEPT ![c] = IF @ = Default /\ config[file[c]] # NoPath THEN config[file[c]] ELSE @]
  /\ UNCHANGED <<config, exists, file, starts, raced, killed>>
ReadConfigAndSave(c) ==
  /\ Go(c, "read", "check")
  /\ config[file[c]] # Empty
  /\ config' = [config EXCEPT ![file[c]] = path[c]]
  /\ UNCHANGED <<exists, file, path, starts, raced, killed>>
ReadPathAnyway(c) ==
  /\ Go(c, "read", "check")
  /\ config[file[c]] # Empty
  /\ path' = [path EXCEPT ![c] = config[file[c]]]
  /\ UNCHANGED <<config, exists, file, starts, raced, killed>>

\* j.value("path", path) keeps the path given if the file has none.
ReadConfig(c) ==
  /\ Go(c, "read", "check")
  /\ config[file[c]] # Empty
  /\ path' = [path EXCEPT ![c] = IF config[file[c]] = NoPath THEN @ ELSE config[file[c]]]
  /\ UNCHANGED <<config, exists, file, starts, raced, killed>>

\* The parser throws on an empty file and nothing catches it.
ParseError(c) ==
  /\ Go(c, "read", "off")
  /\ config[file[c]] = Empty
  /\ UNCHANGED <<config, exists, file, path, starts, raced, killed>>

\* The ofstream truncates what is there ...
CreateConfig(c) ==
  /\ Go(c, "create", "write")
  /\ config' = [config EXCEPT ![file[c]] = Empty]
  /\ raced' = raced \cup {k \in {file[c]} : config[k] # None}
  /\ UNCHANGED <<exists, file, path, starts, killed>>

\* ... and is written and flushed later.
WriteConfig(c) ==
  /\ Go(c, "write", "check")
  /\ config' = [config EXCEPT ![file[c]] = path[c]]
  /\ UNCHANGED <<exists, file, path, starts, raced, killed>>

\* Mutant: the path is checked before the file is written.
CheckBeforeWrite(c) ==
  /\ \/ Go(c, "check", IF path[c] \in exists THEN "running" ELSE "off")
     \/ path[c] \notin exists /\ Go(c, "write", "off")
  /\ UNCHANGED <<config, exists, file, path, starts, raced, killed>>

CheckPath(c) ==
  /\ Go(c, "check", IF path[c] \in exists THEN "running" ELSE "off")
  /\ UNCHANGED <<config, exists, file, path, starts, raced, killed>>

\* The user stops the program.
Kill(c) ==
  /\ pc[c] # "off"
  /\ pc' = [pc EXCEPT ![c] = "off"]
  /\ killed' = killed \cup {k \in {file[c]} : pc[c] = "write"}
  /\ UNCHANGED <<config, exists, file, path, starts, raced>>

\* The user creates a directory.
MakeDirectory(p) ==
  /\ p \notin exists
  /\ exists' = exists \cup {p}
  /\ UNCHANGED <<config, pc, file, path, starts, raced, killed>>

ClientStep(c) ==
  \/ SkipConfig(c)
  \/ OpenConfig(c)
  \/ ReadConfig(c)
  \/ ParseError(c)
  \/ CreateConfig(c)
  \/ WriteConfig(c)
  \/ CheckPath(c)

\* All starts are used up and no process is left.
Done == starts = MaxStarts /\ (\A c \in Clients : pc[c] = "off") /\ UNCHANGED vars

Next ==
  \/ \E c \in Clients : ClientStep(c) \/ Kill(c)
  \/ \E c \in Clients, p \in Paths, k \in Configs \cup {NoConfig} : Start(c, p, k)
  \/ \E p \in Paths : MakeDirectory(p)
  \/ Done

Spec == Init /\ [][Next]_vars

-----------------------------------------------------------------------------
\* Clients that run with one config file synchronise one directory, the one the
\* file holds, whatever they were given on the command line.  The exceptions
\* are a file from which its user left the path out, and one that a client
\* truncated after another had written it.  Clients with other files, or with
\* none, go their own way, in the same working directory too.
OneDirectory ==
  \A c \in Clients :
    pc[c] = "running" /\ file[c] \in Configs \ raced => config[file[c]] \in {path[c], NoPath}

\* What the first start has recorded stays, also when that start found that its
\* path is no directory, and so does what a user wrote: with the same exception,
\* no start changes the file.
ConfigSticks ==
  [][\A k \in Configs \ raced' : config[k] \notin {None, Empty} => config'[k] = config[k]]_vars

\* A config file without contents, on which every later start fails, is one
\* that is being written, unless a client was stopped before it wrote.
NotLeftEmpty ==
  \A k \in Configs \ killed :
    config[k] = Empty => \E c \in Clients : pc[c] = "write" /\ file[c] = k

=============================================================================
