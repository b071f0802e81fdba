------------------------- MODULE ClientConfig_proofs -------------------------
(***************************************************************************)
(* Theorems about clients that share config files.                         *)
(***************************************************************************)
EXTENDS ClientConfig, TLAPS

\* Who is at a file has its name, and who goes to read has found it; files are
\* not removed.
FoundFile ==
  \A c \in Clients :
    /\ pc[c] \in {"read", "create", "write"} => file[c] \in Configs
    /\ pc[c] = "read" => config[file[c]] # None

TypeInv == TypeOK /\ FoundFile

\* Unless a file was truncated that another client had written, a client that
\* is about to write it is alone and the file is empty ...
OneWriter ==
  \A c \in Clients :
    pc[c] = "write" /\ file[c] \notin raced =>
      /\ config[file[c]] = Empty
      /\ \A b \in Clients : pc[b] = "write" /\ file[b] = file[c] => b = c

\* ... and a client that has its directory has the one in the file, if any.
FromFile ==
  \A c \in Clients :
    pc[c] \in {"check", "running"} /\ file[c] \in Configs \ raced =>
      config[file[c]] \in {path[c], NoPath}

ConfigInv == OneWriter /\ FromFile

-----------------------------------------------------------------------------
LEMMA OneStep ==
  ASSUME TypeOK, NEW c \in Clients, NEW from, NEW to \in PCs, Go(c, from, to)
  PROVE  /\ pc[c] = from /\ pc' \in [Clients -> PCs] /\ pc'[c] = to
         /\ \A b \in Clients : b # c => pc'[b] = pc[b]
BY DEF Go, TypeOK

LEMMA ConfigInit == Init => TypeInv /\ ConfigInv
<1> SUFFICES ASSUME Init PROVE TypeInv /\ ConfigInv
  OBVIOUS
<1>1. \A c \in Clients : pc[c] = "off"
  BY DEF Init
<1>2. FoundFile /\ ConfigInv
  BY <1>1 DEF FoundFile, ConfigInv, OneWriter, FromFile
<1>3. /\ config \in [Configs -> Paths \cup {None, Empty, NoPath}]
      /\ exists \subseteq Paths /\ starts \in Nat
  BY DEF Init
<1>4. /\ pc \in [Clients -> PCs] /\ path \in [Clients -> Paths]
      /\ file \in [Clients -> Configs \cup {NoConfig}]
  BY ConfigAssumption DEF Init, PCs
<1>5. raced \subseteq Configs /\ killed \subseteq Configs
  BY DEF Init
<1> QED
  BY <1>2, <1>3, <1>4, <1>5 DEF TypeInv, TypeOK

LEMMA StartType ==
  ASSUME TypeInv, NEW c \in Clients, NEW p \in Paths, NEW k \in Configs \cup {NoConfig},
         Start(c, p, k)
  PROVE  TypeInv'
<1>1. /\ pc' \in [Clients -> PCs] /\ pc'[c] = "config"
      /\ \A b \in Clients : b # c => pc'[b] = pc[b] /\ file'[b] = file[b]
  BY OneStep DEF Start, TypeInv, TypeOK, PCs
<1>2. /\ UNCHANGED <<config, exists, raced, killed>> /\ starts' \in Nat
      /\ path' \in [Clients -> Paths] /\ file' \in [Clients -> Configs \cup {NoConfig}]
  BY DEF Start, TypeInv, TypeOK
<1>3. FoundFile'
  BY <1>1, <1>2 DEF TypeInv, FoundFile
<1> QED
  BY <1>1, <1>2, <1>3 DEF TypeInv, TypeOK

\* A step of one client that leaves the files alone.
LEMMA QuietType ==
  ASSUME TypeInv, NEW c \in Clients, NEW from, NEW to \in PCs, Go(c, from, to),
         to \in {"read", "create"} => file[c] \in Configs,
         to = "read" => config[file[c]] # None,
         to # "write",
         UNCHANGED <<config, file>>
  PROVE  pc' \in [Clients -> PCs] /\ FoundFile'
<1>1. /\ pc' \in [Clients -> PCs] /\ pc'[c] = to
      /\ \A b \in Clients : b # c => pc'[b] = pc[b]
  BY OneStep DEF TypeInv
<1> QED
  BY <1>1 DEF TypeInv, FoundFile

LEMMA ClientStepType ==
  ASSUME TypeInv, NEW c \in Clients, ClientStep(c)
  PROVE  TypeInv'
<1> USE DEF TypeInv, PCs
<1>1. CASE SkipConfig(c)
  BY <1>1, QuietType DEF SkipConfig, TypeOK
<1>2. CASE OpenConfig(c)
  <2>1. file[c] \in Configs
    BY <1>2 DEF OpenConfig, TypeOK
  <2>2. CASE config[file[c]] = None
    <3>1. Go(c, "config", "create")
      BY <1>2, <2>2 DEF OpenConfig
    <3> QED
      BY <1>2, <2>1, <3>1, QuietType DEF OpenConfig, TypeOK
  <2>3. CASE config[file[c]] # None
    <3>1. Go(c, "config", "read")
      BY <1>2, <2>3 DEF OpenConfig
    <3> QED
      BY <1>2, <2>1, <2>3, <3>1, QuietType DEF OpenConfig, TypeOK
  <2> QED
    BY <2>2, <2>3
<1>3. CASE ReadConfig(c)
  <2>1. pc[c] = "read" /\ file[c] \in Configs
    BY <1>3 DEF ReadConfig, Go, FoundFile
  <2>2. config[file[c]] \in Paths \cup {NoPath}
    BY <1>3, <2>1 DEF ReadConfig, TypeOK, FoundFile
  <2>3. path' \in [Clients -> Paths]
    BY <1>3, <2>2 DEF ReadConfig, TypeOK
  <2>4. pc' \in [Clients -> PCs] /\ FoundFile'
    BY <1>3, QuietType DEF ReadConfig
  <2> QED
    BY <1>3, <2>3, <2>4 DEF ReadConfig, TypeOK
<1>4. CASE ParseError(c)
  BY <1>4, QuietType DEF ParseError, TypeOK
<1>5. CASE CreateConfig(c)
  <2>1. /\ pc[c] = "create" /\ pc' \in [Clients -> PCs] /\ pc'[c] = "write"
        /\ \A b \in Clients : b # c => pc'[b] = pc[b]
    BY <1>5, OneStep DEF CreateConfig
  <2>2. file[c] \in Configs
    BY <2>1 DEF FoundFile
  <2>3. /\ config' \in [Configs -> Paths \cup {None, Empty, NoPath}]
        /\ \A k \in Configs : config'[k] = None => config[k] = None
    BY <1>5, <2>2, ConfigAssumption DEF CreateConfig, TypeOK
  <2>4. FoundFile'
    BY <1>5, <2>1, <2>2, <2>3 DEF CreateConfig, FoundFile
  <2>5. raced' \subseteq Configs
    BY <1>5, <2>2 DEF CreateConfig, TypeOK
  <2> QED
    BY <1>5, <2>1, <2>3, <2>4, <2>5 DEF CreateConfig, TypeOK
<1>6. CASE WriteConfig(c)
  <2>1. /\ pc[c] = "write" /\ pc' \in [Clients -> PCs] /\ pc'[c] = "check"
        /\ \A b \in Clients : b # c => pc'[b] = pc[b]
    BY <1>6, OneStep DEF WriteConfig
  <2>2. file[c] \in Configs /\ path[c] \in Paths
    BY <2>1 DEF FoundFile, TypeOK
  <2>3. /\ config' \in [Configs -> Paths \cup {None, Empty, NoPath}]
        /\ \A k \in Configs : config'[k] = None => config[k] = None
    BY <1>6, <2>2, ConfigAssumption DEF WriteConfig, TypeOK
  <2>4. FoundFile'
    BY <1>6, <2>1, <2>3 DEF WriteConfig, FoundFile
  <2> QED
    BY <1>6, <2>1, <2>3, <2>4 DEF WriteConfig, TypeOK
<1>7. CASE CheckPath(c)
  <2>1. PICK to \in {"running", "off"} : Go(c, "check", to)
    BY <1>7 DEF CheckPath
  <2> QED
    BY <1>7, <2>1, QuietType DEF CheckPath, TypeOK
<1> QED
  BY <1>1, <1>2, <1>3, <1>4, <1>5, <1>6, <1>7 DEF ClientStep

LEMMA UserStepType ==
  ASSUME TypeInv,
         \/ \E c \in Clients : Kill(c)
         \/ \E p \in Paths : MakeDirectory(p)
         \/ UNCHANGED vars
  PROVE  TypeInv'
<1>1. ASSUME NEW c \in Clients, Kill(c) PROVE TypeInv'
  <2>1. killed' \subseteq Configs
    BY <1>1 DEF Kill, TypeInv, TypeOK, FoundFile
  <2> QED
    BY <1>1, <2>1 DEF Kill, TypeInv, TypeOK, FoundFile, PCs
<1>2. CASE (\E p \in Paths : MakeDirectory(p)) \/ UNCHANGED vars
  BY <1>2 DEF MakeDirectory, vars, TypeInv, TypeOK, FoundFile
<1> QED
  BY <1>1, <1>2

\* Every variable keeps its type; that path stays a path when a file is read
\* needs that nobody reads a file that is not there.
THEOREM TypeCorrect == Spec => []TypeOK
<1>1. Init => TypeInv
  BY ConfigInit
<1>2. TypeInv /\ [Next]_vars => TypeInv'
  BY StartType, ClientStepType, UserStepType DEF Next, Done
<1>3. TypeInv => TypeOK
  BY DEF TypeInv
<1> QED
  BY <1>1, <1>2, <1>3, PTL DEF Spec

-----------------------------------------------------------------------------
LEMMA StartConfig ==
  ASSUME TypeInv, ConfigInv, NEW c \in Clients, NEW p \in Paths,
         NEW k \in Configs \cup {NoConfig}, Start(c, p, k)
  PROVE  ConfigInv'
<1>1. /\ pc'[c] = "config"
      /\ \A b \in Clients : b # c =>
           pc'[b] = pc[b] /\ path'[b] = path[b] /\ file'[b] = file[b]
  BY OneStep DEF Start, TypeInv, TypeOK, PCs
<1>2. UNCHANGED <<config, raced>>
  BY DEF Start
<1> QED
  BY <1>1, <1>2 DEF ConfigInv, OneWriter, FromFile

\* A client that goes to a place that is neither "write" nor behind the reading
\* of the file.
LEMMA AsideConfig ==
  ASSUME ConfigInv, NEW c \in Clients, pc'[c] \notin {"write", "check", "running"},
         \A b \in Clients : b # c => pc'[b] = pc[b],
         UNCHANGED <<config, file, path, raced>>
  PROVE  ConfigInv'
BY DEF ConfigInv, OneWriter, FromFile

LEMMA ClientStepConfig ==
  ASSUME TypeInv, ConfigInv, NEW c \in Clients, ClientStep(c)
  PROVE  ConfigInv'
<1> USE DEF PCs
<1>1. CASE SkipConfig(c)
  <2>1. pc'[c] = "check" /\ \A b \in Clients : b # c => pc'[b] = pc[b]
    BY <1>1, OneStep DEF SkipConfig, TypeInv
  <2>2. file[c] \notin Configs
    BY <1>1, ConfigAssumption DEF SkipConfig
  <2> QED
    BY <1>1, <2>1, <2>2 DEF SkipConfig, ConfigInv, OneWriter, FromFile
<1>2. CASE OpenConfig(c)
  <2>1. pc'[c] \in {"create", "read"} /\ \A b \in Clients : b # c => pc'[b] = pc[b]
    BY <1>2, OneStep DEF OpenConfig, TypeInv
  <2> QED
    BY <1>2, <2>1, AsideConfig DEF OpenConfig
<1>3. CASE ReadConfig(c)
  <2>1. /\ pc'[c] = "check" /\ config[file[c]] \in {path'[c], NoPath}
        /\ \A b \in Clients : b # c => pc'[b] = pc[b] /\ path'[b] = path[b]
    BY <1>3, OneStep DEF ReadConfig, TypeInv, TypeOK
  <2> QED
    BY <1>3, <2>1 DEF ReadConfig, ConfigInv, OneWriter, FromFile
<1>4. CASE ParseError(c)
  <2>1. pc'[c] = "off" /\ \A b \in Clients : b # c => pc'[b] = pc[b]
    BY <1>4, OneStep DEF ParseError, TypeInv
  <2> QED
    BY <1>4, <2>1, AsideConfig DEF ParseError
<1>5. CASE CreateConfig(c)
  <2>1. pc[c] = "create" /\ pc'[c] = "write" /\ \A b \in Clients : b # c => pc'[b] = pc[b]
    BY <1>5, OneStep DEF CreateConfig, TypeInv
  <2>2. /\ file[c] \in Configs /\ UNCHANGED <<file, path>> /\ raced \subseteq raced'
        /\ config'[file[c]] = Empty
        /\ \A k \in Configs : k # file[c] => config'[k] = config[k]
    BY <1>5, <2>1 DEF CreateConfig, TypeInv, TypeOK, FoundFile
  <2>3. file[c] \notin raced' => config[file[c]] = None
    BY <1>5 DEF CreateConfig
  <2>4. file[c] \notin raced' =>
          \A b \in Clients : file[b] = file[c] => pc[b] \notin {"write", "check", "running"}
    BY <2>2, <2>3, ConfigAssumption DEF ConfigInv, OneWriter, FromFile, TypeInv, TypeOK
  <2>5. \A b \in Clients : pc[b] = "write" => file[b] \in Configs
    BY DEF TypeInv, FoundFile
  <2>6. OneWriter'
    BY <2>1, <2>2, <2>4, <2>5 DEF ConfigInv, OneWriter
  <2>7. FromFile'
    BY <2>1, <2>2, <2>4 DEF ConfigInv, FromFile
  <2> QED
    BY <2>6, <2>7 DEF ConfigInv
<1>6. CASE WriteConfig(c)
  <2>1. pc[c] = "write" /\ pc'[c] = "check" /\ \A b \in Clients : b # c => pc'[b] = pc[b]
    BY <1>6, OneStep DEF WriteConfig, TypeInv
  <2>2. /\ file[c] \in Configs /\ UNCHANGED <<file, path, raced>>
        /\ config'[file[c]] = path[c]
        /\ \A k \in Configs : k # file[c] => config'[k] = config[k]
    BY <1>6, <2>1 DEF WriteConfig, TypeInv, TypeOK, FoundFile
  <2>3. file[c] \notin raced =>
          \A b \in Clients : b # c /\ file[b] = file[c] => pc[b] \notin {"write", "check", "running"}
    BY <2>1, <2>2, ConfigAssumption DEF ConfigInv, OneWriter, FromFile, TypeInv, TypeOK
  <2>4. \A b \in Clients : pc[b] = "write" => file[b] \in Configs
    BY DEF TypeInv, FoundFile
  <2>5. OneWriter'
    BY <2>1, <2>2, <2>3, <2>4 DEF ConfigInv, OneWriter
  <2>6. FromFile'
    BY <2>1, <2>2, <2>3 DEF ConfigInv, FromFile
  <2> QED
    BY <2>5, <2>6 DEF ConfigInv
<1>7. CASE CheckPath(c)
  <2>1. /\ pc[c] = "check" /\ pc'[c] \in {"running", "off"}
        /\ \A b \in Clients : b # c => pc'[b] = pc[b]
    BY <1>7, OneStep DEF CheckPath, TypeInv
  <2> QED
    BY <1>7, <2>1 DEF CheckPath, ConfigInv, OneWriter, FromFile
<1> QED
  BY <1>1, <1>2, <1>3, <1>4, <1>5, <1>6, <1>7 DEF ClientStep

LEMMA UserStepConfig ==
  ASSUME TypeInv, ConfigInv,
         \/ \E c \in Clients : Kill(c)
         \/ \E p \in Paths : MakeDirectory(p)
         \/ UNCHANGED vars
  PROVE  ConfigInv'
<1>1. ASSUME NEW c \in Clients, Kill(c) PROVE ConfigInv'
  BY <1>1, AsideConfig DEF Kill, TypeInv, TypeOK
<1>2. CASE (\E p \in Paths : MakeDirectory(p)) \/ UNCHANGED vars
  BY <1>2 DEF MakeDirectory, vars, ConfigInv, OneWriter, FromFile
<1> QED
  BY <1>1, <1>2

LEMMA ConfigStep == TypeInv /\ ConfigInv /\ [Next]_vars => TypeInv' /\ ConfigInv'
BY StartType, ClientStepType, UserStepType, StartConfig, ClientStepConfig, UserStepConfig
DEF Next, Done

\* Whatever directories and config files clients are started with, however many
\* start, stop or crash: those that run with one config file synchronise the
\* directory in it, unless it holds none, or two clients found no such file and
\* one truncated what the other had made.
THEOREM OneDirectoryForAll == Spec => []OneDirectory
<1>1. ConfigInv => OneDirectory
  BY DEF ConfigInv, FromFile, OneDirectory
<1> QED
  BY <1>1, ConfigInit, ConfigStep, PTL DEF Spec

LEMMA StepSticks ==
  TypeInv /\ ConfigInv /\ [Next]_vars =>
    \A k \in Configs \ raced' : config[k] \notin {None, Empty} => config'[k] = config[k]
<1> SUFFICES ASSUME TypeInv, ConfigInv, [Next]_vars,
                    NEW k \in Configs \ raced', config[k] \notin {None, Empty}
             PROVE  config'[k] = config[k]
  OBVIOUS
<1>1. ASSUME NEW c \in Clients, CreateConfig(c) PROVE config'[k] = config[k]
  <2>1. file[c] # k
    BY <1>1 DEF CreateConfig
  <2> QED
    BY <1>1, <2>1 DEF CreateConfig, TypeInv, TypeOK
<1>2. ASSUME NEW c \in Clients, WriteConfig(c) PROVE config'[k] = config[k]
  <2>1. file[c] # k
    BY <1>2 DEF WriteConfig, Go, ConfigInv, OneWriter
  <2> QED
    BY <1>2, <2>1 DEF WriteConfig, TypeInv, TypeOK
<1> QED
  BY <1>1, <1>2
  DEF Next, ClientStep, Start, SkipConfig, OpenConfig, ReadConfig, ParseError, CheckPath, Kill,
      MakeDirectory, Done, vars

\* With the exception of the truncated file no start changes what a config file
\* holds.
THEOREM RecordedPathSticks == Spec => ConfigSticks
BY ConfigInit, ConfigStep, StepSticks, PTL DEF Spec, ConfigSticks

\* An empty config file, on which every start that names it fails, is about to
\* be written, or its writer was killed: with races too.
THEOREM EmptyOnlyIfKilled == Spec => []NotLeftEmpty
<1>1. Init => NotLeftEmpty
  BY ConfigAssumption DEF Init, NotLeftEmpty
<1>2. TypeInv /\ NotLeftEmpty /\ [Next]_vars => NotLeftEmpty'
  <2> SUFFICES ASSUME TypeInv, NotLeftEmpty, [Next]_vars,
                      NEW k \in Configs \ killed', config'[k] = Empty
               PROVE  \E c \in Clients : pc'[c] = "write" /\ file'[c] = k
    BY DEF NotLeftEmpty
  <2>1. ASSUME NEW c \in Clients, CreateConfig(c), file[c] = k
        PROVE  pc'[c] = "write" /\ file'[c] = k
    BY <2>1, OneStep DEF CreateConfig, TypeInv, PCs
  <2>2. ASSUME NEW c \in Clients, WriteConfig(c) PROVE file[c] # k
    BY <2>2, ConfigAssumption DEF WriteConfig, TypeInv, TypeOK
  <2>3. ASSUME ~ \E c \in Clients : CreateConfig(c) /\ file[c] = k
        PROVE  /\ config[k] = Empty /\ k \notin killed
               /\ \A b \in Clients : pc[b] = "write" /\ file[b] = k =>
                    pc'[b] = "write" /\ file'[b] = k
    <3>1. ASSUME NEW c \in Clients, NEW p \in Paths, NEW n \in Configs \cup {NoConfig},
                 Start(c, p, n)
          PROVE  /\ config[k] = Empty /\ k \notin killed
                 /\ \A b \in Clients : pc[b] = "write" /\ file[b] = k =>
                      pc'[b] = "write" /\ file'[b] = k
      BY <3>1 DEF Start, Go, TypeInv, TypeOK
    <3>2. ASSUME NEW c \in Clients, Kill(c)
          PROVE  /\ config[k] = Empty /\ k \notin killed
                 /\ \A b \in Clients : pc[b] = "write" /\ file[b] = k =>
                      pc'[b] = "write" /\ file'[b] = k
      BY <3>2 DEF Kill, TypeInv, TypeOK
    <3>3. ASSUME NEW c \in Clients, ClientStep(c)
          PROVE  /\ config[k] = Empty /\ k \notin killed
                 /\ \A b \in Clients : pc[b] = "write" /\ file[b] = k =>
                      pc'[b] = "write" /\ file'[b] = k
      BY <2>2, <2>3, <3>3
      DEF ClientStep, SkipConfig, OpenConfig, ReadConfig, ParseError, CreateConfig, WriteConfig,
          CheckPath, Go, TypeInv, TypeOK
    <3>4. CASE (\E p \in Paths : MakeDirectory(p)) \/ UNCHANGED vars
      BY <3>4 DEF MakeDirectory, vars
    <3> QED
      BY <3>1, <3>2, <3>3, <3>4 DEF Next, Done
  <2> QED
    BY <2>1, <2>3 DEF NotLeftEmpty
<1> QED
  BY <1>1, <1>2, ConfigInit, ConfigStep, PTL DEF Spec

=============================================================================
