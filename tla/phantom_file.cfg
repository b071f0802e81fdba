SPECIFICATION Spec
CONSTANTS
  d = d
  e = e
  f = f
  None = None
  Server = server
  Clients = {c1, c2}
  Dirs = {d}
  Files = {f}
  Above <- MCAbove
  Hashes <- MCHashes
  Digest <- MCDigest
  Fast = {}
  Skew <- MCSkew
  TimeModulus = 64
  SkewLimit = 2
  Editors = {c1}
  Mixtures = {}
  EditWhen = "betweenRounds"
  Faults = {"SendDirectory"}
  MaxEdits = 1
  MaxTime = 1
  MaxFaults = 1
  MaxConns = 2
INVARIANT IndexedFilesExist
