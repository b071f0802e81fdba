SPECIFICATION FairSpec
CONSTANTS
  d = d
  e = e
  f = f
  None = None
  Server = server
  Clients = {c1, c2}
  Dirs = {d}
  Files = {f}
  Above <- MCAbove
  Hashes <- MCHashes
  Digest <- MCDigest
  Fast = {}
  Skew <- MCSkew
  TimeModulus = 64
  SkewLimit = 2
  Editors = {c1}
  Mixtures = {}
  EditWhen = "betweenRounds"
  Faults = {"stop", "SendDirectory"}
  MaxEdits = 1
  MaxTime = 1
  MaxFaults = 2
  MaxConns = 2
INVARIANTS OneAnswer IndexedDirsExist
PROPERTIES RoundsEnd RoundsAdvance DirectoriesConverge LostUploadsRemade QueueKept
