SPECIFICATION FairSpec
CONSTANTS
  d = d
  e = e
  f = f
  None = None
  Server = server
  Clients = {c1, c2}
  Dirs = {d}
  Files = {f}
  Above <- MCAbove
  Hashes <- MCHashes
  Digest <- MCDigest
  Fast = {}
  Skew <- MCSkew
  TimeModulus = 64
  SkewLimit = 2
  Editors = {c1}
  Mixtures = {mixed}
  EditWhen = "anytime"
  Faults = {}
  MaxEdits = 1
  MaxTime = 2
  MaxFaults = 0
  MaxConns = 2
INVARIANTS TypeOK UploadsLand OnlySavedContents IndexedFilesExist
PROPERTIES QueueInOrder TruthReturns
