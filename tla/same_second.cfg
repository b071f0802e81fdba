SPECIFICATION FairSpec
CONSTANTS
  d = d
  e = e
  f = f
  None = None
  Server = server
  Clients = {c1}
  Dirs = {d}
  Files = {f}
  Above <- MCAbove
  Hashes <- MCHashes
  Digest <- MCDigest
  Fast = {}
  Skew <- MCSkew
  TimeModulus = 64
  SkewLimit = 2
  Editors = {c1}
  Mixtures = {}
  EditWhen = "betweenRounds"
  Faults = {}
  MaxEdits = 2
  MaxTime = 2
  MaxFaults = 0
  MaxConns = 2
PROPERTY Synchronises
