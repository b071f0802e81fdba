SPECIFICATION FairSpec
CONSTANTS
  d = d
  e = e
  f = f
  None = None
  Server = server
  Clients = {c1, c2}
  Dirs = {d}
  Files = {f}
  Above <- MCAbove
  Hashes <- MCHashes
  Digest <- MCDigest
  Fast = {c1}
  Skew <- MCSkew
  TimeModulus = 3
  SkewLimit = 2
  Editors = {c1, c2}
  Mixtures = {}
  EditWhen = "settled"
  Faults = {"Update", "GetDirectory"}
  MaxEdits = 2
  MaxTime = 3
  MaxFaults = 1
  MaxConns = 2
INVARIANT LatestEverywhere
PROPERTIES PromiseKept Synchronises UploadsAreNewer
