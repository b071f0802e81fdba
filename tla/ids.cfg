SPECIFICATION FairSpec
CONSTANTS
  None = None
  Clients = {c1, c2, c3}
  Faults = {"call", "restart"}
  MaxFaults = 2
INVARIANTS TypeOK UniqueUnlessRaced
PROPERTY EveryClientNamed
