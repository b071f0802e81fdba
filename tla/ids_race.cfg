SPECIFICATION Spec
CONSTANTS
  None = None
  Clients = {c1, c2}
  Faults = {"restart"}
  MaxFaults = 1
INVARIANT UniqueIds
