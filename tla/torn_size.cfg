SPECIFICATION Spec
CONSTANTS
  Clients = {c1, c2}
  SizeBytes = 2
  Body <- MCBody
  Window = 4
  MaxConns = 2
  Pieces = TRUE
  Garbage <- MCGarbage
INVARIANT MessagesWhole
