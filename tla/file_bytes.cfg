SPECIFICATION FairSpec
CONSTANTS
  Clients = {c1, c2}
  SizeBytes = 2
  Body <- MCBody
  Window = 4
  MaxConns = 2
  Pieces = FALSE
  Garbage <- MCGarbage
INVARIANTS TypeOK MessagesWhole NeverBothBlocked
PROPERTIES ThreadOutlivesClients TransfersEnd QueueKept
