SPECIFICATION Spec
CONSTANTS
  None = None
  Empty = Empty
  NoPath = NoPath
  NoConfig = NoConfig
  Default = Default
  Clients = {c1, c2, c3}
  Paths = {Default, other}
  Configs = {config, another}
  MaxStarts = 4
SYMMETRY AnyClient
INVARIANTS TypeOK OneDirectory NotLeftEmpty
PROPERTY ConfigSticks
