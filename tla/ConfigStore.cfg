SPECIFICATION Spec
CONSTANTS
  Clients = {c1, c2}
  Forms = {f1, f2}
  FirstForm = f1
  Unsafe = {f2}
  Levels = {1, 2}
  FirstLevel = 1
  Requests = {"config", "flag", "log", "direct"}
  Faults = {"crash", "disk"}
  Nobody = Nobody
  Empty = Empty
  Mixed = Mixed
  Missing = Missing
INVARIANT ConfigWhole
INVARIANT MemoryPersisted
INVARIANT FlagDurable
INVARIANT QuieterInForce
SYMMETRY Symmetry
CONSTRAINT OneHazard
