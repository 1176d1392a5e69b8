SPECIFICATION Spec
CONSTANTS
  Clients = {c1, c2}
  Main = main
  Servers = {s1, s2, s3, s4}
  NoServer = NoServer
  DropSignals = TRUE
  Requests = {"start", "stop", "restart", "save"}
  Faults = {"start", "bind", "listen", "timeout"}
SYMMETRY Symmetry
INVARIANT NoOrphan
INVARIANT StatusHonest
INVARIANT ExclusiveOwner
