SPECIFICATION Spec
CONSTANTS
  Clients = {c1, c2}
  Main = main
  Servers = {s1, s2, s3}
  NoServer = NoServer
  DropSignals = FALSE
  Requests = {"start"}
  Faults = {"bind", "start"}
SYMMETRY Symmetry
INVARIANT NoOrphan
