SPECIFICATION FairSpec
CONSTANTS
  Clients = {c1}
  Main = main
  Servers = {s1, s2}
  NoServer = NoServer
  DropSignals = FALSE
  Requests = {"start", "stop", "restart", "save"}
  Faults = {}
INVARIANT EnabledRuns
INVARIANT StatusMatchesPort
INVARIANT NoBindConflict
PROPERTY RequestsReturn
PROPERTY SignalledListenerEnds
