SPECIFICATION FairSpec
CONSTANTS
  LogTabs = {"log"}
  Files = {"file"}
  Changing = {"status", "current"}
  MaxVersion = 2
  MaxLoads = 2
  Requests = {"request"}
INVARIANT ViewOfSelection
PROPERTY StatusNeverGoesBack
PROPERTY StatusCatchesUp
PROPERTY LogCatchesUp
