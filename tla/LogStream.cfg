SPECIFICATION FairSpec
CONSTANTS
  Pushers = {p1, p2}
  Watchers = {w1}
  Capacity = 3
  Channel = 3
  Outbox = 1
  TailCount = 3
  MaxEntries = 5
INVARIANT OnlyOverwrittenLost
INVARIANT FewDuplicates
PROPERTY EntriesArrive
CHECK_DEADLOCK FALSE
