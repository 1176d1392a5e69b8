SPECIFICATION Spec
CONSTANTS
  u1 = u1
  u2 = u2
  good = good
  gone = gone
  Sessions = {s1}
  Channels = {c1}
  FtpUsers = {u2}
  Readers = {r1}
  Users = {u1, u2}
  Accounts <- MCAccounts
  Initial <- MCInitial
  UsableHomes = {good}
  Capacity = 2
  Backlog = 1
  Chunks = {1, 2}
  Counts = {1, 3}
  MaxAttempts = 2
  Rate = 2
  Second = 3
  MaxEvents = 4
INVARIANTS TypeOK TrailHonest RunsAsVerified RepliesNewest SentWithinTwiceRate
\* Bounded: attempts and MaxEvents run out.
CHECK_DEADLOCK FALSE
