SPECIFICATION Spec
CONSTANTS
  Revs = {r0, r1}
  FirstRev = r0
  NoRev = NoRev
  Invalid = Invalid
  Torn = Torn
  Mixed = Mixed
  Missing = Missing
  Admins = {a1, a2}
  FtpLogins = {f1}
  SftpLogins = {s1}
  Enabled <- EnabledAll
  Disabled = {s1}
  Nobody = Nobody
  Submitted = {r1, Invalid}
  Faults = {"crash", "save"}
INVARIANT SaveIsDurable
INVARIANT MemoryInForce
INVARIANT DiskWhole
INVARIANT LoginUsesLibraryInForce
INVARIANT StampsKept
SYMMETRY Symmetry
CONSTRAINT OverlapEnds
