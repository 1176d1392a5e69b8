SPECIFICATION Spec
CONSTANTS
  Revs = {r0, r1}
  FirstRev = r0
  NoRev = NoRev
  Invalid = Invalid
  Torn = Torn
  Mixed = Mixed
  Missing = Missing
  Admins = {a1}
  FtpLogins = {f1}
  SftpLogins = {}
  Enabled <- EnabledAll
  Disabled = {}
  Nobody = Nobody
  Submitted = {r1}
  Faults = {}
INVARIANT NoSaveUndone
