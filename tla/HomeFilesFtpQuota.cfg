SPECIFICATION Spec
CONSTANTS
  SftpSessions = {s1}
  FtpSessions = {f1}
  Handles = {h1}
  Names = {n1, n2}
  InSub = {n2}
  Files = {i1, i2}
  NoFile = NoFile
  Closed = Closed
  Quota = 2
  MaxWrite = 1
  MaxSize = 2
  Grants <- SomeGrants
PROPERTY UploadUnderQuota
SYMMETRY Symmetry
