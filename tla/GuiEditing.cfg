SPECIFICATION Spec
CONSTANTS
  Accounts = {u1, u2}
  Absent = Absent
  Secrets = {p1}
  Homes = {h1}
  Grants = {g1, g2}
  o1 = o1
  o2 = o2
  bad = bad
  FormValues <- AllForms
  Services = {"ftp", "sftp"}
  Unusable <- Refused
  Width = 2
  Rules <- HalfAndOne
  Off = Off
  Faults = {"refused", "lost", "unwritten"}
INVARIANT UserListHonest
INVARIANT DriftExplained
INVARIANT ListsShowRules
INVARIANT FilterAsRead
PROPERTY UsersPublishedWhole
CONSTRAINT OneOfThree
