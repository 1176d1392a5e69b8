------------------------------ MODULE MCHomeFiles ------------------------------
(* Instances of HomeFiles for TLC. *)
EXTENDS HomeFiles, TLC

Symmetry == Permutations(SftpSessions) \cup Permutations(Files)

(* The rights an administrator gives: all, or to append only.              *)
SomeGrants == {Rights, AppendOnly}

(* The bound of the exploration.  Two SFTP sessions run side by side, with *)
(* all rights, nothing beside them and one request at a time that looked   *)
(* them up, until the home grows by something that is not measured; or one *)
(* SFTP session has anything open or under way, beside an FTP session and  *)
(* whatever the administrator does.                                        *)
Quiet(s) == Idle(s) /\ \A h \in Handles : handles[s][h] = Closed

TwoMeasured ==
  /\ ~unmeasured /\ rights = Rights
  /\ \A f \in FtpSessions : snapshot[f] = Closed
  /\ \A s, t \in SftpSessions : s = t \/ {pc[s], pc[t]} \ Asks # {}

OneBesideFtp == \A s, t \in SftpSessions : s = t \/ Quiet(s) \/ Quiet(t)

TwoOrOne == TwoMeasured \/ OneBesideFtp
================================================================================
