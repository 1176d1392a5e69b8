---------------------------- MODULE MCSftpSessions -----------------------------
EXTENDS SftpSessions, TLC

CONSTANTS u1, u2, good, gone

Account(enabled, home, read, limited) ==
  [enabled |-> enabled, home |-> home, read |-> read, limited |-> limited]

(* An account in use, the same once its home is gone, and one disabled and   *)
(* without permissions.                                                      *)
MCAccounts == {Account(TRUE, good, TRUE, TRUE), Account(TRUE, gone, FALSE, TRUE),
               Account(FALSE, good, FALSE, FALSE)}

MCInitial == u1 :> Account(TRUE, good, TRUE, TRUE)
             @@ u2 :> Account(TRUE, gone, FALSE, TRUE)

================================================================================
