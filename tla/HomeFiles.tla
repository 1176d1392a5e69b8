------------------------------- MODULE HomeFiles -------------------------------
(***************************************************************************)
(* The files of one account's home directory under its SFTP and FTP        *)
(* sessions.  An SFTP session looks the account's rights up at a request   *)
(* and acts afterwards, an FTP session keeps those it logged in with.  A   *)
(* write of an SFTP session looks up no rights; it first walks the home to *)
(* measure it and compares the sum with the quota.  Other sessions, and    *)
(* the administrator, go on meanwhile.                                     *)
(* Sources: sftp/src/ops/mod.rs, sftp/src/ops/protocol.rs,                 *)
(* common/src/server/quota.rs, ftp/src/storage.rs, ftp/src/auth.rs.        *)
(*                                                                         *)
(* A file is its size in units.  The home has one subdirectory, which is   *)
(* never renamed.  Requests that are denied leave everything as it is and  *)
(* are left out.                                                           *)
(***************************************************************************)
EXTENDS Integers, FiniteSetsExt

CONSTANTS
  SftpSessions,
  FtpSessions,
  Handles,     (* handles an SFTP session may have open (bound)            *)
  Names,       (* paths of files                                           *)
  InSub,       (* those inside the subdirectory                            *)
  Files,       (* identities of files (inodes)                             *)
  NoFile,      (* no such file, or no file in a local variable             *)
  Closed,      (* a handle that is not open; an FTP session not logged in  *)
  Quota,       (* quota_mb of the account, in units                        *)
  MaxWrite,    (* units in one SFTP WRITE                                  *)
  MaxSize,     (* bound of a file's size                                   *)
  Grants       (* the sets of rights the administrator may give            *)

Rights == {"read", "write", "delete", "mkdir", "rmdir", "rename", "append"}

ASSUME HomeAssumption ==
  /\ NoFile \notin Files
  /\ Handles # {} /\ Names # {}
  /\ InSub \subseteq Names
  /\ Grants \subseteq SUBSET Rights /\ Grants # {}
  /\ Quota \in Nat \ {0} /\ MaxWrite \in Nat \ {0} /\ MaxSize \in Nat
  /\ SftpSessions \cap FtpSessions = {}
  /\ IsFiniteSet(Names) /\ IsFiniteSet(SftpSessions)

VARIABLES
  rights,    (* the account's Permissions in the user library              *)
  snapshot,  (* WftpdUser.permissions of each FTP session, or Closed       *)
  dir,       (* the file each path names                                   *)
  sub,       (* the subdirectory exists                                    *)
  size,      (* of each file                                               *)
  handles,   (* SftpFileHandler.handles                                    *)
  pc,        (* what each session is doing                                 *)
  write,     (* the WRITE of each SFTP session: its handle and length      *)
  walk,      (* dir_size of each SFTP session: paths left, sum so far      *)
  asked,     (* the request each SFTP session has the rights for           *)
  put,       (* the upload of each FTP session: file and position          *)
  rewriter,  (* the account has had more than AppendOnly, or a session of  *)
             (* that time is left (history)                                *)
  harmed,    (* a file lost bytes it had, or its path, while the account   *)
             (* was no rewriter (history)                                  *)
  unmeasured (* something happened that the measuring of SFTP writes       *)
             (* cannot account for: a write past the end left a hole, a    *)
             (* SETSTAT or an FTP upload grew a file, a file was renamed   *)
             (* while another session walked the home (history)            *)

AppendOnly == {"read", "mkdir", "append"}

Sessions == SftpSessions \cup FtpSessions
history == <<rewriter, harmed, unmeasured>>
files == <<dir, sub, size>>
locals == <<handles, pc, write, walk, asked, put>>
vars == <<rights, snapshot, files, locals, history>>

NoWrite == [handle |-> CHOOSE h \in Handles : TRUE, length |-> 0]
NoWalk == [left |-> {}, sum |-> 0]
NoPut == [file |-> NoFile, at |-> 0]

(* What OPEN asks for besides READ, which changes nothing for those that   *)
(* ask for more; the empty set is READ alone.                              *)
OpenFlags == {"write", "append", "create", "truncate"}

Request(n, to, flags) == [name |-> n, to |-> to, flags |-> flags]
RequestRecord == [name : Names, to : Names, flags : SUBSET OpenFlags]
NoName == CHOOSE n \in Names : TRUE
NoRequest == Request(NoName, NoName, {})

HandleRecord == [file : Files, append : BOOLEAN, writable : BOOLEAN]

(* The requests that look up the rights and then act.                      *)
Asks == {"open", "setstat", "remove", "mkdir", "rmdir", "rename"}

TypeOK ==
  /\ rights \in SUBSET Rights
  /\ snapshot \in [FtpSessions -> (SUBSET Rights) \cup {Closed}]
  /\ dir \in [Names -> Files \cup {NoFile}]
  /\ sub \in BOOLEAN
  /\ size \in [Files -> Nat]
  /\ handles \in [SftpSessions -> [Handles -> HandleRecord \cup {Closed}]]
  /\ pc \in [Sessions -> Asks \cup {"idle", "measure", "write", "put"}]
  /\ write \in [SftpSessions -> [handle : Handles, length : Nat]]
  /\ walk \in [SftpSessions -> [left : SUBSET Names, sum : Nat]]
  /\ asked \in [SftpSessions -> RequestRecord]
  /\ put \in [FtpSessions -> [file : Files \cup {NoFile}, at : Nat]]
  /\ rewriter \in BOOLEAN
  /\ harmed \in BOOLEAN
  /\ unmeasured \in BOOLEAN

Init ==
  /\ rights \in Grants
  /\ snapshot = [f \in FtpSessions |-> Closed]
  /\ dir = [n \in Names |-> NoFile]
  /\ sub = FALSE
  /\ size = [f \in Files |-> 0]
  /\ handles = [s \in SftpSessions |-> [h \in Handles |-> Closed]]
  /\ pc = [s \in Sessions |-> "idle"]
  /\ write = [s \in SftpSessions |-> NoWrite]
  /\ walk = [s \in SftpSessions |-> NoWalk]
  /\ asked = [s \in SftpSessions |-> NoRequest]
  /\ put = [f \in FtpSessions |-> NoPut]
  /\ rewriter = ~(rights \subseteq AppendOnly)
  /\ harmed = FALSE
  /\ unmeasured = FALSE

-----------------------------------------------------------------------------
(* The file system *)

Exists(n) == dir[n] # NoFile
Reachable(n) == n \in InSub => sub
SizeAt(n) == IF Exists(n) THEN size[dir[n]] ELSE 0

(* The units stored under some paths, and how many the home has.           *)
Stored(names) == UNION {{n} \X (1..SizeAt(n)) : n \in names}
Usage == Cardinality(Stored(Names))

Unused(f) ==
  /\ \A n \in Names : dir[n] # f
  /\ \A s \in SftpSessions, h \in Handles :
       handles[s][h] # Closed => handles[s][h].file # f
  /\ \A s \in FtpSessions : put[s].file # f

(* The last reference to a file goes, and its space with it.               *)
Reclaim == size' = [f \in Files |-> IF Unused(f)' THEN 0 ELSE size[f]]

(* Something stored is lost in this step, if the condition holds.          *)
Harm(condition) == harmed' = (harmed \/ (~rewriter /\ condition))

(* Opening n for writing: the file it names, or a new one.                 *)
Opened(n, f, truncate) ==
  /\ IF Exists(n) THEN f = dir[n] ELSE Unused(f)
  /\ dir' = [dir EXCEPT ![n] = f]
  /\ size' = IF truncate THEN [size EXCEPT ![f] = 0] ELSE size
  /\ Harm(truncate /\ size[f] > 0)

(* Writing length units at a position.                                     *)
Written(f, position, length) ==
  /\ position + length <= MaxSize
  /\ size' = [size EXCEPT ![f] = Max({@, position + length})]
  /\ Harm(position < size[f])

Unlinked(names) ==
  /\ dir' = [n \in Names |-> IF n \in names THEN NoFile ELSE dir[n]]
  /\ Harm(\E n \in names : Exists(n))

Relinked(from, to) ==
  /\ dir' = [dir EXCEPT ![to] = dir[from], ![from] = NoFile]
  /\ Harm(TRUE)

(* A rename hides a file from a walk that has passed its new name and not  *)
(* yet its old one.                                                        *)
Moved(s) ==
  unmeasured' = (unmeasured \/ \E t \in SftpSessions \ {s} : pc[t] = "measure")

-----------------------------------------------------------------------------
(* The user library *)

(* No session of the account is doing anything or can go on with what it   *)
(* had the rights for.                                                     *)
AtRest ==
  /\ \A s \in Sessions : pc[s] = "idle"
  /\ \A f \in FtpSessions : snapshot[f] = Closed
  /\ \A s \in SftpSessions, h \in Handles : handles[s][h] = Closed

SetRights ==
  /\ \E grant \in Grants : rights' = grant
  /\ rewriter' = (~(rights' \subseteq AppendOnly) \/ (rewriter /\ ~AtRest))
  /\ UNCHANGED <<snapshot, files, locals, harmed, unmeasured>>

-----------------------------------------------------------------------------
(* SFTP.  The requests of one session are handled one after the other.     *)

Idle(s) == pc[s] = "idle"
Goto(s, step) == pc' = [pc EXCEPT ![s] = step]

(* The rights suffice and the handler goes on to act; an await comes       *)
(* before the act.                                                         *)
Ask(s, step, request) ==
  /\ Idle(s)
  /\ asked' = [asked EXCEPT ![s] = request]
  /\ Goto(s, step)
  /\ UNCHANGED <<rights, snapshot, files, handles, write, walk, put, history>>

Answer(s) ==
  /\ Goto(s, "idle")
  /\ asked' = [asked EXCEPT ![s] = NoRequest]

(* The act fails: no such path, a path that exists, an I/O error.          *)
Fail(s) ==
  /\ pc[s] \in Asks
  /\ Answer(s)
  /\ UNCHANGED <<rights, snapshot, files, handles, write, walk, put, history>>

Writable(flags) == flags \cap {"write", "append", "create"} # {}

Allowed(flags) ==
  IF flags = {} THEN "read" \in rights
  ELSE "write" \in rights \/ {"append"} \subseteq flags \cap rights

(* Faulty variant: TRUNCATE is honoured together with APPEND.              *)
CombinesAll(flags) == "truncate" \in flags => Writable(flags)

(* What OpenOptions::open refuses to combine.                              *)
Combines(flags) ==
  "truncate" \in flags => Writable(flags) /\ "append" \notin flags

(* Requests that OpenOptions::open will refuse are left out.               *)
CheckOpen(s, n, flags) ==
  /\ \E h \in Handles : handles[s][h] = Closed
  /\ Allowed(flags) /\ Combines(flags)
  /\ Ask(s, "open", Request(n, NoName, flags))

Open(s) ==
  /\ pc[s] = "open"
  /\ LET n == asked[s].name  flags == asked[s].flags
     IN  /\ Exists(n) \/ ("create" \in flags /\ Reachable(n))
         /\ \E h \in Handles, f \in Files :
              /\ handles[s][h] = Closed
              /\ Opened(n, f, "truncate" \in flags)
              /\ handles' = [handles EXCEPT ![s][h] =
                   [file |-> f, append |-> "append" \in flags,
                    writable |-> Writable(flags)]]
  /\ Answer(s)
  /\ UNCHANGED <<rights, snapshot, sub, write, walk, put, rewriter, unmeasured>>

Close(s, h) ==
  /\ Idle(s) /\ handles[s][h] # Closed
  /\ handles' = [handles EXCEPT ![s][h] = Closed]
  /\ UNCHANGED <<rights, snapshot, dir, sub, pc, write, walk, asked, put, history>>
  /\ Reclaim

(* WRITE begins with quota_ok, which walks the home.                       *)
BeginWrite(s) ==
  /\ Idle(s)
  /\ \E h \in Handles, length \in 1..MaxWrite :
       /\ handles[s][h] # Closed /\ handles[s][h].writable
       /\ write' = [write EXCEPT ![s] = [handle |-> h, length |-> length]]
  /\ walk' = [walk EXCEPT ![s] = [left |-> Names, sum |-> 0]]
  /\ Goto(s, "measure")
  /\ UNCHANGED <<rights, snapshot, files, handles, asked, put, history>>

(* dir_size comes to one more file, in the order the file system lists.    *)
Measure(s) ==
  /\ pc[s] = "measure"
  /\ \E n \in walk[s].left :
       walk' = [walk EXCEPT ![s] =
                  [left |-> @.left \ {n}, sum |-> @.sum + SizeAt(n)]]
  /\ UNCHANGED <<rights, snapshot, files, handles, pc, write, asked, put, history>>

(* Faulty variant: the length of this write is not counted.                *)
CheckUsageOnly(s) ==
  /\ pc[s] = "measure" /\ walk[s].left = {}
  /\ Goto(s, IF walk[s].sum <= Quota THEN "write" ELSE "idle")
  /\ walk' = [walk EXCEPT ![s] = NoWalk]
  /\ UNCHANGED <<rights, snapshot, files, handles, write, asked, put, history>>

CheckQuota(s) ==
  /\ pc[s] = "measure" /\ walk[s].left = {}
  /\ Goto(s, IF walk[s].sum + write[s].length <= Quota THEN "write" ELSE "idle")
  /\ walk' = [walk EXCEPT ![s] = NoWalk]
  /\ UNCHANGED <<rights, snapshot, files, handles, write, asked, put, history>>

(* seek and write_all: a handle opened with APPEND writes at the end,      *)
(* another one at the offset of the request.                               *)
Write(s) ==
  /\ pc[s] = "write"
  /\ LET handle == handles[s][write[s].handle]  file == handle.file
     IN  \E position \in IF handle.append THEN {size[file]} ELSE 0..MaxSize :
           /\ Written(file, position, write[s].length)
           /\ unmeasured' = (unmeasured \/ position > size[file])
  /\ Goto(s, "idle")
  /\ write' = [write EXCEPT ![s] = NoWrite]
  /\ UNCHANGED <<rights, snapshot, dir, sub, handles, walk, asked, put, rewriter>>

(* SETSTAT with a size sets the length of the file.                        *)
CheckSetLength(s, n) ==
  "write" \in rights /\ Ask(s, "setstat", Request(n, NoName, {}))

SetLength(s) ==
  /\ pc[s] = "setstat"
  /\ LET n == asked[s].name
     IN  /\ Exists(n)
         /\ \E length \in 0..MaxSize :
              /\ size' = [size EXCEPT ![dir[n]] = length]
              /\ Harm(length < SizeAt(n))
              /\ unmeasured' = (unmeasured \/ length > SizeAt(n))
  /\ Answer(s)
  /\ UNCHANGED <<rights, snapshot, dir, sub, handles, write, walk, put, rewriter>>

CheckRemove(s, n) ==
  "delete" \in rights /\ Ask(s, "remove", Request(n, NoName, {}))

Remove(s) ==
  /\ pc[s] = "remove"
  /\ Exists(asked[s].name) /\ Unlinked({asked[s].name})
  /\ Answer(s)
  /\ UNCHANGED <<rights, snapshot, sub, handles, write, walk, put, rewriter,
                 unmeasured>>
  /\ Reclaim

CheckMakeDir(s) == "mkdir" \in rights /\ Ask(s, "mkdir", NoRequest)

MakeDir(s) ==
  /\ pc[s] = "mkdir"
  /\ ~sub /\ sub' = TRUE
  /\ Answer(s)
  /\ UNCHANGED <<rights, snapshot, dir, size, handles, write, walk, put, history>>

CheckRemoveDir(s) == "rmdir" \in rights /\ Ask(s, "rmdir", NoRequest)

(* RMDIR removes the directory with everything in it.                      *)
RemoveDir(s) ==
  /\ pc[s] = "rmdir"
  /\ sub /\ sub' = FALSE
  /\ Unlinked(InSub)
  /\ Answer(s)
  /\ UNCHANGED <<rights, snapshot, handles, write, walk, put, rewriter, unmeasured>>
  /\ Reclaim

(* RENAME refuses an existing target, and then renames.                    *)
CheckRename(s, from, to) ==
  "rename" \in rights /\ ~Exists(to) /\ Ask(s, "rename", Request(from, to, {}))

Rename(s) ==
  /\ pc[s] = "rename"
  /\ LET from == asked[s].name  to == asked[s].to
     IN  /\ Exists(from) /\ Reachable(to) /\ from # to
         /\ Relinked(from, to) /\ Moved(s)
  /\ Answer(s)
  /\ UNCHANGED <<rights, snapshot, sub, handles, write, walk, put, rewriter>>
  /\ Reclaim

-----------------------------------------------------------------------------
(* FTP.  A session's rights are those of the account when it logged in.    *)

Login(f) ==
  /\ snapshot[f] = Closed
  /\ snapshot' = [snapshot EXCEPT ![f] = rights]
  /\ UNCHANGED <<rights, files, locals, history>>

Logout(f) ==
  /\ Idle(f) /\ snapshot[f] # Closed
  /\ snapshot' = [snapshot EXCEPT ![f] = Closed]
  /\ UNCHANGED <<rights, files, locals, history>>

May(f, right) == Idle(f) /\ snapshot[f] # Closed /\ right \in snapshot[f]

(* check_quota is given the path of the target file.                       *)
StartPut(f, n) ==
  /\ May(f, "write")
  /\ SizeAt(n) < Quota
  /\ sub' = (sub \/ n \in InSub)
  /\ \E file \in Files, at \in 0..MaxSize :
       /\ Opened(n, file, at = 0)
       /\ put' = [put EXCEPT ![f] = [file |-> file, at |-> at]]
  /\ Goto(f, "put")
  /\ UNCHANGED <<rights, snapshot, handles, write, walk, asked, rewriter,
                 unmeasured>>

PutChunk(f) ==
  /\ pc[f] = "put"
  /\ Written(put[f].file, put[f].at, 1)
  /\ unmeasured' = (unmeasured \/ put[f].at >= size[put[f].file])
  /\ put' = [put EXCEPT ![f].at = @ + 1]
  /\ UNCHANGED <<rights, snapshot, dir, sub, handles, pc, write, walk, asked,
                 rewriter>>

EndPut(f) ==
  /\ pc[f] = "put"
  /\ put' = [put EXCEPT ![f] = NoPut]
  /\ Goto(f, "idle")
  /\ UNCHANGED <<rights, snapshot, dir, sub, handles, write, walk, asked, history>>
  /\ Reclaim

FtpRemove(f, n) ==
  /\ May(f, "delete") /\ Exists(n)
  /\ Unlinked({n})
  /\ UNCHANGED <<rights, snapshot, sub, locals, rewriter, unmeasured>>
  /\ Reclaim

FtpMakeDir(f) ==
  /\ May(f, "mkdir")
  /\ ~sub /\ sub' = TRUE
  /\ UNCHANGED <<rights, snapshot, dir, size, locals, history>>

FtpRemoveDir(f) ==
  /\ May(f, "rmdir")
  /\ sub /\ sub' = FALSE
  /\ Unlinked(InSub)
  /\ UNCHANGED <<rights, snapshot, locals, rewriter, unmeasured>>
  /\ Reclaim

(* RNTO replaces an existing target.                                       *)
FtpRename(f, from, to) ==
  /\ May(f, "rename") /\ Exists(from) /\ Reachable(to) /\ from # to
  /\ Relinked(from, to) /\ Moved(f)
  /\ UNCHANGED <<rights, snapshot, sub, locals, rewriter>>
  /\ Reclaim

-----------------------------------------------------------------------------
Checks(s) ==
  \/ \E n \in Names, flags \in SUBSET OpenFlags : CheckOpen(s, n, flags)
  \/ \E n \in Names : CheckSetLength(s, n) \/ CheckRemove(s, n)
  \/ CheckMakeDir(s) \/ CheckRemoveDir(s)
  \/ \E from, to \in Names : CheckRename(s, from, to)

SftpStep(s) ==
  \/ Checks(s)
  \/ Open(s) \/ SetLength(s) \/ Remove(s) \/ MakeDir(s) \/ RemoveDir(s) \/ Rename(s)
  \/ Fail(s)
  \/ \E h \in Handles : Close(s, h)
  \/ BeginWrite(s) \/ Measure(s) \/ CheckQuota(s) \/ Write(s)

FtpStep(f) ==
  \/ Login(f) \/ Logout(f)
  \/ \E n \in Names : StartPut(f, n) \/ FtpRemove(f, n)
  \/ PutChunk(f) \/ EndPut(f)
  \/ FtpMakeDir(f) \/ FtpRemoveDir(f)
  \/ \E from, to \in Names : FtpRename(f, from, to)

Next ==
  \/ SetRights
  \/ \E s \in SftpSessions : SftpStep(s)
  \/ \E f \in FtpSessions : FtpStep(f)

Spec == Init /\ [][Next]_vars

-----------------------------------------------------------------------------
(* Properties *)

(* SFTP writes respect the quota up to the writes that other sessions have *)
(* checked meanwhile, at most one of each (ops/mod.rs: "the amount written *)
(* is bounded by quota_mb").                                               *)
OverrunBounded ==
  ~unmeasured => Usage <= Quota + (Cardinality(SftpSessions) - 1) * MaxWrite

(* While an account may only append, and no session of a time when it      *)
(* might do more is left, every file it stored keeps its path and every    *)
(* byte, whatever flags, offsets, handles and rights looked up earlier its *)
(* sessions combine.                                                       *)
AppendOnlyKeeps == ~harmed

(* An FTP upload begins only while the account is under its quota          *)
(* (ftp/src/storage.rs: "quota, checked before writing").                  *)
UploadUnderQuota ==
  [][\A f \in FtpSessions : Idle(f) /\ pc'[f] = "put" => Usage < Quota]_vars
================================================================================
