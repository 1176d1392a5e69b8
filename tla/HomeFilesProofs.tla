---------------------------- MODULE HomeFilesProofs ----------------------------
(***************************************************************************)
(* Proofs about HomeFiles: for any sessions, paths, files, sizes and       *)
(* rights.                                                                 *)
(***************************************************************************)
EXTENDS HomeFiles, FiniteSetTheorems, TLAPS

(* A session in the middle of a WRITE or an upload has its file open.      *)
Writes(s) == pc[s] \in {"measure", "write"}
Opens ==
  /\ \A s \in SftpSessions : Writes(s) =>
       /\ handles[s][write[s].handle] # Closed
       /\ handles[s][write[s].handle].writable
  /\ \A f \in FtpSessions :
       pc[f] \in {"idle", "put"} /\ (pc[f] = "put" => put[f].file \in Files)

(* Types, and files open as long as a request uses them.                   *)
HomeInv == TypeOK /\ Opens

(* A session with no request under way that destroys: OPEN has been asked  *)
(* to append, if to write at all.                                          *)
Mild(s) ==
  /\ pc[s] \notin {"setstat", "remove", "rmdir", "rename"}
  /\ pc[s] = "open" =>
       /\ "truncate" \notin asked[s].flags
       /\ Writable(asked[s].flags) => "append" \in asked[s].flags

(* Every session of an account that is no rewriter has the rights of one   *)
(* that may only append, what is open for writing is open to append, and   *)
(* no request that was allowed more is left.                               *)
OnlyAppends ==
  ~rewriter =>
    /\ rights \subseteq AppendOnly
    /\ \A f \in FtpSessions :
         pc[f] = "idle" /\ (snapshot[f] # Closed => snapshot[f] \subseteq AppendOnly)
    /\ \A s \in SftpSessions : Mild(s)
    /\ \A s \in SftpSessions, h \in Handles :
         handles[s][h] # Closed /\ handles[s][h].writable => handles[s][h].append

-----------------------------------------------------------------------------
(* The initial state has its types.                                        *)
LEMMA HomeInit == Init => HomeInv
<1> SUFFICES ASSUME Init PROVE HomeInv
  OBVIOUS
<1>1. /\ (CHOOSE h \in Handles : TRUE) \in Handles
      /\ (CHOOSE n \in Names : TRUE) \in Names
  BY HomeAssumption
<1>2. TypeOK
  BY <1>1, HomeAssumption DEF Init, TypeOK, NoWrite, NoWalk, NoRequest, Request,
     RequestRecord, NoName, NoPut, Sessions
<1>3. Opens
  BY HomeAssumption DEF Init, Opens, Writes, Sessions
<1>4. QED
  BY <1>2, <1>3 DEF HomeInv

-----------------------------------------------------------------------------
(* Looking up the rights of a request records the request.                 *)
LEMMA ChecksAsk ==
  ASSUME NEW s \in SftpSessions, Checks(s)
  PROVE  \E step \in Asks, request \in RequestRecord : Ask(s, step, request)
<1> USE DEF Asks, RequestRecord, Request, NoRequest
<1>0. NoName \in Names
  BY HomeAssumption DEF NoName
<1>1. ASSUME NEW n \in Names, NEW flags \in SUBSET OpenFlags, CheckOpen(s, n, flags)
      PROVE  \E step \in Asks, request \in RequestRecord : Ask(s, step, request)
  <2>1. Request(n, NoName, flags) \in RequestRecord
    BY <1>0
  <2> QED
    BY <1>1, <2>1 DEF CheckOpen
<1>2. ASSUME NEW n \in Names, NEW to \in Names, NEW step \in Asks,
             Ask(s, step, Request(n, to, {}))
      PROVE  \E k \in Asks, request \in RequestRecord : Ask(s, k, request)
  <2>1. Request(n, to, {}) \in RequestRecord
    OBVIOUS
  <2> QED
    BY <1>2, <2>1
<1> QED
  BY <1>0, <1>1, <1>2 DEF Checks, CheckSetLength, CheckRemove, CheckMakeDir,
     CheckRemoveDir, CheckRename

(* An answered request leaves the types of what it was.                    *)
LEMMA AnswerType ==
  ASSUME TypeOK, NEW s \in SftpSessions, Answer(s)
  PROVE  /\ pc' \in [Sessions -> Asks \cup {"idle", "measure", "write", "put"}]
         /\ asked' \in [SftpSessions -> RequestRecord]
         /\ pc' = [pc EXCEPT ![s] = "idle"]
<1>1. NoName \in Names
  BY HomeAssumption DEF NoName
<1>2. NoRequest \in RequestRecord
  BY <1>1 DEF NoRequest, Request, RequestRecord
<1> QED
  BY <1>2 DEF Answer, Goto, TypeOK

(* Reclaiming a file keeps the types.                                      *)
LEMMA ReclaimType == TypeOK /\ Reclaim => size' \in [Files -> Nat]
BY DEF TypeOK, Reclaim

(* Whether something was harmed is a truth value.                          *)
LEMMA HarmType ==
  ASSUME NEW condition, Harm(condition)
  PROVE  harmed' \in BOOLEAN
BY DEF Harm

(* Opening a file keeps the types.                                         *)
LEMMA OpenedType ==
  ASSUME TypeOK, NEW n \in Names, NEW f \in Files, NEW truncate \in BOOLEAN,
         Opened(n, f, truncate)
  PROVE  /\ dir' \in [Names -> Files \cup {NoFile}]
         /\ size' \in [Files -> Nat]
         /\ harmed' \in BOOLEAN
<1>1. harmed' \in BOOLEAN
  BY HarmType DEF Opened
<1> QED
  BY <1>1 DEF TypeOK, Opened

(* Removing paths keeps the types.                                         *)
LEMMA UnlinkedType ==
  ASSUME TypeOK, NEW names, Unlinked(names)
  PROVE  dir' \in [Names -> Files \cup {NoFile}] /\ harmed' \in BOOLEAN
<1>1. harmed' \in BOOLEAN
  BY HarmType DEF Unlinked
<1> QED
  BY <1>1 DEF TypeOK, Unlinked

(* And so does moving a file.                                              *)
LEMMA RelinkedType ==
  ASSUME TypeOK, NEW from \in Names, NEW to \in Names, Relinked(from, to)
  PROVE  dir' \in [Names -> Files \cup {NoFile}] /\ harmed' \in BOOLEAN
<1>1. harmed' \in BOOLEAN
  BY HarmType DEF Relinked
<1> QED
  BY <1>1 DEF TypeOK, Relinked

(* The larger of two numbers is one of them.                               *)
LEMMA MaxOfTwo == ASSUME NEW a \in Nat, NEW b \in Nat PROVE Max({a, b}) \in {a, b}
<1>1. \E x \in {a, b} : \A y \in {a, b} : x >= y
  <2>1. CASE a >= b
    BY <2>1
  <2>2. CASE ~(a >= b)
    BY <2>2
  <2>3. QED
    BY <2>1, <2>2
<1>2. QED
  BY <1>1 DEF Max

(* Writing to a file keeps the types.                                      *)
LEMMA WrittenType ==
  ASSUME TypeOK, NEW f \in Files, NEW position \in Nat, NEW length \in Nat,
         Written(f, position, length)
  PROVE  size' \in [Files -> Nat] /\ harmed' \in BOOLEAN
<1>2. harmed' \in BOOLEAN
  BY HarmType DEF Written
<1>3. size[f] \in Nat /\ position + length \in Nat
  BY DEF TypeOK
<1>4. Max({size[f], position + length}) \in Nat
  BY <1>3, MaxOfTwo
<1>5. QED
  BY <1>2, <1>4 DEF TypeOK, Written
-----------------------------------------------------------------------------
(* No step takes a variable out of its type, and no file is closed under a *)
(* request.                                                                *)
LEMMA HomeStep ==
  HomeInv /\ [Next]_vars => HomeInv'
<1> SUFFICES ASSUME TypeOK, Opens, [Next]_vars
             PROVE  HomeInv'
  BY DEF HomeInv
<1> USE HomeAssumption DEF HomeInv, Opens, Writes, Sessions, files, locals,
   history, HandleRecord
<1>1. CASE SetRights
  BY <1>1 DEF SetRights, TypeOK
<1>2. ASSUME NEW s \in SftpSessions, Open(s)
      PROVE  HomeInv'
  <2> DEFINE flags == asked[s].flags
  <2>1. PICK h \in Handles, g \in Files :
          /\ Opened(asked[s].name, g, "truncate" \in flags)
          /\ handles[s][h] = Closed
          /\ handles' = [handles EXCEPT ![s][h] =
               [file |-> g, append |-> "append" \in flags,
                writable |-> Writable(flags)]]
    BY <1>2 DEF Open
  <2>2. Writable(flags) \in BOOLEAN /\ ("truncate" \in flags) \in BOOLEAN
        /\ asked[s].name \in Names
    BY DEF Writable, TypeOK, RequestRecord
  <2>3. /\ dir' \in [Names -> Files \cup {NoFile}]
        /\ size' \in [Files -> Nat]
        /\ harmed' \in BOOLEAN
    <3>1. harmed' \in BOOLEAN
      BY <2>1, HarmType DEF Opened
    <3>2. QED
      BY <2>1, <2>2, <3>1 DEF Opened, TypeOK
  <2>a. Answer(s)
    BY <1>2 DEF Open
  <2>b. /\ pc' \in [Sessions -> Asks \cup {"idle", "measure", "write", "put"}]
        /\ asked' \in [SftpSessions -> RequestRecord]
        /\ pc' = [pc EXCEPT ![s] = "idle"]
    BY <2>a, AnswerType
  <2>c. handles' \in [SftpSessions -> [Handles -> HandleRecord \cup {Closed}]]
    BY <2>1, <2>2 DEF TypeOK
  <2> HIDE DEF flags
  <2>4. TypeOK'
    BY <1>2, <2>3, <2>b, <2>c DEF Open, TypeOK
  <2>5. Opens'
    BY <1>2, <2>1, <2>b DEF Open, TypeOK
  <2>6. QED
    BY <2>4, <2>5
<1>3. ASSUME NEW s \in SftpSessions, NEW h \in Handles, Close(s, h)
      PROVE  HomeInv'
  <2>1. size' \in [Files -> Nat]
    BY <1>3, ReclaimType DEF Close
  <2>2. QED
    BY <1>3, <2>1 DEF Close, Idle, TypeOK
<1>4. ASSUME NEW s \in SftpSessions, BeginWrite(s)
      PROVE  HomeInv'
  <2>1. PICK h \in Handles, length \in 1..MaxWrite :
          /\ handles[s][h] # Closed /\ handles[s][h].writable
          /\ write' = [write EXCEPT ![s] = [handle |-> h, length |-> length]]
    BY <1>4 DEF BeginWrite
  <2>2. TypeOK'
    BY <1>4, <2>1 DEF BeginWrite, Goto, TypeOK
  <2>3. Opens'
    BY <1>4, <2>1 DEF BeginWrite, Goto, TypeOK
  <2>4. QED
    BY <2>2, <2>3
<1>5. ASSUME NEW s \in SftpSessions, Measure(s)
      PROVE  HomeInv'
  <2>1. PICK n \in walk[s].left :
          walk' = [walk EXCEPT ![s] =
                     [left |-> @.left \ {n}, sum |-> @.sum + SizeAt(n)]]
    BY <1>5 DEF Measure
  <2>2. n \in Names /\ SizeAt(n) \in Nat
    BY DEF TypeOK, SizeAt, Exists
  <2>3. walk' \in [SftpSessions -> [left : SUBSET Names, sum : Nat]]
    BY <2>1, <2>2 DEF TypeOK
  <2>4. QED
    BY <1>5, <2>3, SMTT(30) DEF Measure, TypeOK
<1>6. ASSUME NEW s \in SftpSessions, CheckQuota(s)
      PROVE  HomeInv'
  BY <1>6 DEF CheckQuota, Goto, NoWalk, TypeOK
<1>7. ASSUME NEW s \in SftpSessions, Write(s)
      PROVE  HomeInv'
  <2> DEFINE handle == handles[s][write[s].handle]
  <2>1. handle \in HandleRecord /\ write[s].length \in Nat
    BY <1>7 DEF Write, TypeOK
  <2>2. PICK position \in IF handle.append THEN {size[handle.file]} ELSE 0..MaxSize :
          /\ Written(handle.file, position, write[s].length)
          /\ unmeasured' = (unmeasured \/ position > size[handle.file])
    BY <1>7 DEF Write
  <2>3. position \in Nat /\ handle.file \in Files
    BY <2>1, <2>2, SMTT(30) DEF TypeOK
  <2>4. size' \in [Files -> Nat] /\ harmed' \in BOOLEAN
    BY <2>1, <2>2, <2>3, WrittenType
  <2>5. (CHOOSE h \in Handles : TRUE) \in Handles
    OBVIOUS
  <2>6. write' \in [SftpSessions -> [handle : Handles, length : Nat]]
    BY <1>7, <2>5 DEF Write, NoWrite, TypeOK
  <2>7. QED
    BY <1>7, <2>2, <2>4, <2>6 DEF Write, Goto, TypeOK
<1>8. ASSUME NEW s \in SftpSessions, SetLength(s)
      PROVE  HomeInv'
  <2> DEFINE n == asked[s].name
  <2>1. PICK length \in 0..MaxSize :
          /\ size' = [size EXCEPT ![dir[n]] = length]
          /\ Harm(length < SizeAt(n))
          /\ unmeasured' = (unmeasured \/ length > SizeAt(n))
    BY <1>8 DEF SetLength
  <2>2. n \in Names /\ dir[n] \in Files
    BY <1>8 DEF SetLength, Exists, TypeOK, RequestRecord
  <2>3. harmed' \in BOOLEAN
    BY <2>1, HarmType
  <2>4. size' \in [Files -> Nat] /\ unmeasured' \in BOOLEAN
    BY <2>1, <2>2 DEF TypeOK
  <2>5. Answer(s)
    BY <1>8 DEF SetLength
  <2>6. TypeOK'
    BY <1>8, <2>3, <2>4, <2>5, AnswerType DEF SetLength, TypeOK
  <2>7. Opens'
    BY <1>8, <2>5, AnswerType DEF SetLength, TypeOK
  <2>8. QED
    BY <2>6, <2>7
<1>9. ASSUME NEW s \in SftpSessions, Remove(s)
      PROVE  HomeInv'
  <2>1. size' \in [Files -> Nat] /\ Answer(s)
    BY <1>9, ReclaimType DEF Remove
  <2>2. dir' \in [Names -> Files \cup {NoFile}] /\ harmed' \in BOOLEAN
    BY <1>9, UnlinkedType DEF Remove
  <2>3. QED
    BY <1>9, <2>1, <2>2, AnswerType DEF Remove, TypeOK
<1>10. ASSUME NEW s \in SftpSessions, MakeDir(s)
       PROVE  HomeInv'
  BY <1>10, AnswerType DEF MakeDir, TypeOK
<1>11. ASSUME NEW s \in SftpSessions, RemoveDir(s)
       PROVE  HomeInv'
  <2>1. size' \in [Files -> Nat] /\ Answer(s)
    BY <1>11, ReclaimType DEF RemoveDir
  <2>2. dir' \in [Names -> Files \cup {NoFile}] /\ harmed' \in BOOLEAN
    BY <1>11, UnlinkedType DEF RemoveDir
  <2>3. QED
    BY <1>11, <2>1, <2>2, AnswerType DEF RemoveDir, TypeOK
<1>12. ASSUME NEW s \in SftpSessions, Checks(s)
       PROVE  HomeInv'
  <2>1. PICK step \in Asks, request \in RequestRecord : Ask(s, step, request)
    BY <1>12, ChecksAsk
  <2>2. step \notin {"measure", "write"}
    BY DEF Asks
  <2>3. QED
    BY <2>1, <2>2 DEF Ask, Goto, TypeOK
<1>13. ASSUME NEW s \in SftpSessions, Rename(s)
       PROVE  HomeInv'
  <2>1. size' \in [Files -> Nat] /\ Answer(s)
    BY <1>13, ReclaimType DEF Rename
  <2>2. asked[s].name \in Names /\ asked[s].to \in Names
    BY DEF TypeOK, RequestRecord
  <2>3. dir' \in [Names -> Files \cup {NoFile}] /\ harmed' \in BOOLEAN
    BY <1>13, <2>2, RelinkedType DEF Rename
  <2>4. unmeasured' \in BOOLEAN
    BY <1>13 DEF Rename, Moved
  <2>5. QED
    BY <1>13, <2>1, <2>3, <2>4, AnswerType DEF Rename, TypeOK
<1>14. ASSUME NEW s \in SftpSessions, Fail(s)
       PROVE  HomeInv'
  BY <1>14, AnswerType DEF Fail, TypeOK
<1>15. ASSUME NEW f \in FtpSessions, Login(f)
       PROVE  HomeInv'
  BY <1>15 DEF Login, TypeOK
<1>16. ASSUME NEW f \in FtpSessions, Logout(f)
       PROVE  HomeInv'
  BY <1>16 DEF Logout, TypeOK
<1>17. ASSUME NEW f \in FtpSessions, NEW n \in Names, StartPut(f, n)
       PROVE  HomeInv'
  <2>1. PICK g \in Files, at \in 0..MaxSize :
          /\ Opened(n, g, at = 0)
          /\ put' = [put EXCEPT ![f] = [file |-> g, at |-> at]]
    BY <1>17 DEF StartPut
  <2>2. /\ dir' \in [Names -> Files \cup {NoFile}]
        /\ size' \in [Files -> Nat]
        /\ harmed' \in BOOLEAN
    BY <2>1, OpenedType
  <2>3. TypeOK'
    BY <1>17, <2>1, <2>2 DEF StartPut, Goto, TypeOK
  <2>4. Opens'
    BY <1>17, <2>1 DEF StartPut, Goto, TypeOK
  <2>5. QED
    BY <2>3, <2>4
<1>18. ASSUME NEW f \in FtpSessions, PutChunk(f)
       PROVE  HomeInv'
  <2>1. put[f].file \in Files /\ put[f].at \in Nat
    BY <1>18 DEF PutChunk, TypeOK
  <2>2. size' \in [Files -> Nat] /\ harmed' \in BOOLEAN
    BY <1>18, <2>1, WrittenType DEF PutChunk
  <2>3. /\ put' \in [FtpSessions -> [file : Files \cup {NoFile}, at : Nat]]
        /\ \A g \in FtpSessions : put'[g].file = put[g].file
    BY <1>18 DEF PutChunk, TypeOK
  <2>4. unmeasured' \in BOOLEAN
    BY <1>18 DEF PutChunk, TypeOK
  <2>5. QED
    BY <1>18, <2>2, <2>3, <2>4 DEF PutChunk, TypeOK
<1>19. ASSUME NEW f \in FtpSessions, EndPut(f)
       PROVE  HomeInv'
  <2>1. size' \in [Files -> Nat]
    BY <1>19, ReclaimType DEF EndPut
  <2>2. QED
    BY <1>19, <2>1 DEF EndPut, NoPut, Goto, TypeOK
<1>20. ASSUME NEW f \in FtpSessions, NEW n \in Names, FtpRemove(f, n)
       PROVE  HomeInv'
  <2>1. size' \in [Files -> Nat]
    BY <1>20, ReclaimType DEF FtpRemove
  <2>2. dir' \in [Names -> Files \cup {NoFile}] /\ harmed' \in BOOLEAN
    BY <1>20, UnlinkedType DEF FtpRemove
  <2>3. QED
    BY <1>20, <2>1, <2>2 DEF FtpRemove, TypeOK
<1>21. ASSUME NEW f \in FtpSessions, FtpMakeDir(f)
       PROVE  HomeInv'
  BY <1>21 DEF FtpMakeDir, TypeOK
<1>22. ASSUME NEW f \in FtpSessions, FtpRemoveDir(f)
       PROVE  HomeInv'
  <2>1. size' \in [Files -> Nat]
    BY <1>22, ReclaimType DEF FtpRemoveDir
  <2>2. dir' \in [Names -> Files \cup {NoFile}] /\ harmed' \in BOOLEAN
    BY <1>22, UnlinkedType DEF FtpRemoveDir
  <2>3. QED
    BY <1>22, <2>1, <2>2 DEF FtpRemoveDir, TypeOK
<1>23. ASSUME NEW f \in FtpSessions, NEW from \in Names, NEW to \in Names, FtpRename(f, from, to)
       PROVE  HomeInv'
  <2>1. size' \in [Files -> Nat]
    BY <1>23, ReclaimType DEF FtpRename
  <2>2. dir' \in [Names -> Files \cup {NoFile}] /\ harmed' \in BOOLEAN
    BY <1>23, RelinkedType DEF FtpRename
  <2>3. QED
    BY <1>23, <2>1, <2>2 DEF FtpRename, Moved, TypeOK
<1>24. CASE UNCHANGED vars
  BY <1>24 DEF vars, TypeOK
<1>25. QED
  BY <1>1, <1>2, <1>3, <1>4, <1>5, <1>6, <1>7, <1>8, <1>9, <1>10, <1>11, <1>12,
     <1>13, <1>14, <1>15, <1>16, <1>17, <1>18, <1>19, <1>20, <1>21, <1>22, <1>23,
     <1>24 DEF Next, SftpStep, FtpStep

(* Types, and files open as long as a request uses them.                   *)
LEMMA HomeInvariant == Spec => []HomeInv
BY HomeInit, HomeStep, PTL DEF Spec

(* Every variable keeps its type.                                          *)
THEOREM HomeTypeCorrect == Spec => []TypeOK
BY HomeInvariant, PTL DEF HomeInv

-----------------------------------------------------------------------------
(* Nothing is recorded as harmed for a rewriter, or if nothing is lost.    *)
LEMMA Harmless ==
  ASSUME AppendOnlyKeeps, NEW condition, Harm(condition), rewriter \/ ~condition
  PROVE  AppendOnlyKeeps'
BY Zenon DEF AppendOnlyKeeps, Harm

(* A request that an account may make that only appends is mild.           *)
LEMMA ChecksMild ==
  ASSUME TypeOK, NEW s \in SftpSessions, Checks(s), rights \subseteq AppendOnly
  PROVE  Mild(s)'
<1> USE DEF AppendOnly, Mild
<1>1. ASSUME NEW n \in Names, NEW flags \in SUBSET OpenFlags, CheckOpen(s, n, flags)
      PROVE  Mild(s)'
  <2>1. pc'[s] = "open" /\ asked'[s].flags = flags
    BY <1>1 DEF CheckOpen, Ask, Goto, Request, Sessions, TypeOK
  <2>2. "truncate" \notin flags /\ (Writable(flags) => "append" \in flags)
    BY <1>1 DEF CheckOpen, Allowed, Combines, Writable
  <2> QED
    BY <2>1, <2>2 DEF Writable
<1>2. CASE CheckMakeDir(s)
  BY <1>2 DEF CheckMakeDir, Ask, Goto, Sessions, TypeOK
<1> QED
  BY <1>1, <1>2 DEF Checks, CheckSetLength, CheckRemove, CheckRemoveDir, CheckRename

(* A step of one SFTP session that opens nothing keeps the others mild.    *)
LEMMA OthersMild ==
  ASSUME TypeOK, OnlyAppends, ~rewriter, NEW s \in SftpSessions, NEW step,
         NEW request, pc' = [pc EXCEPT ![s] = step],
         asked' = [asked EXCEPT ![s] = request] \/ UNCHANGED asked,
         step \in {"idle", "measure", "write"} \/ Mild(s)'
  PROVE  \A t \in SftpSessions : Mild(t)'
BY DEF OnlyAppends, Mild, Writable, Sessions, TypeOK

(* No session of an account that may only append harms a file.             *)
LEMMA AppendStep ==
  HomeInv /\ OnlyAppends /\ AppendOnlyKeeps /\ [Next]_vars
    => OnlyAppends' /\ AppendOnlyKeeps'
<1> SUFFICES ASSUME TypeOK, Opens, OnlyAppends, AppendOnlyKeeps, [Next]_vars
             PROVE  OnlyAppends' /\ AppendOnlyKeeps'
  BY DEF HomeInv
<1> USE HomeAssumption DEF files, locals, history
<1> DEFINE SftpPart ==
      /\ \A s \in SftpSessions : Mild(s)
      /\ \A s \in SftpSessions, h \in Handles :
           handles[s][h] # Closed /\ handles[s][h].writable => handles[s][h].append
<1>a. ASSUME UNCHANGED <<rights, snapshot, rewriter>>,
             \A f \in FtpSessions : pc'[f] = pc[f], ~rewriter => SftpPart'
      PROVE  OnlyAppends'
  BY <1>a DEF OnlyAppends
<1>b. ~rewriter => SftpPart
  BY DEF OnlyAppends
<1>c. ASSUME NEW s \in SftpSessions, NEW step, pc' = [pc EXCEPT ![s] = step]
      PROVE  \A f \in FtpSessions : pc'[f] = pc[f]
  BY <1>c DEF Sessions, TypeOK
<1>d. ASSUME UNCHANGED <<handles, pc, asked>> PROVE SftpPart => SftpPart'
  BY <1>d DEF Mild
<1>e. ASSUME UNCHANGED harmed PROVE AppendOnlyKeeps'
  BY <1>e DEF AppendOnlyKeeps
<1>f. ASSUME NEW s \in SftpSessions, Answer(s), UNCHANGED <<rights, snapshot, rewriter>>,
             ~rewriter => \A t \in SftpSessions, h \in Handles :
               handles'[t][h] # Closed /\ handles'[t][h].writable
                 => handles'[t][h].append
      PROVE  OnlyAppends'
  <2>1. pc' = [pc EXCEPT ![s] = "idle"] /\ asked' = [asked EXCEPT ![s] = NoRequest]
    BY <1>f DEF Answer, Goto
  <2>2. ~rewriter => \A t \in SftpSessions : Mild(t)'
    BY <2>1, OthersMild
  <2> QED
    BY <1>a, <1>c, <1>f, <2>1, <2>2
<1>1. CASE SetRights
  <2>1. AppendOnlyKeeps'
    BY <1>1, <1>e DEF SetRights
  <2>2. ASSUME ~rewriter' PROVE rights' \subseteq AppendOnly /\ (~rewriter \/ AtRest)
    BY <1>1, <2>2, Zenon DEF SetRights
  <2>3. ASSUME ~rewriter', AtRest PROVE OnlyAppends'
    <3>1. rights' \subseteq AppendOnly
      BY <2>2, <2>3
    <3>2. \A f \in FtpSessions : snapshot'[f] = Closed /\ pc'[f] = "idle"
      <4>1. \A f \in FtpSessions : snapshot[f] = Closed /\ pc[f] = "idle"
        BY <2>3 DEF AtRest, Sessions
      <4> QED
        BY <1>1, <4>1 DEF SetRights
    <3>3. \A s \in SftpSessions :
            pc'[s] = "idle" /\ \A h \in Handles : handles'[s][h] = Closed
      BY <1>1, <2>3 DEF SetRights, AtRest, Sessions
    <3> QED
      BY <3>1, <3>2, <3>3 DEF OnlyAppends, Mild
  <2>4. ASSUME ~rewriter', ~rewriter PROVE OnlyAppends'
    <3>1. rights' \subseteq AppendOnly /\ UNCHANGED <<snapshot, pc, handles, asked>>
      BY <1>1, <2>2, <2>4 DEF SetRights
    <3> QED
      BY <1>b, <1>d, <2>4, <3>1 DEF OnlyAppends
  <2> QED
    BY <2>1, <2>2, <2>3, <2>4 DEF OnlyAppends
<1>2. ASSUME NEW s \in SftpSessions, Open(s)
      PROVE  OnlyAppends' /\ AppendOnlyKeeps'
  <2> DEFINE flags == asked[s].flags
  <2>1. PICK h \in Handles, g \in Files :
          /\ Opened(asked[s].name, g, "truncate" \in flags)
          /\ handles' = [handles EXCEPT ![s][h] =
               [file |-> g, append |-> "append" \in flags,
                writable |-> Writable(flags)]]
    BY <1>2 DEF Open
  <2>2. ~rewriter => "truncate" \notin flags /\ (Writable(flags) => "append" \in flags)
    BY <1>2, <1>b DEF Open, Mild
  <2>3. AppendOnlyKeeps'
    <3>1. Harm("truncate" \in flags /\ size[g] > 0)
      BY <2>1 DEF Opened
    <3>2. rewriter \/ ~("truncate" \in flags /\ size[g] > 0)
      BY <2>2
    <3> QED
      BY <3>1, <3>2, Harmless
  <2>4. ~rewriter => \A t \in SftpSessions, k \in Handles :
          handles'[t][k] # Closed /\ handles'[t][k].writable => handles'[t][k].append
    <3> SUFFICES ASSUME ~rewriter, NEW t \in SftpSessions, NEW k \in Handles,
                        handles'[t][k] # Closed, handles'[t][k].writable
                 PROVE  handles'[t][k].append
      OBVIOUS
    <3>1. CASE t = s /\ k = h
      <4>1. handles'[t][k] = [file |-> g, append |-> "append" \in flags,
                              writable |-> Writable(flags)]
        BY <2>1, <3>1 DEF TypeOK
      <4>2. Writable(flags) /\ handles'[t][k].append = ("append" \in flags)
        BY <4>1
      <4>3. QED
        BY <2>2, <4>2
    <3>2. CASE ~(t = s /\ k = h)
      <4>1. handles'[t][k] = handles[t][k]
        BY <2>1, <3>2 DEF TypeOK
      <4>2. QED
        BY <1>b, <4>1
    <3>3. QED
      BY <3>1, <3>2
  <2>5. QED
    BY <1>2, <1>f, <2>3, <2>4 DEF Open
<1>3. ASSUME NEW s \in SftpSessions, NEW h \in Handles, Close(s, h)
      PROVE  OnlyAppends' /\ AppendOnlyKeeps'
  <2>1. \A t \in SftpSessions, k \in Handles :
          handles'[t][k] # Closed => handles'[t][k] = handles[t][k]
    BY <1>3 DEF Close, TypeOK
  <2>2. ~rewriter => SftpPart'
    BY <1>3, <1>b, <2>1 DEF Close, Mild
  <2>3. QED
    BY <1>3, <1>a, <1>e, <2>2 DEF Close
<1>4. ASSUME NEW s \in SftpSessions, NEW step \in {"idle", "measure", "write"},
             pc' = [pc EXCEPT ![s] = step],
             UNCHANGED <<rights, snapshot, rewriter, handles, asked>>
      PROVE  OnlyAppends'
  <2>1. ~rewriter => \A t \in SftpSessions : Mild(t)'
    BY <1>4, OthersMild
  <2>2. QED
    BY <1>4, <1>a, <1>b, <1>c, <2>1
<1>5. ASSUME NEW s \in SftpSessions, BeginWrite(s) \/ Measure(s) \/ CheckQuota(s)
      PROVE  OnlyAppends' /\ AppendOnlyKeeps'
  <2>1. CASE Measure(s)
    BY <1>a, <1>b, <1>d, <1>e, <2>1 DEF Measure
  <2>2. CASE BeginWrite(s)
    BY <1>4, <1>e, <2>2 DEF BeginWrite, Goto
  <2>3. CASE CheckQuota(s)
    BY <1>4, <1>e, <2>3 DEF CheckQuota, Goto
  <2>4. QED
    BY <1>5, <2>1, <2>2, <2>3
<1>6. ASSUME NEW s \in SftpSessions, Write(s)
      PROVE  OnlyAppends' /\ AppendOnlyKeeps'
  <2> DEFINE handle == handles[s][write[s].handle]
  <2>1. handle \in HandleRecord /\ handle.writable
    BY <1>6, SMTT(30) DEF Write, Opens, Writes, TypeOK
  <2>2. PICK position \in IF handle.append THEN {size[handle.file]} ELSE 0..MaxSize :
          Written(handle.file, position, write[s].length)
    BY <1>6 DEF Write
  <2>3. ~rewriter => handle.append
    BY <1>6, <2>1 DEF Write, Opens, Writes, OnlyAppends, TypeOK
  <2>4. size[handle.file] \in Nat
    BY <2>1 DEF HandleRecord, TypeOK
  <2>5. AppendOnlyKeeps'
    <3>1. Harm(position < size[handle.file])
      BY <2>2 DEF Written
    <3>2. rewriter \/ ~(position < size[handle.file])
      BY <2>2, <2>3, <2>4, SMTT(30)
    <3> QED
      BY <3>1, <3>2, Harmless
  <2>6. OnlyAppends'
    BY <1>6, <1>4 DEF Write, Goto
  <2>7. QED
    BY <2>5, <2>6
<1>7. ASSUME NEW s \in SftpSessions,
             SetLength(s) \/ Remove(s) \/ RemoveDir(s) \/ Rename(s)
      PROVE  OnlyAppends' /\ AppendOnlyKeeps'
  <2>1. rewriter
    BY <1>7, <1>b DEF SetLength, Remove, RemoveDir, Rename, Mild
  <2>2. \E condition : Harm(condition)
    BY <1>7 DEF SetLength, Remove, RemoveDir, Rename, Unlinked, Relinked
  <2>3. Answer(s) /\ UNCHANGED <<rights, snapshot, rewriter>>
    BY <1>7 DEF SetLength, Remove, RemoveDir, Rename
  <2>4. QED
    BY <1>f, <2>1, <2>2, <2>3, Harmless
<1>8. ASSUME NEW s \in SftpSessions, MakeDir(s) \/ Fail(s)
      PROVE  OnlyAppends' /\ AppendOnlyKeeps'
  <2>1. Answer(s) /\ UNCHANGED <<rights, snapshot, rewriter, harmed, handles>>
    BY <1>8 DEF MakeDir, Fail
  <2>2. QED
    BY <1>b, <1>e, <1>f, <2>1
<1>9. ASSUME NEW s \in SftpSessions, Checks(s)
      PROVE  OnlyAppends' /\ AppendOnlyKeeps'
  <2>1. PICK step \in Asks, request \in RequestRecord : Ask(s, step, request)
    BY <1>9, ChecksAsk
  <2>2. /\ pc' = [pc EXCEPT ![s] = step] /\ asked' = [asked EXCEPT ![s] = request]
        /\ UNCHANGED <<rights, snapshot, handles, rewriter, harmed>>
    BY <2>1 DEF Ask, Goto
  <2>3. ~rewriter => Mild(s)'
    BY <1>9, ChecksMild DEF OnlyAppends
  <2>4. ~rewriter => \A t \in SftpSessions : Mild(t)'
    BY <2>2, <2>3, OthersMild
  <2>5. QED
    BY <1>a, <1>b, <1>c, <1>e, <2>2, <2>4
<1>10. ASSUME NEW f \in FtpSessions, Login(f)
      PROVE  OnlyAppends' /\ AppendOnlyKeeps'
  <2>1. \A g \in FtpSessions : snapshot'[g] \in {snapshot[g], rights}
    BY <1>10 DEF Login, TypeOK
  <2>2. QED
    BY <1>10, <1>b, <1>d, <1>e, <2>1 DEF Login, OnlyAppends
<1>11. ASSUME NEW f \in FtpSessions, Logout(f)
      PROVE  OnlyAppends' /\ AppendOnlyKeeps'
  <2>1. \A g \in FtpSessions : snapshot'[g] \in {snapshot[g], Closed}
    BY <1>11 DEF Logout, TypeOK
  <2>2. QED
    BY <1>11, <1>b, <1>d, <1>e, <2>1 DEF Logout, OnlyAppends
<1>12. ASSUME NEW f \in FtpSessions, NEW n \in Names, StartPut(f, n)
      PROVE  OnlyAppends' /\ AppendOnlyKeeps'
  <2>1. rewriter
    BY <1>12 DEF StartPut, May, OnlyAppends, AppendOnly
  <2>2. \E condition : Harm(condition)
    BY <1>12 DEF StartPut, Opened
  <2>3. rewriter'
    BY <1>12, <2>1 DEF StartPut
  <2>4. QED
    BY <2>1, <2>2, <2>3, Harmless DEF OnlyAppends
<1>13. ASSUME NEW f \in FtpSessions, PutChunk(f)
      PROVE  OnlyAppends' /\ AppendOnlyKeeps'
  <2>1. rewriter
    BY <1>13 DEF PutChunk, OnlyAppends
  <2>2. \E condition : Harm(condition)
    BY <1>13 DEF PutChunk, Written
  <2>3. rewriter'
    BY <1>13, <2>1 DEF PutChunk
  <2>4. QED
    BY <2>1, <2>2, <2>3, Harmless DEF OnlyAppends
<1>14. ASSUME NEW f \in FtpSessions, EndPut(f)
      PROVE  OnlyAppends' /\ AppendOnlyKeeps'
  <2>1. rewriter /\ rewriter'
    BY <1>14 DEF EndPut, OnlyAppends
  <2>2. QED
    BY <1>14, <1>e, <2>1 DEF EndPut, OnlyAppends
<1>15. ASSUME NEW f \in FtpSessions, NEW condition, Harm(condition),
              May(f, "delete") \/ May(f, "rmdir") \/ May(f, "rename"),
              UNCHANGED rewriter
      PROVE  OnlyAppends' /\ AppendOnlyKeeps'
  <2>1. rewriter
    BY <1>15 DEF May, OnlyAppends, AppendOnly
  <2>2. QED
    BY <1>15, <2>1, Harmless DEF OnlyAppends
<1>16. ASSUME NEW f \in FtpSessions, FtpMakeDir(f)
      PROVE  OnlyAppends' /\ AppendOnlyKeeps'
  BY <1>16, <1>a, <1>b, <1>d, <1>e DEF FtpMakeDir
<1>17. ASSUME NEW f \in FtpSessions, NEW n \in Names, FtpRemove(f, n)
      PROVE  OnlyAppends' /\ AppendOnlyKeeps'
  BY <1>15, <1>17 DEF FtpRemove, Unlinked
<1>18. ASSUME NEW f \in FtpSessions, FtpRemoveDir(f)
      PROVE  OnlyAppends' /\ AppendOnlyKeeps'
  BY <1>15, <1>18 DEF FtpRemoveDir, Unlinked
<1>19. ASSUME NEW f \in FtpSessions, NEW from \in Names, NEW to \in Names, FtpRename(f, from, to)
      PROVE  OnlyAppends' /\ AppendOnlyKeeps'
  BY <1>15, <1>19 DEF FtpRename, Relinked
<1>20. CASE UNCHANGED vars
  BY <1>20, <1>a, <1>b, <1>d, <1>e DEF vars
<1>21. QED
  BY <1>1, <1>2, <1>3, <1>5, <1>6, <1>7, <1>8, <1>9, <1>10, <1>11, <1>12,
     <1>13, <1>14, <1>16, <1>17, <1>18, <1>19, <1>20
     DEF Next, SftpStep, FtpStep

(* What an account has stored keeps its path and every byte while it may   *)
(* only append and no session is left of a time when it might do more      *)
(* (rewriter), for any number of sessions, handles, files and paths.       *)
THEOREM AppendedStays == Spec => []AppendOnlyKeeps
<1>1. Init => OnlyAppends /\ AppendOnlyKeeps
  <2> SUFFICES ASSUME Init PROVE OnlyAppends /\ AppendOnlyKeeps
    OBVIOUS
  <2>1. rewriter = ~(rights \subseteq AppendOnly)
    BY DEF Init
  <2>2. ~rewriter => rights \subseteq AppendOnly
    BY <2>1, Zenon
  <2>3. QED
    BY <2>2 DEF Init, OnlyAppends, AppendOnlyKeeps, Mild, Sessions
<1>2. QED
  BY <1>1, HomeInvariant, AppendStep, PTL DEF Spec
-----------------------------------------------------------------------------
(* The quota                                                               *)

(* Each path names a file of its own.                                      *)
NamesApart == \A m, n \in Names : Exists(m) /\ dir[m] = dir[n] => m = n

(* Moreover a file that nothing refers to takes no space, and an FTP       *)
(* session refers to a file only while it uploads.                         *)
FilesApart ==
  /\ NamesApart
  /\ \A f \in Files : Unused(f) => size[f] = 0
  /\ \A f \in FtpSessions : Idle(f) => put[f].file = NoFile

(* The sessions with a WRITE under way.                                    *)
Running == {s \in SftpSessions : Writes(s)}

(* What the paths a walk has passed hold now.                              *)
Seen(s) == Cardinality(Stored(Names \ walk[s].left))

(* One write for each session but one and those still to write.            *)
Slack(waiting) ==
  MaxWrite * (Cardinality(SftpSessions) - 1 - Cardinality(waiting))

(* before[s] are the running sessions that began their walk before s: they *)
(* have not written since s began.                                         *)
Queue(before) ==
  /\ before \in [SftpSessions -> SUBSET SftpSessions]
  /\ \A s \in Running : before[s] \subseteq Running \ {s}
  /\ \A s, t \in Running : s # t =>
       \/ s \in before[t] /\ before[s] \subseteq before[t]
       \/ t \in before[s] /\ before[t] \subseteq before[s]

(* What a session that is not superseded by a later check has missed: at   *)
(* most one write of every session that may have written since.            *)
Reckons(s, waiting) ==
  /\ pc[s] = "measure" => Seen(s) <= walk[s].sum + Slack(waiting)
  /\ pc[s] = "write" => Usage + write[s].length <= Quota + Slack(waiting)

(* Superseded sessions, old, began their walk before the one that the      *)
(* present bound of the usage rests on.                                    *)
Bounded(old, before) ==
  /\ old \subseteq Running
  /\ Queue(before)
  /\ Usage <= Quota + Slack(old)
  /\ \A s \in Running \ old :
       old \subseteq before[s] /\ Reckons(s, before[s])

(* Until something grows the home unmeasured, there is such an order of    *)
(* the walks and such a set of superseded sessions.                        *)
QuotaInv ==
  /\ \A s \in SftpSessions : Writes(s) => write[s].length <= MaxWrite
  /\ ~unmeasured =>
       \E old \in SUBSET SftpSessions,
          before \in [SftpSessions -> SUBSET SftpSessions] :
            Bounded(old, before)

(* The units stored when path n holds z[n] of them.                        *)
Units(z, names) == UNION {{n} \X (1..z[n]) : n \in names}

(* A unit is a path and a position below its size.                         *)
LEMMA UnitsElements ==
  ASSUME NEW z \in [Names -> Nat], NEW names \in SUBSET Names
  PROVE  \A u : u \in Units(z, names) <=>
           \E n \in names : \E k \in 1..z[n] : u = <<n, k>>
BY DEF Units

(* Those of one path are as many as its size.                              *)
LEMMA UnitsOfOne ==
  ASSUME NEW m \in Names, NEW a \in Nat, NEW k \in Nat
  PROVE  /\ IsFiniteSet({m} \X (a + 1..a + k))
         /\ Cardinality({m} \X (a + 1..a + k)) = k
<1>1. IsFiniteSet({m}) /\ Cardinality({m}) = 1
  BY FS_Singleton
<1>2. IsFiniteSet(a + 1..a + k) /\ Cardinality(a + 1..a + k) = k
  BY FS_Interval
<1> QED
  BY <1>1, <1>2, FS_Product

(* A home has finitely many units.                                         *)
LEMMA UnitsFinite ==
  ASSUME NEW z \in [Names -> Nat], NEW names \in SUBSET Names
  PROVE  /\ IsFiniteSet(Units(z, names))
         /\ Cardinality(Units(z, names)) \in Nat
<1> DEFINE part == [n \in names |-> {n} \X (1..z[n])]
           parts == {part[n] : n \in names}
<1>1. IsFiniteSet(names)
  BY HomeAssumption, FS_Subset
<1>2. ASSUME NEW n \in names PROVE IsFiniteSet({n} \X (1..z[n]))
  <2>1. IsFiniteSet({n})
    BY FS_Singleton
  <2>2. IsFiniteSet(1..z[n])
    BY FS_Interval
  <2> QED
    BY <2>1, <2>2, FS_Product
<1>3. part \in Surjection(names, parts)
  BY DEF Surjection
<1>4. IsFiniteSet(parts)
  BY <1>1, <1>3, FS_Surjection
<1>5. IsFiniteSet(UNION parts)
  <2>1. \A q \in parts : IsFiniteSet(q)
    BY <1>2
  <2> HIDE DEF parts
  <2> QED
    BY <1>4, <2>1, FS_UNION
<1>6. Units(z, names) = UNION parts
  BY DEF Units
<1> QED
  BY <1>5, <1>6, FS_CardinalityType

(* Where paths hold no more than before, except that m holds k more, there *)
(* are at most k more units.                                               *)
LEMMA UnitsGrow ==
  ASSUME NEW y \in [Names -> Nat], NEW z \in [Names -> Nat],
         NEW S \in SUBSET Names, NEW T \in SUBSET Names,
         NEW m \in Names, NEW a \in Nat, NEW k \in Nat,
         \A n \in T \ {m} : n \in S /\ z[n] <= y[n],
         m \in T => z[m] <= a + k,
         a # 0 => m \in S /\ a <= y[m]
  PROVE  Cardinality(Units(z, T)) <= Cardinality(Units(y, S)) + k
<1> DEFINE more == {m} \X (a + 1..a + k)
           all == Units(y, S) \cup more
<1>1. Units(z, T) \subseteq all
  <2> SUFFICES ASSUME NEW n \in T, NEW i \in 1..z[n]
               PROVE  <<n, i>> \in all
    BY UnitsElements
  <2>1. CASE n # m
    <3>1. n \in S /\ i \in 1..y[n]
      BY <2>1
    <3> QED
      BY <3>1, UnitsElements
  <2>2. CASE n = m /\ i <= a
    <3>1. n \in S /\ i \in 1..y[n]
      BY <2>2
    <3> QED
      BY <3>1, UnitsElements
  <2>3. CASE n = m /\ ~(i <= a)
    <3>1. i \in a + 1..a + k
      BY <2>3
    <3> QED
      BY <2>3, <3>1
  <2> QED
    BY <2>1, <2>2, <2>3
<1>2. /\ IsFiniteSet(Units(y, S)) /\ Cardinality(Units(y, S)) \in Nat
      /\ IsFiniteSet(more) /\ Cardinality(more) = k
  BY UnitsFinite, UnitsOfOne, ZenonT(30)
<1>3. /\ IsFiniteSet(all)
      /\ Cardinality(all) = Cardinality(Units(y, S)) + k
                             - Cardinality(Units(y, S) \cap more)
  <2> HIDE DEF more
  <2> QED
    BY <1>2, FS_Union
<1>4. Cardinality(Units(y, S) \cap more) \in Nat
  BY <1>2, FS_Intersection, FS_CardinalityType
<1>5. Cardinality(Units(z, T)) <= Cardinality(all)
  BY <1>1, <1>3, FS_Subset
<1>6. Cardinality(Units(z, T)) \in Nat
  BY UnitsFinite
<1> QED
  BY <1>2, <1>3, <1>4, <1>5, <1>6

(* What one path holds, and the rest.                                      *)
LEMMA UnitsApart ==
  ASSUME NEW z \in [Names -> Nat], NEW S \in SUBSET Names, NEW m \in S
  PROVE  Cardinality(Units(z, S)) = Cardinality(Units(z, S \ {m})) + z[m]
<1> DEFINE one == {m} \X (0 + 1..0 + z[m])
           rest == Units(z, S \ {m})
<1>1. /\ IsFiniteSet(one) /\ Cardinality(one) = z[m]
      /\ IsFiniteSet(rest) /\ Cardinality(rest) \in Nat /\ z[m] \in Nat
  BY UnitsFinite, UnitsOfOne
<1>2. Units(z, S) = rest \cup one
  BY DEF Units
<1>3. rest \cap one = {}
  BY DEF Units
<1> HIDE DEF one, rest
<1>4. Cardinality(rest \cap one) = 0
  BY <1>3, FS_EmptySet
<1>5. Cardinality(rest \cup one)
        = Cardinality(rest) + Cardinality(one) - Cardinality(rest \cap one)
  BY <1>1, FS_Union, Zenon
<1>6. Cardinality(rest \cup one) = Cardinality(rest) + z[m]
  BY <1>1, <1>4, <1>5
<1> QED
  BY <1>2, <1>6 DEF rest

-----------------------------------------------------------------------------
(* Unlinking keeps the paths apart, and so does moving a file.             *)
LEMMA UnlinkedApart ==
  ASSUME TypeOK, NamesApart, NEW names, Unlinked(names)
  PROVE  NamesApart'
BY DEF NamesApart, Unlinked, Exists

(* A rename moves a file to one path and takes it from the other.          *)
LEMMA RelinkedApart ==
  ASSUME TypeOK, NamesApart, NEW from \in Names, NEW to \in Names,
         from # to, Relinked(from, to)
  PROVE  NamesApart'
BY DEF NamesApart, Relinked, Exists, TypeOK

(* Opening a path for writing keeps the files apart: a new file was unused.*)
LEMMA OpenedApart ==
  ASSUME TypeOK, FilesApart, NEW n \in Names, NEW f \in Files,
         NEW truncate \in BOOLEAN, Opened(n, f, truncate),
         \A g \in Files \ {f} : Unused(g)' => Unused(g)
  PROVE  /\ NamesApart'
         /\ \A g \in Files : Unused(g)' => size'[g] = 0
<1>1. dir' = [dir EXCEPT ![n] = f] /\ (IF Exists(n) THEN f = dir[n] ELSE Unused(f))
  BY DEF Opened
<1>2. NamesApart'
  <2> SUFFICES ASSUME NEW k \in Names, NEW m \in Names, dir'[k] # NoFile,
                      dir'[k] = dir'[m], k # m
               PROVE  FALSE
    BY DEF NamesApart, Exists
  <2>1. CASE Exists(n)
    <3>1. dir' = dir
      BY <1>1, <2>1 DEF TypeOK
    <3> QED
      BY <3>1 DEF FilesApart, NamesApart, Exists
  <2>2. CASE ~Exists(n)
    BY <1>1, <2>2 DEF FilesApart, NamesApart, Exists, Unused, TypeOK
  <2> QED
    BY <2>1, <2>2
<1>3. ~Unused(f)'
  BY <1>1 DEF Unused, TypeOK
<1>4. ASSUME NEW g \in Files \ {f}, Unused(g)' PROVE size'[g] = 0
  <2>1. size[g] = 0 /\ size'[g] = size[g]
    BY <1>4 DEF FilesApart, Opened, TypeOK
  <2> QED
    BY <2>1
<1> QED
  BY <1>2, <1>3, <1>4

(* Steps that change the size of one file only, which something refers to. *)
LEMMA ResizedApart ==
  ASSUME TypeOK, FilesApart, NEW f \in Files, ~Unused(f),
         UNCHANGED <<dir, handles>>,
         \A g \in FtpSessions : put'[g].file = put[g].file,
         \A g \in Files \ {f} : size'[g] = size[g]
  PROVE  /\ NamesApart'
         /\ \A g \in Files : Unused(g)' => size'[g] = 0
<1>1. \A g \in Files : Unused(g)' <=> Unused(g)
  BY DEF Unused
<1> QED
  BY <1>1 DEF FilesApart, NamesApart, Exists

(* A step of an SFTP session leaves the FTP sessions alone.                *)
LEMMA FtpAlone ==
  ASSUME TypeOK, FilesApart, NEW s \in SftpSessions, NEW step,
         UNCHANGED put, UNCHANGED pc \/ Goto(s, step)
  PROVE  \A f \in FtpSessions : Idle(f)' => put'[f].file = NoFile
BY HomeAssumption DEF FilesApart, Goto, Idle, Sessions, TypeOK

(* Files stay apart: a path gets a file no other path has, and a file that *)
(* nothing refers to any more is emptied.                                  *)
LEMMA ApartStep ==
  ASSUME HomeInv, FilesApart, [Next]_vars
  PROVE  FilesApart'
<1> DEFINE Spaceless == \A g \in Files : Unused(g)' => size'[g] = 0
           Resting == \A f \in FtpSessions : Idle(f)' => put'[f].file = NoFile
<1>0. TypeOK /\ Opens /\ NamesApart
  BY DEF HomeInv, FilesApart
<1>a. ASSUME Reclaim PROVE Spaceless
  BY <1>a DEF Reclaim
<1>b. NamesApart' /\ Spaceless /\ Resting => FilesApart'
  BY DEF FilesApart
<1>c. ASSUME UNCHANGED <<dir, size, handles, put>> PROVE NamesApart' /\ Spaceless
  BY <1>c DEF FilesApart, NamesApart, Exists, Unused
<1>d. ASSUME UNCHANGED <<put, pc>> PROVE Resting
  BY <1>d DEF FilesApart, Idle
<1>1. CASE SetRights \/ UNCHANGED vars
  BY <1>1, <1>b, <1>c, <1>d DEF SetRights, vars, files, locals
<1>2. ASSUME NEW s \in SftpSessions, SftpStep(s) PROVE FilesApart'
  <2>0. asked[s].name \in Names /\ asked[s].to \in Names
    BY <1>0 DEF TypeOK, RequestRecord
  <2>a. ASSUME Answer(s), UNCHANGED put PROVE Resting
    BY <1>0, <2>a, FtpAlone DEF Answer
  <2>1. CASE Open(s)
    <3> DEFINE n == asked[s].name
               flags == asked[s].flags
    <3>1. PICK h \in Handles, f \in Files :
            /\ handles[s][h] = Closed
            /\ Opened(n, f, "truncate" \in flags)
            /\ handles' = [handles EXCEPT ![s][h] =
                 [file |-> f, append |-> "append" \in flags,
                  writable |-> Writable(flags)]]
      BY <2>1 DEF Open
    <3>2. Answer(s) /\ UNCHANGED put
      BY <2>1 DEF Open
    <3>3. \A t \in SftpSessions, k \in Handles :
            handles[t][k] # Closed => handles'[t][k] = handles[t][k]
      BY <1>0, <3>1, <3>2 DEF TypeOK
    <3>4. \A m \in Names : dir[m] # NoFile => dir'[m] = dir[m]
      BY <1>0, <3>1 DEF Opened, Exists, TypeOK
    <3>5. \A g \in Files : Unused(g)' => Unused(g)
      BY <3>2, <3>3, <3>4, HomeAssumption DEF Unused
    <3>6. ("truncate" \in flags) \in BOOLEAN
      OBVIOUS
    <3>7. NamesApart' /\ Spaceless
      BY <1>0, <2>0, <3>1, <3>5, <3>6, OpenedApart, Zenon
    <3> QED
      BY <1>b, <2>a, <3>2, <3>7
  <2>2. ASSUME NEW h \in Handles, Close(s, h) PROVE FilesApart'
    <3>1. NamesApart'
      BY <1>0, <2>2 DEF Close, NamesApart, Exists
    <3> QED
      BY <1>a, <1>b, <1>d, <2>2, <3>1 DEF Close
  <2>3. CASE BeginWrite(s) \/ Measure(s) \/ CheckQuota(s)
    <3>1. UNCHANGED <<dir, size, handles, put>>
      BY <2>3 DEF BeginWrite, Measure, CheckQuota, files
    <3>2. UNCHANGED pc \/ \E step : Goto(s, step)
      BY <2>3 DEF BeginWrite, Measure, CheckQuota
    <3> QED
      BY <1>0, <1>b, <1>c, <3>1, <3>2, FtpAlone
  <2>4. CASE Write(s)
    <3> DEFINE handle == handles[s][write[s].handle]
    <3>1. handle \in HandleRecord /\ handle # Closed
          /\ write[s].handle \in Handles
      BY <1>0, <2>4 DEF Write, Opens, Writes, TypeOK
    <3>2. handle.file \in Files /\ ~Unused(handle.file)
      BY <3>1 DEF HandleRecord, Unused
    <3>3. \A g \in Files \ {handle.file} : size'[g] = size[g]
      BY <1>0, <2>4 DEF Write, Written, TypeOK
    <3>4. UNCHANGED <<dir, handles, put>> /\ Goto(s, "idle")
      BY <2>4 DEF Write
    <3> QED
      BY <1>0, <1>b, <3>2, <3>3, <3>4, ResizedApart, FtpAlone
  <2>5. CASE SetLength(s)
    <3> DEFINE n == asked[s].name
    <3>1. dir[n] \in Files /\ ~Unused(dir[n])
      BY <1>0, <2>0, <2>5 DEF SetLength, Exists, Unused, TypeOK
    <3>2. \A g \in Files \ {dir[n]} : size'[g] = size[g]
      BY <1>0, <2>5 DEF SetLength, TypeOK
    <3>3. UNCHANGED <<dir, handles, put>> /\ Answer(s)
      BY <2>5 DEF SetLength
    <3> QED
      BY <1>0, <1>b, <2>a, <3>1, <3>2, <3>3, ResizedApart
  <2>6. CASE Remove(s) \/ RemoveDir(s)
    <3>1. /\ \E names : Unlinked(names)
          /\ Answer(s) /\ UNCHANGED put /\ Reclaim
      BY <2>6 DEF Remove, RemoveDir
    <3> QED
      BY <1>0, <1>a, <1>b, <2>a, <3>1, UnlinkedApart
  <2>7. CASE MakeDir(s) \/ Fail(s)
    BY <1>b, <1>c, <2>a, <2>7 DEF MakeDir, Fail, files
  <2>9. CASE Checks(s)
    <3>1. PICK step \in Asks, request \in RequestRecord : Ask(s, step, request)
      BY <2>9, ChecksAsk
    <3> QED
      BY <1>0, <1>b, <1>c, <3>1, FtpAlone DEF Ask, files
  <2>10. CASE Rename(s)
    <3>1. NamesApart'
      BY <1>0, <2>0, <2>10, RelinkedApart DEF Rename
    <3> QED
      BY <1>a, <1>b, <2>a, <2>10, <3>1 DEF Rename
  <2> QED
    BY <1>2, <2>1, <2>2, <2>3, <2>4, <2>5, <2>6, <2>7, <2>9, <2>10 DEF SftpStep
<1>3. ASSUME NEW f \in FtpSessions, FtpStep(f) PROVE FilesApart'
  <2>1. CASE Login(f) \/ Logout(f) \/ FtpMakeDir(f)
    BY <1>b, <1>c, <1>d, <2>1 DEF Login, Logout, FtpMakeDir, files, locals
  <2>2. ASSUME NEW n \in Names, StartPut(f, n) PROVE FilesApart'
    <3>1. PICK g \in Files, at \in 0..MaxSize :
            /\ Opened(n, g, at = 0)
            /\ put' = [put EXCEPT ![f] = [file |-> g, at |-> at]]
      BY <2>2 DEF StartPut
    <3>2. put[f].file = NoFile /\ UNCHANGED handles
      BY <2>2 DEF StartPut, May, FilesApart
    <3>3. \A m \in Names : dir[m] # NoFile => dir'[m] = dir[m]
      BY <1>0, <3>1 DEF Opened, Exists, TypeOK
    <3>4. \A t \in FtpSessions \ {f} : put'[t] = put[t]
      BY <1>0, <3>1 DEF TypeOK
    <3>5. \A k \in Files \ {g} : Unused(k)' => Unused(k)
      BY <3>2, <3>3, <3>4, HomeAssumption DEF Unused
    <3>6. NamesApart' /\ Spaceless
      BY <1>0, <3>1, <3>5, OpenedApart
    <3>7. Resting
      BY <1>0, <2>2, <3>4 DEF StartPut, Goto, Idle, FilesApart, Sessions, TypeOK
    <3> QED
      BY <1>b, <3>6, <3>7
  <2>3. ASSUME NEW n \in Names, FtpRemove(f, n) PROVE FilesApart'
    BY <1>0, <1>a, <1>b, <1>d, <2>3, UnlinkedApart DEF FtpRemove, locals
  <2>4. CASE PutChunk(f)
    <3>1. put[f].file \in Files /\ ~Unused(put[f].file)
      BY <1>0, <2>4 DEF PutChunk, Opens, Unused
    <3>2. \A g \in Files \ {put[f].file} : size'[g] = size[g]
      BY <1>0, <2>4 DEF PutChunk, Written, TypeOK
    <3>3. \A g \in FtpSessions : put'[g].file = put[g].file
      BY <1>0, <2>4 DEF PutChunk, TypeOK
    <3>4. NamesApart' /\ Spaceless
      BY <1>0, <2>4, <3>1, <3>2, <3>3, ResizedApart DEF PutChunk
    <3>5. Resting
      BY <2>4, <3>3 DEF PutChunk, Idle, FilesApart
    <3> QED
      BY <1>b, <3>4, <3>5
  <2>5. CASE EndPut(f)
    <3>1. NamesApart'
      BY <1>0, <2>5 DEF EndPut, NamesApart, Exists
    <3>2. Resting
      BY <1>0, <2>5 DEF EndPut, Goto, Idle, FilesApart, NoPut, Sessions, TypeOK
    <3> QED
      BY <1>a, <1>b, <2>5, <3>1, <3>2 DEF EndPut
  <2>6. CASE FtpRemoveDir(f)
    BY <1>0, <1>a, <1>b, <1>d, <2>6, UnlinkedApart DEF FtpRemoveDir, locals
  <2>7. ASSUME NEW from \in Names, NEW to \in Names, FtpRename(f, from, to)
        PROVE  FilesApart'
    BY <1>0, <1>a, <1>b, <1>d, <2>7, RelinkedApart DEF FtpRename, locals
  <2> QED
    BY <1>3, <2>1, <2>2, <2>3, <2>4, <2>5, <2>6, <2>7 DEF FtpStep
<1> QED
  BY <1>1, <1>2, <1>3 DEF Next

-----------------------------------------------------------------------------
(* What the paths hold before a step and after it.                         *)
Before == [n \in Names |-> SizeAt(n)]
After == [n \in Names |-> SizeAt(n)']

(* The usage and what a walk has seen, as units.                           *)
LEMMA UsageInUnits ==
  ASSUME TypeOK, TypeOK'
  PROVE  /\ Before \in [Names -> Nat] /\ After \in [Names -> Nat]
         /\ Usage = Cardinality(Units(Before, Names))
         /\ Usage' = Cardinality(Units(After, Names))
         /\ \A s \in SftpSessions :
              /\ Seen(s) = Cardinality(Units(Before, Names \ walk[s].left))
              /\ Seen(s)' = Cardinality(Units(After, Names \ walk'[s].left))
<1>1. Before \in [Names -> Nat]
  BY DEF Before, SizeAt, Exists, TypeOK
<1>2. After \in [Names -> Nat]
  BY DEF After, SizeAt, Exists, TypeOK
<1>3. \A S \in SUBSET Names :
        UNION {{n} \X (1..SizeAt(n)) : n \in S} = Units(Before, S)
  <2> TAKE S \in SUBSET Names
  <2>1. \A n \in S : Before[n] = SizeAt(n)
    BY DEF Before
  <2> QED
    BY <2>1 DEF Units
<1>4. \A S \in SUBSET Names :
        UNION {{n} \X (1..SizeAt(n)') : n \in S} = Units(After, S)
  <2> TAKE S \in SUBSET Names
  <2>1. \A n \in S : After[n] = SizeAt(n)'
    BY DEF After
  <2> QED
    BY <2>1 DEF Units
<1>5. Usage = Cardinality(Units(Before, Names))
  BY <1>3 DEF Usage, Stored
<1>6. Usage' = Cardinality(Units(After, Names))
  BY <1>4 DEF Usage, Stored
<1>7. ASSUME NEW s \in SftpSessions
      PROVE  /\ Seen(s) = Cardinality(Units(Before, Names \ walk[s].left))
             /\ Seen(s)' = Cardinality(Units(After, Names \ walk'[s].left))
  <2>1. Names \ walk[s].left \in SUBSET Names
    OBVIOUS
  <2>2. Names \ walk'[s].left \in SUBSET Names
    OBVIOUS
  <2>3. Seen(s) = Cardinality(Units(Before, Names \ walk[s].left))
    BY <1>3, <2>1 DEF Seen, Stored
  <2>4. Seen(s)' = Cardinality(Units(After, Names \ walk'[s].left))
    BY <1>4, <2>2 DEF Seen, Stored
  <2> QED
    BY <2>3, <2>4
<1> QED
  BY <1>1, <1>2, <1>5, <1>6, <1>7

(* Both are numbers.                                                       *)
LEMMA UsageNat ==
  ASSUME TypeOK, TypeOK'
  PROVE  /\ Usage \in Nat /\ Usage' \in Nat
         /\ \A s \in SftpSessions : Seen(s) \in Nat /\ Seen(s)' \in Nat
<1>1. \A S \in SUBSET Names :
        /\ Cardinality(Units(Before, S)) \in Nat
        /\ Cardinality(Units(After, S)) \in Nat
  BY UsageInUnits, UnitsFinite
<1>2. \A s \in SftpSessions :
        /\ Names \ walk[s].left \in SUBSET Names
        /\ Names \ walk'[s].left \in SUBSET Names
  OBVIOUS
<1> QED
  BY <1>1, <1>2, UsageInUnits

(* A step after which each path but m holds no more, and m at most k more, *)
(* adds at most k to the usage and to what each walk has seen.             *)
LEMMA UsageGrows ==
  ASSUME TypeOK, TypeOK', NEW m \in Names, NEW k \in Nat,
         \A n \in Names \ {m} : SizeAt(n)' <= SizeAt(n),
         SizeAt(m)' <= SizeAt(m) + k,
         UNCHANGED walk
  PROVE  /\ Usage' <= Usage + k
         /\ \A s \in SftpSessions : Seen(s)' <= Seen(s) + k
<1>1. /\ \A n \in Names : Before[n] = SizeAt(n) /\ After[n] = SizeAt(n)'
      /\ Before \in [Names -> Nat] /\ After \in [Names -> Nat]
  BY UsageInUnits DEF Before, After
<1>2. ASSUME NEW S \in SUBSET Names
      PROVE  Cardinality(Units(After, S)) <= Cardinality(Units(Before, S)) + k
  <2>1. CASE m \in S
    <3>1. Before[m] \in Nat /\ After[m] <= Before[m] + k
      BY <1>1
    <3>2. \A n \in S \ {m} : n \in S /\ After[n] <= Before[n]
      BY <1>1
    <3> QED
      BY <1>1, <2>1, <3>1, <3>2, UnitsGrow, SMTT(30)
  <2>2. CASE m \notin S
    <3>1. \A n \in S \ {m} : n \in S /\ After[n] <= Before[n]
      BY <1>1
    <3> QED
      BY <1>1, <2>2, <3>1, UnitsGrow
  <2> QED
    BY <2>1, <2>2
<1>3. \A s \in SftpSessions : Names \ walk[s].left \in SUBSET Names
  OBVIOUS
<1> QED
  BY <1>2, <1>3, UsageInUnits

(* The allowance shrinks with the sessions that wait, one write for each.  *)
LEMMA SlackFacts ==
  ASSUME NEW A \in SUBSET SftpSessions
  PROVE  /\ Slack(A) \in Int
         /\ \A B \in SUBSET A : Slack(A) <= Slack(B)
         /\ \A s \in A : Slack(A \ {s}) = Slack(A) + MaxWrite
         /\ \A s \in SftpSessions : s \notin A => 0 <= Slack(A)
<1> DEFINE all == Cardinality(SftpSessions)
<1>1. IsFiniteSet(SftpSessions) /\ MaxWrite \in Nat
  BY HomeAssumption
<1>2. IsFiniteSet(A) /\ Cardinality(A) \in Nat /\ all \in Nat
  BY <1>1, FS_Subset, FS_CardinalityType
<1>3. \A B \in SUBSET A : Cardinality(B) \in Nat /\ Cardinality(B) <= Cardinality(A)
  BY <1>2, FS_Subset, FS_CardinalityType
<1>4. \A s \in A : Cardinality(A \ {s}) = Cardinality(A) - 1
  BY <1>2, FS_RemoveElement
<1>5. ASSUME NEW s \in SftpSessions, s \notin A PROVE Cardinality(A) + 1 <= all
  <2>1. Cardinality(A \cup {s}) = Cardinality(A) + 1
    BY <1>2, <1>5, FS_AddElement
  <2>2. Cardinality(A \cup {s}) <= all
    BY <1>1, FS_Subset
  <2> QED
    BY <2>1, <2>2
<1>6. \A x, y \in Int : x <= y => MaxWrite * x <= MaxWrite * y
  BY <1>1
<1>7. \A x \in Int : MaxWrite * (x + 1) = MaxWrite * x + MaxWrite
                      /\ MaxWrite * x \in Int /\ MaxWrite * 0 = 0
  BY <1>1
<1>8. Slack(A) \in Int
  BY <1>2, <1>7 DEF Slack
<1>9. ASSUME NEW B \in SUBSET A PROVE Slack(A) <= Slack(B)
  <2>1. all - 1 - Cardinality(A) <= all - 1 - Cardinality(B)
        /\ all - 1 - Cardinality(A) \in Int /\ all - 1 - Cardinality(B) \in Int
    BY <1>2, <1>3
  <2> QED
    BY <1>6, <2>1 DEF Slack
<1>10. ASSUME NEW s \in A PROVE Slack(A \ {s}) = Slack(A) + MaxWrite
  <2>1. all - 1 - Cardinality(A \ {s}) = (all - 1 - Cardinality(A)) + 1
        /\ all - 1 - Cardinality(A) \in Int
    BY <1>2, <1>4
  <2> QED
    BY <1>7, <2>1 DEF Slack
<1>11. ASSUME NEW s \in SftpSessions, s \notin A PROVE 0 <= Slack(A)
  <2>1. 0 <= all - 1 - Cardinality(A) /\ all - 1 - Cardinality(A) \in Int
    BY <1>2, <1>5, <1>11
  <2> QED
    BY <1>6, <1>7, <2>1 DEF Slack
<1> QED
  BY <1>8, <1>9, <1>10, <1>11

-----------------------------------------------------------------------------
(* A step that leaves the writes under way as they are.                    *)
Calm ==
  /\ UNCHANGED <<walk, write>>
  /\ \A s \in SftpSessions :
       /\ Writes(s)' <=> Writes(s)
       /\ Writes(s) => pc'[s] = pc[s]

(* Such a step keeps the bound if the home does not grow under a walk.     *)
LEMMA CalmStep ==
  ASSUME TypeOK, TypeOK', Calm, NEW old \in SUBSET SftpSessions,
         NEW before \in [SftpSessions -> SUBSET SftpSessions],
         Bounded(old, before), Usage' <= Usage,
         \A s \in SftpSessions : pc[s] = "measure" => Seen(s)' <= Seen(s)
  PROVE  Bounded(old, before)'
<1>1. Running' = Running
  BY DEF Running, Calm
<1>2. Queue(before)'
  BY <1>1 DEF Queue, Bounded
<1>3. Usage \in Nat /\ Usage' \in Nat /\ Quota \in Nat
      /\ \A s \in SftpSessions : Seen(s) \in Nat /\ Seen(s)' \in Nat
  BY UsageNat, HomeAssumption
<1>4. Usage' <= Quota + Slack(old)
  BY <1>3, SlackFacts DEF Bounded
<1>5. ASSUME NEW s \in Running \ old
      PROVE  old \subseteq before[s] /\ Reckons(s, before[s])'
  <2>1. /\ s \in SftpSessions /\ Writes(s) /\ old \subseteq before[s]
        /\ Reckons(s, before[s])
    BY DEF Bounded, Running
  <2>2. pc'[s] = pc[s] /\ walk'[s] = walk[s] /\ write'[s] = write[s]
        /\ walk[s].sum \in Nat /\ write[s].length \in Nat
        /\ Slack(before[s]) \in Int
    BY <2>1, SlackFacts DEF Calm, TypeOK
  <2>3. ASSUME pc'[s] = "measure"
        PROVE  Seen(s)' <= walk'[s].sum + Slack(before[s])
    <3>1. Seen(s)' <= Seen(s) /\ Seen(s) <= walk[s].sum + Slack(before[s])
      BY <2>1, <2>2, <2>3 DEF Reckons
    <3>2. Seen(s) \in Nat /\ Seen(s)' \in Nat
      BY <1>3, <2>1
    <3> QED
      BY <2>2, <3>1, <3>2
  <2>4. pc'[s] = "write" =>
          Usage' + write'[s].length <= Quota + Slack(before[s])
    BY <1>3, <2>1, <2>2 DEF Reckons
  <2> QED
    BY <2>1, <2>3, <2>4 DEF Reckons, Slack
<1>6. old \subseteq Running'
  BY <1>1 DEF Bounded
<1> QED
  BY <1>1, <1>2, <1>4, <1>5, <1>6 DEF Bounded, Slack

(* A session that begins a WRITE is the last in the queue.                 *)
LEMMA BeginWriteStep ==
  ASSUME TypeOK, TypeOK', NEW s \in SftpSessions, BeginWrite(s),
         NEW old \in SUBSET SftpSessions,
         NEW before \in [SftpSessions -> SUBSET SftpSessions],
         Bounded(old, before)
  PROVE  \E queue \in [SftpSessions -> SUBSET SftpSessions] :
           Bounded(old, queue)'
<1>1. /\ pc[s] = "idle" /\ pc' = [pc EXCEPT ![s] = "measure"]
      /\ walk' = [walk EXCEPT ![s] = [left |-> Names, sum |-> 0]]
      /\ UNCHANGED <<dir, size>>
  BY DEF BeginWrite, Idle, Goto, files
<1>2. s \notin Running /\ Running \subseteq SftpSessions
  BY <1>1 DEF Running, Writes
<1>3. Running' = Running \cup {s}
  BY <1>1 DEF Running, Writes, Sessions, TypeOK
<1>4. PICK queue \in [SftpSessions -> SUBSET SftpSessions] :
        queue[s] = Running /\ \A t \in Running : queue[t] = before[t]
  <2> DEFINE q == [before EXCEPT ![s] = Running]
  <2>1. /\ q \in [SftpSessions -> SUBSET SftpSessions]
        /\ q[s] = Running /\ \A t \in Running : q[t] = before[t]
    BY <1>2
  <2> QED
    BY <2>1
<1>5. Queue(queue)'
  <2>1. \A t \in Running' : queue[t] \subseteq Running' \ {t}
    BY <1>2, <1>3, <1>4 DEF Bounded, Queue
  <2>2. ASSUME NEW t \in Running', NEW u \in Running', t # u
        PROVE  \/ t \in queue[u] /\ queue[t] \subseteq queue[u]
               \/ u \in queue[t] /\ queue[u] \subseteq queue[t]
    <3>1. CASE t = s
      BY <1>2, <1>3, <1>4, <2>2, <3>1 DEF Bounded, Queue
    <3>2. CASE u = s
      BY <1>2, <1>3, <1>4, <2>2, <3>2 DEF Bounded, Queue
    <3>3. CASE t # s /\ u # s
      BY <1>3, <1>4, <2>2, <3>3 DEF Bounded, Queue
    <3> QED
      BY <3>1, <3>2, <3>3
  <2> QED
    BY <1>4, <2>1, <2>2 DEF Queue
<1>6. Usage' = Usage /\ \A t \in SftpSessions \ {s} : Seen(t)' = Seen(t)
  BY <1>1 DEF Usage, Seen, Stored, SizeAt, Exists, TypeOK
<1>7. Seen(s)' = 0
  <2>1. Names \ walk'[s].left = {}
    BY <1>1 DEF TypeOK
  <2>2. Seen(s)' = Cardinality(Units(After, {}))
    BY <2>1, UsageInUnits
  <2>3. Units(After, {}) = {}
    BY DEF Units
  <2> QED
    BY <2>2, <2>3, FS_EmptySet
<1>8. old \subseteq Running' /\ Usage' <= Quota + Slack(old)
  BY <1>3, <1>6 DEF Bounded
<1>9. ASSUME NEW t \in Running' \ old
      PROVE  old \subseteq queue[t] /\ Reckons(t, queue[t])'
  <2>1. CASE t = s
    <3>1. pc'[s] = "measure" /\ walk'[s].sum = 0
      BY <1>1 DEF Sessions, TypeOK
    <3>2. 0 <= Slack(Running) /\ Slack(Running) \in Int
      BY <1>2, SlackFacts
    <3>3. Seen(s)' <= walk'[s].sum + Slack(queue[s])
      BY <1>4, <1>7, <3>1, <3>2
    <3> QED
      BY <1>4, <2>1, <3>1, <3>3 DEF Reckons, Bounded, Slack
  <2>2. CASE t # s
    <3>1. /\ t \in Running \ old /\ t \in SftpSessions /\ queue[t] = before[t]
          /\ pc'[t] = pc[t] /\ walk'[t] = walk[t] /\ write'[t] = write[t]
      BY <1>1, <1>2, <1>3, <1>4, <2>2 DEF BeginWrite, Sessions, TypeOK
    <3>2. old \subseteq before[t] /\ Reckons(t, before[t])
      BY <3>1 DEF Bounded
    <3> QED
      BY <1>6, <2>2, <3>1, <3>2 DEF Reckons, Slack
  <2> QED
    BY <2>1, <2>2
<1> QED
  BY <1>5, <1>8, <1>9 DEF Bounded, Slack

(* The sum of a walk grows by what the path holds that it comes to.        *)
LEMMA MeasureStep ==
  ASSUME TypeOK, TypeOK', NEW s \in SftpSessions, Measure(s),
         NEW old \in SUBSET SftpSessions,
         NEW before \in [SftpSessions -> SUBSET SftpSessions],
         Bounded(old, before)
  PROVE  Bounded(old, before)'
<1>1. PICK n \in walk[s].left :
        walk' = [walk EXCEPT ![s] =
                   [left |-> @.left \ {n}, sum |-> @.sum + SizeAt(n)]]
  BY DEF Measure
<1>2. UNCHANGED <<dir, size, pc, write>>
  BY DEF Measure, files
<1>3. Running' = Running
  BY <1>2 DEF Running, Writes
<1>4. Usage' = Usage /\ \A t \in SftpSessions \ {s} : Seen(t)' = Seen(t)
  BY <1>1, <1>2 DEF Usage, Seen, Stored, SizeAt, Exists, TypeOK
<1>5. n \in Names /\ SizeAt(n) \in Nat /\ walk[s].sum \in Nat
      /\ walk'[s].left = walk[s].left \ {n}
      /\ walk'[s].sum = walk[s].sum + SizeAt(n)
  BY <1>1 DEF TypeOK, SizeAt, Exists
<1>6. Seen(s)' <= Seen(s) + SizeAt(n)
  <2> DEFINE S == Names \ walk[s].left
             T == Names \ walk'[s].left
  <2>1. After = Before /\ Before[n] = SizeAt(n)
    BY <1>2, <1>5 DEF After, Before, SizeAt, Exists
  <2>2. S \in SUBSET Names /\ T \in SUBSET Names
        /\ \A m \in T \ {n} : m \in S /\ Before[m] <= Before[m]
    BY <1>5, UsageInUnits
  <2>3. Before \in [Names -> Nat] /\ Before[n] <= 0 + SizeAt(n)
    BY <1>5, <2>1, UsageInUnits
  <2> HIDE DEF S, T
  <2>4. Cardinality(Units(Before, T)) <= Cardinality(Units(Before, S)) + SizeAt(n)
    BY <1>5, <2>2, <2>3, UnitsGrow
  <2> QED
    BY <2>1, <2>4, UsageInUnits DEF S, T
<1>7. ASSUME NEW t \in Running \ old
      PROVE  old \subseteq before[t] /\ Reckons(t, before[t])'
  <2>1. t \in SftpSessions /\ old \subseteq before[t] /\ Reckons(t, before[t])
    BY DEF Bounded, Running
  <2>2. CASE t # s
    <3>1. walk'[t] = walk[t]
      BY <1>1, <2>1, <2>2 DEF TypeOK
    <3> QED
      BY <1>2, <1>4, <2>1, <2>2, <3>1 DEF Reckons, Slack
  <2>3. CASE t = s
    <3>1. pc[s] = "measure" /\ pc'[s] = "measure"
      BY <1>2 DEF Measure
    <3>2. Seen(s) <= walk[s].sum + Slack(before[s]) /\ Slack(before[s]) \in Int
      BY <2>1, <2>3, <3>1, SlackFacts DEF Reckons
    <3>3. Seen(s) \in Nat /\ Seen(s)' \in Nat
      BY UsageNat
    <3>4. Seen(s)' <= walk'[s].sum + Slack(before[s])
      BY <1>5, <1>6, <3>2, <3>3
    <3> QED
      BY <2>1, <2>3, <3>1, <3>4 DEF Reckons, Slack
  <2> QED
    BY <2>2, <2>3
<1>8. Queue(before)' /\ old \subseteq Running' /\ Usage' <= Quota + Slack(old)
  BY <1>3, <1>4 DEF Bounded, Queue
<1> QED
  BY <1>3, <1>7, <1>8 DEF Bounded, Slack

(* A session that has written or was refused leaves the queue.             *)
LEMMA LeavesQueue ==
  ASSUME NEW s \in SftpSessions, Running' = Running \ {s},
         NEW before \in [SftpSessions -> SUBSET SftpSessions],
         NEW queue \in [SftpSessions -> SUBSET SftpSessions],
         \A t \in SftpSessions : queue[t] = before[t] \ {s},
         Queue(before)
  PROVE  Queue(queue)'
<1>1. Running \subseteq SftpSessions
  BY DEF Running
<1>2. \A t \in Running' : queue[t] \subseteq Running' \ {t}
  BY <1>1 DEF Queue
<1>3. ASSUME NEW t \in Running', NEW u \in Running', t # u
      PROVE  \/ t \in queue[u] /\ queue[t] \subseteq queue[u]
             \/ u \in queue[t] /\ queue[u] \subseteq queue[t]
  <2>1. \/ t \in before[u] /\ before[t] \subseteq before[u]
        \/ u \in before[t] /\ before[u] \subseteq before[t]
    BY <1>3 DEF Queue
  <2>2. queue[t] = before[t] \ {s} /\ queue[u] = before[u] \ {s} /\ t # s /\ u # s
    BY <1>1
  <2> QED
    BY <2>1, <2>2
<1> QED
  BY <1>2, <1>3 DEF Queue

(* The check of a walk that is over lets the session write, or refuses.    *)
LEMMA CheckStep ==
  ASSUME TypeOK, TypeOK', NEW s \in SftpSessions, CheckQuota(s),
         NEW old \in SUBSET SftpSessions,
         NEW before \in [SftpSessions -> SUBSET SftpSessions],
         Bounded(old, before)
  PROVE  \E late \in SUBSET SftpSessions,
            queue \in [SftpSessions -> SUBSET SftpSessions] :
              Bounded(late, queue)'
<1>1. /\ pc[s] = "measure" /\ walk[s].left = {} /\ UNCHANGED <<dir, size, write>>
      /\ walk' = [walk EXCEPT ![s] = NoWalk]
      /\ pc' = [pc EXCEPT ![s] =
           IF walk[s].sum + write[s].length <= Quota THEN "write" ELSE "idle"]
  BY DEF CheckQuota, Goto, files
<1>2. Usage' = Usage /\ \A t \in SftpSessions \ {s} : Seen(t)' = Seen(t)
  BY <1>1 DEF Usage, Seen, Stored, SizeAt, Exists, TypeOK
<1>3. Seen(s) = Usage
  <2>1. Names \ walk[s].left = Names
    BY <1>1
  <2> QED
    BY <2>1 DEF Seen, Usage
<1>4. \A t \in SftpSessions \ {s} :
        pc'[t] = pc[t] /\ walk'[t] = walk[t] /\ write'[t] = write[t]
  BY <1>1 DEF Sessions, TypeOK
<1>5. Usage \in Nat /\ Quota \in Nat /\ walk[s].sum \in Nat
      /\ write[s].length \in Nat
  BY UsageNat, HomeAssumption DEF TypeOK
<1>6. \A t \in SftpSessions \ {s} :
        Reckons(t, before[t]) => Reckons(t, before[t])'
  BY <1>2, <1>4 DEF Reckons, Slack
<1>7. CASE walk[s].sum + write[s].length <= Quota
  <2>1. pc'[s] = "write" /\ write'[s] = write[s]
    BY <1>1, <1>7 DEF Sessions, TypeOK
  <2>2. Running' = Running
    BY <1>1, <1>4, <2>1 DEF Running, Writes
  <2>3. ASSUME NEW t \in Running \ old
        PROVE  old \subseteq before[t] /\ Reckons(t, before[t])'
    <3>1. t \in SftpSessions /\ old \subseteq before[t] /\ Reckons(t, before[t])
      BY DEF Bounded, Running
    <3>2. CASE t = s
      <4>1. Usage <= walk[s].sum + Slack(before[s]) /\ Slack(before[s]) \in Int
        BY <1>1, <1>3, <3>1, <3>2, SlackFacts DEF Reckons
      <4>2. Usage' + write'[s].length <= Quota + Slack(before[s])
        BY <1>2, <1>5, <1>7, <2>1, <4>1
      <4> QED
        BY <2>1, <3>1, <3>2, <4>2 DEF Reckons, Slack
    <3> QED
      BY <1>6, <3>1, <3>2
  <2>4. Bounded(old, before)'
    BY <1>2, <2>2, <2>3 DEF Bounded, Queue, Slack
  <2> QED
    BY <2>4
<1>8. CASE ~(walk[s].sum + write[s].length <= Quota)
  <2>1. pc'[s] = "idle"
    BY <1>1, <1>8 DEF Sessions, TypeOK
  <2>2. Running' = Running \ {s}
    BY <1>4, <2>1 DEF Running, Writes
  <2>3. PICK late \in SUBSET SftpSessions : late = old \ {s}
    OBVIOUS
  <2>4. PICK queue \in [SftpSessions -> SUBSET SftpSessions] :
          \A t \in SftpSessions : queue[t] = before[t] \ {s}
    <3> DEFINE q == [t \in SftpSessions |-> before[t] \ {s}]
    <3>1. q \in [SftpSessions -> SUBSET SftpSessions]
          /\ \A t \in SftpSessions : q[t] = before[t] \ {s}
      OBVIOUS
    <3> QED
      BY <3>1
  <2>5. Queue(queue)'
    BY <2>2, <2>4, LeavesQueue DEF Bounded
  <2>6. late \subseteq Running'
    BY <2>2, <2>3 DEF Bounded
  <2>7. Slack(old) <= Slack(late) /\ Slack(old) \in Int /\ Slack(late) \in Int
    BY <2>3, SlackFacts
  <2>8. Usage' <= Quota + Slack(late)
    BY <1>2, <1>5, <2>7 DEF Bounded
  <2>9. ASSUME NEW t \in Running' \ late
        PROVE  late \subseteq queue[t] /\ Reckons(t, queue[t])'
    <3>1. /\ t \in SftpSessions \ {s} /\ t \in Running \ old
          /\ old \subseteq before[t] /\ Reckons(t, before[t])
      BY <2>2, <2>3 DEF Bounded, Running
    <3>2. late \subseteq queue[t] /\ queue[t] \in SUBSET before[t]
      BY <2>3, <2>4, <3>1
    <3>3. /\ Slack(before[t]) <= Slack(queue[t])
          /\ Slack(before[t]) \in Int /\ Slack(queue[t]) \in Int
      BY <3>1, <3>2, SlackFacts
    <3>4. /\ pc'[t] = pc[t] /\ walk'[t] = walk[t] /\ write'[t] = write[t]
          /\ walk[t].sum \in Nat /\ write[t].length \in Nat
          /\ Seen(t)' = Seen(t) /\ Seen(t) \in Nat
      BY <1>2, <1>4, <3>1, UsageNat DEF TypeOK
    <3>5. pc[t] = "measure" => Seen(t)' <= walk'[t].sum + Slack(queue[t])
      BY <3>1, <3>3, <3>4 DEF Reckons
    <3>6. pc[t] = "write" => Usage' + write'[t].length <= Quota + Slack(queue[t])
      BY <1>2, <1>5, <3>1, <3>3, <3>4 DEF Reckons
    <3> QED
      BY <3>2, <3>4, <3>5, <3>6 DEF Reckons, Slack
  <2>10. Bounded(late, queue)'
    BY <2>5, <2>6, <2>8, <2>9 DEF Bounded, Slack
  <2> QED
    BY <2>10
<1> QED
  BY <1>7, <1>8

(* A write in the file or at its end adds at most its length.              *)
LEMMA WriteGrows ==
  ASSUME HomeInv, TypeOK', FilesApart, NEW s \in SftpSessions, Write(s),
         ~unmeasured'
  PROVE  /\ Usage' <= Usage + write[s].length
         /\ \A t \in SftpSessions : Seen(t)' <= Seen(t) + write[s].length
<1> DEFINE file == handles[s][write[s].handle].file
           append == handles[s][write[s].handle].append
           length == write[s].length
<1>1. TypeOK /\ handles[s][write[s].handle] \in HandleRecord
  <2>1. TypeOK /\ Opens /\ Writes(s)
    BY DEF HomeInv, Write, Writes
  <2> QED
    BY <2>1, SMTT(30) DEF Opens, TypeOK
<1>2. PICK position \in IF append THEN {size[file]} ELSE 0..MaxSize :
        /\ Written(file, position, length)
        /\ unmeasured' = (unmeasured \/ position > size[file])
  BY DEF Write
<1>3. /\ file \in Files /\ size[file] \in Nat /\ length \in Nat
      /\ position \in Nat /\ UNCHANGED <<dir, walk>>
  <2>1. file \in Files
    BY <1>1 DEF HandleRecord
  <2>2. size[file] \in Nat /\ length \in Nat /\ UNCHANGED <<dir, walk>>
    BY <1>1, <2>1 DEF Write, TypeOK
  <2>3. position \in Nat
    <3>1. position = size[file] \/ position \in 0..MaxSize
      BY <1>2
    <3> HIDE DEF file
    <3> QED
      BY <2>2, <3>1, HomeAssumption
  <2> QED
    BY <2>1, <2>2, <2>3
<1>4. position <= size[file]
  <2>1. ~(position > size[file])
    BY <1>2, Zenon
  <2> QED
    BY <1>3, <2>1
<1> HIDE DEF file, append, length
<1>5. size'[file] <= size[file] + length
      /\ \A f \in Files \ {file} : size'[f] = size[f]
  <2>1. size'[file] = Max({size[file], position + length})
        /\ \A f \in Files \ {file} : size'[f] = size[f]
    BY <1>1, <1>2, <1>3 DEF Written, TypeOK
  <2>2. Max({size[file], position + length}) \in {size[file], position + length}
    BY <1>3, MaxOfTwo
  <2> QED
    BY <1>3, <1>4, <2>1, <2>2
<1>6. PICK m \in Names : \A n \in Names \ {m} : dir[n] # file
  <2>1. CASE \E n \in Names : dir[n] = file
    BY <1>3, <2>1, HomeAssumption DEF FilesApart, NamesApart, Exists
  <2>2. CASE ~ \E n \in Names : dir[n] = file
    BY <2>2, HomeAssumption
  <2> QED
    BY <2>1, <2>2
<1>7. \A n \in Names \ {m} : SizeAt(n)' <= SizeAt(n)
  BY <1>1, <1>3, <1>5, <1>6 DEF SizeAt, Exists, TypeOK
<1>8. SizeAt(m)' <= SizeAt(m) + length
  <2>1. CASE dir[m] = file
    BY <1>3, <1>5, <2>1, HomeAssumption DEF SizeAt, Exists
  <2>2. CASE dir[m] # file
    BY <1>1, <1>3, <1>5, <2>2 DEF SizeAt, Exists, TypeOK
  <2> QED
    BY <2>1, <2>2
<1> QED
  BY <1>1, <1>3, <1>7, <1>8, UsageGrows DEF length

(* A session that writes uses its share of the allowance: an old session   *)
(* its own, any other becomes the one that the bound rests on.             *)
LEMMA WriteStep ==
  ASSUME HomeInv, TypeOK', FilesApart, NEW s \in SftpSessions, Write(s),
         ~unmeasured', write[s].length <= MaxWrite,
         NEW old \in SUBSET SftpSessions,
         NEW before \in [SftpSessions -> SUBSET SftpSessions],
         Bounded(old, before)
  PROVE  \E late \in SUBSET SftpSessions,
            queue \in [SftpSessions -> SUBSET SftpSessions] :
              Bounded(late, queue)'
<1>0. TypeOK
  BY DEF HomeInv
<1>1. pc[s] = "write" /\ pc' = [pc EXCEPT ![s] = "idle"] /\ UNCHANGED walk
      /\ write' = [write EXCEPT ![s] = NoWrite]
  BY DEF Write, Goto
<1>2. \A t \in SftpSessions \ {s} :
        pc'[t] = pc[t] /\ walk'[t] = walk[t] /\ write'[t] = write[t]
  BY <1>0, <1>1 DEF Sessions, TypeOK
<1>3. s \in Running /\ Running' = Running \ {s} /\ Running \subseteq SftpSessions
  BY <1>0, <1>1, <1>2 DEF Running, Writes, Sessions, TypeOK
<1>4. /\ Usage \in Nat /\ Usage' \in Nat /\ Quota \in Nat /\ MaxWrite \in Nat
      /\ write[s].length \in Nat /\ Usage' <= Usage + MaxWrite
      /\ \A t \in SftpSessions :
           /\ Seen(t) \in Nat /\ Seen(t)' \in Nat
           /\ Seen(t)' <= Seen(t) + MaxWrite
  <2>1. /\ Usage \in Nat /\ Usage' \in Nat /\ Quota \in Nat /\ MaxWrite \in Nat
        /\ write[s].length \in Nat
        /\ \A t \in SftpSessions : Seen(t) \in Nat /\ Seen(t)' \in Nat
    BY <1>0, UsageNat, HomeAssumption DEF TypeOK
  <2>2. /\ Usage' <= Usage + write[s].length
        /\ \A t \in SftpSessions : Seen(t)' <= Seen(t) + write[s].length
    BY WriteGrows
  <2>3. Usage' <= Usage + MaxWrite
    BY <2>1, <2>2
  <2>4. ASSUME NEW t \in SftpSessions PROVE Seen(t)' <= Seen(t) + MaxWrite
    <3>1. /\ Seen(t) \in Nat /\ Seen(t)' \in Nat
          /\ Seen(t)' <= Seen(t) + write[s].length
      BY <2>1, <2>2
    <3> QED
      BY <2>1, <3>1
  <2> QED
    BY <2>1, <2>3, <2>4
<1>5. PICK queue \in [SftpSessions -> SUBSET SftpSessions] :
        \A t \in SftpSessions : queue[t] = before[t] \ {s}
  <2> DEFINE q == [t \in SftpSessions |-> before[t] \ {s}]
  <2>1. q \in [SftpSessions -> SUBSET SftpSessions]
        /\ \A t \in SftpSessions : q[t] = before[t] \ {s}
    OBVIOUS
  <2> QED
    BY <2>1
<1>6. Queue(queue)'
  BY <1>3, <1>5, LeavesQueue DEF Bounded
<1>7. ASSUME NEW t \in SftpSessions \ {s}, s \in before[t], Reckons(t, before[t])
      PROVE  Reckons(t, queue[t])'
  <2>1. Slack(queue[t]) = Slack(before[t]) + MaxWrite /\ Slack(before[t]) \in Int
    BY <1>5, <1>7, SlackFacts
  <2>2. /\ pc'[t] = pc[t] /\ walk'[t] = walk[t] /\ write'[t] = write[t]
        /\ walk[t].sum \in Nat /\ write[t].length \in Nat
        /\ Seen(t) \in Nat /\ Seen(t)' \in Nat /\ Seen(t)' <= Seen(t) + MaxWrite
    BY <1>0, <1>2, <1>4 DEF TypeOK
  <2>3. pc[t] = "measure" => Seen(t)' <= walk'[t].sum + Slack(queue[t])
    BY <1>4, <1>7, <2>1, <2>2 DEF Reckons
  <2>4. pc[t] = "write" => Usage' + write'[t].length <= Quota + Slack(queue[t])
    BY <1>4, <1>7, <2>1, <2>2 DEF Reckons
  <2> QED
    BY <2>2, <2>3, <2>4 DEF Reckons, Slack
<1>8. CASE s \in old
  <2>1. PICK late \in SUBSET SftpSessions : late = old \ {s}
    OBVIOUS
  <2>2. late \subseteq Running'
    BY <1>3, <2>1 DEF Bounded
  <2>3. Slack(late) = Slack(old) + MaxWrite /\ Slack(old) \in Int
    BY <1>8, <2>1, SlackFacts
  <2>4. Usage' <= Quota + Slack(late)
    BY <1>4, <2>3 DEF Bounded
  <2>5. ASSUME NEW t \in Running' \ late
        PROVE  late \subseteq queue[t] /\ Reckons(t, queue[t])'
    <3>1. /\ t \in SftpSessions \ {s} /\ old \subseteq before[t]
          /\ Reckons(t, before[t])
      BY <1>3, <2>1 DEF Bounded
    <3> QED
      BY <1>5, <1>7, <1>8, <2>1, <3>1
  <2>6. Bounded(late, queue)'
    BY <1>6, <2>2, <2>4, <2>5 DEF Bounded, Slack
  <2> QED
    BY <2>6
<1>9. CASE s \notin old
  <2>1. PICK late \in SUBSET SftpSessions : late = before[s]
    OBVIOUS
  <2>2. old \subseteq late /\ Reckons(s, late) /\ late \subseteq Running \ {s}
    BY <1>3, <1>9, <2>1 DEF Bounded, Queue
  <2>3. Usage + write[s].length <= Quota + Slack(late) /\ Slack(late) \in Int
    BY <1>1, <2>2, SlackFacts DEF Reckons
  <2>4. Usage' <= Quota + Slack(late)
    <3>1. Usage' <= Usage + write[s].length
      BY WriteGrows
    <3> QED
      BY <1>4, <2>3, <3>1
  <2>5. ASSUME NEW t \in Running' \ late
        PROVE  late \subseteq queue[t] /\ Reckons(t, queue[t])'
    <3>1. t \in SftpSessions \ {s} /\ t \in Running /\ t \notin old
      BY <1>3, <2>2
    <3>2. s \in before[t] /\ before[s] \subseteq before[t]
      BY <1>3, <2>1, <3>1 DEF Bounded, Queue
    <3>3. Reckons(t, before[t])
      BY <3>1 DEF Bounded
    <3>4. late \subseteq queue[t]
      BY <1>5, <2>1, <2>2, <3>1, <3>2
    <3> QED
      BY <1>7, <3>1, <3>2, <3>3, <3>4
  <2>6. Bounded(late, queue)'
    BY <1>3, <1>6, <2>2, <2>4, <2>5 DEF Bounded, Slack
  <2> QED
    BY <2>6
<1> QED
  BY <1>8, <1>9

-----------------------------------------------------------------------------
(* Steps that leave the writes under way alone.                            *)

(* No path holds more than before.                                         *)
Shrinks == \A n \in Names : SizeAt(n)' <= SizeAt(n)

(* Reclaiming takes no file away from a path.                              *)
LEMMA ReclaimShrinks ==
  ASSUME TypeOK, TypeOK', Reclaim, NEW n \in Names
  PROVE  SizeAt(n)' = IF dir'[n] # NoFile THEN size[dir'[n]] ELSE 0
<1>1. CASE dir'[n] # NoFile
  <2>1. PICK g \in Files : g = dir'[n]
    BY <1>1 DEF TypeOK
  <2>2. ~Unused(g)'
    BY <2>1 DEF Unused
  <2>3. size'[g] = size[g]
    BY <2>2 DEF Reclaim
  <2> QED
    BY <1>1, <2>1, <2>3 DEF SizeAt, Exists
<1>2. CASE dir'[n] = NoFile
  BY <1>2 DEF SizeAt, Exists
<1> QED
  BY <1>1, <1>2

(* Unlinking and reclaiming shrinks.                                       *)
LEMMA UnlinkedShrinks ==
  ASSUME TypeOK, TypeOK', Reclaim, NEW names, Unlinked(names) \/ UNCHANGED dir
  PROVE  Shrinks
<1> SUFFICES ASSUME NEW n \in Names PROVE SizeAt(n)' <= SizeAt(n)
  BY DEF Shrinks
<1>1. SizeAt(n)' = IF dir'[n] # NoFile THEN size[dir'[n]] ELSE 0
  BY ReclaimShrinks
<1>2. dir'[n] = dir[n] \/ dir'[n] = NoFile
  BY DEF Unlinked
<1>3. SizeAt(n) \in Nat
  BY DEF SizeAt, Exists, TypeOK
<1> QED
  BY <1>1, <1>2, <1>3 DEF SizeAt, Exists

(* Opening shrinks: a new file is empty.                                   *)
LEMMA OpenedShrinks ==
  ASSUME TypeOK, TypeOK', FilesApart, NEW n \in Names, NEW f \in Files,
         NEW truncate \in BOOLEAN, Opened(n, f, truncate)
  PROVE  Shrinks
<1> SUFFICES ASSUME NEW m \in Names PROVE SizeAt(m)' <= SizeAt(m)
  BY DEF Shrinks
<1>1. \A g \in Files : size'[g] <= size[g] /\ size[g] \in Nat
  BY DEF Opened, TypeOK
<1>2. SizeAt(m) \in Nat /\ f # NoFile
  BY HomeAssumption DEF SizeAt, Exists, TypeOK
<1>3. CASE m = n /\ ~Exists(n)
  <2>1. size[f] = 0 /\ dir'[m] = f
    BY <1>3 DEF Opened, FilesApart, TypeOK
  <2>2. SizeAt(m)' = size'[f]
    BY <1>2, <2>1 DEF SizeAt, Exists
  <2>3. size'[f] <= 0
    BY <1>1, <2>1
  <2> QED
    BY <1>2, <1>3, <2>2, <2>3 DEF SizeAt
<1>4. CASE ~(m = n /\ ~Exists(n))
  <2>1. dir'[m] = dir[m]
    BY <1>4 DEF Opened, TypeOK
  <2> QED
    BY <1>1, <1>2, <2>1 DEF SizeAt, Exists, TypeOK
<1> QED
  BY <1>3, <1>4

(* A file moves with what it holds, and what it replaces is gone.          *)
LEMMA RelinkedUsage ==
  ASSUME TypeOK, TypeOK', Reclaim, NEW from \in Names, NEW to \in Names,
         from # to, Relinked(from, to)
  PROVE  Usage' <= Usage
<1>1. /\ Before \in [Names -> Nat] /\ After \in [Names -> Nat]
      /\ Usage = Cardinality(Units(Before, Names))
      /\ Usage' = Cardinality(Units(After, Names))
  BY UsageInUnits
<1>2. \A n \in Names : After[n] = IF dir'[n] # NoFile THEN size[dir'[n]] ELSE 0
  BY ReclaimShrinks DEF After
<1>3. \A n \in Names : Before[n] = IF dir[n] # NoFile THEN size[dir[n]] ELSE 0
  BY DEF Before, SizeAt, Exists
<1>4. /\ dir'[from] = NoFile /\ dir'[to] = dir[from]
      /\ \A n \in Names \ {from, to} : dir'[n] = dir[n]
  BY DEF Relinked, TypeOK
<1>5. /\ After[from] = 0 /\ After[to] = Before[from]
      /\ \A n \in Names \ {from, to} : After[n] = Before[n]
  BY <1>2, <1>3, <1>4
<1> DEFINE rest == Names \ {from}
<1>6. Usage = Cardinality(Units(Before, rest)) + Before[from]
  BY <1>1, UnitsApart
<1>7. Usage' = Cardinality(Units(After, rest))
  <2>1. Usage' = Cardinality(Units(After, rest)) + After[from]
    BY <1>1, UnitsApart
  <2>2. Cardinality(Units(After, rest)) \in Nat
    BY <1>1, UnitsFinite
  <2> QED
    BY <1>5, <2>1, <2>2
<1>8. Cardinality(Units(After, rest)) <= Cardinality(Units(Before, rest)) + Before[from]
  <2>1. rest \in SUBSET Names /\ Before[from] \in Nat /\ Before[to] \in Nat
    BY <1>1
  <2>2. \A n \in rest \ {to} : n \in rest /\ After[n] <= Before[n]
    BY <1>1, <1>5
  <2>3. After[to] <= 0 + Before[from]
    BY <1>1, <1>5
  <2> HIDE DEF rest
  <2> QED
    BY <1>1, <2>1, <2>2, <2>3, UnitsGrow
<1> QED
  BY <1>6, <1>7, <1>8

(* A step that is no part of a WRITE leaves the writes under way alone,    *)
(* and either is not accounted for, or no path grows, or the usage does    *)
(* not while nobody measures it.                                           *)
LEMMA OtherSteps ==
  ASSUME HomeInv, TypeOK', FilesApart, [Next]_vars, ~unmeasured',
         \A s \in SftpSessions :
           ~(BeginWrite(s) \/ Measure(s) \/ CheckQuota(s) \/ Write(s))
  PROVE  /\ Calm
         /\ ~unmeasured
         /\ \/ Shrinks
            \/ /\ Usage' <= Usage
               /\ \A s \in SftpSessions : pc[s] # "measure"
<1> DEFINE Goal == /\ Calm
                   /\ ~unmeasured
                   /\ \/ Shrinks
                      \/ /\ Usage' <= Usage
                         /\ \A s \in SftpSessions : pc[s] # "measure"
<1>0. TypeOK /\ Opens
  BY DEF HomeInv
<1>a. ASSUME UNCHANGED <<walk, write, pc>> PROVE Calm
  BY <1>a DEF Calm, Writes
<1>b. ASSUME NEW s \in Sessions, ~Writes(s),
             NEW step \in Asks \cup {"idle", "put"}, Goto(s, step),
             UNCHANGED <<walk, write>>
      PROVE  Calm
  BY <1>0, <1>b DEF Calm, Writes, Goto, Sessions, Asks, TypeOK
<1>c. ASSUME UNCHANGED <<dir, size>> PROVE Shrinks
  <2>1. \A n \in Names : SizeAt(n) \in Nat /\ SizeAt(n)' = SizeAt(n)
    BY <1>0, <1>c DEF SizeAt, Exists, TypeOK
  <2> QED
    BY <2>1 DEF Shrinks
<1>1. CASE SetRights \/ UNCHANGED vars
  BY <1>1, <1>a, <1>c DEF SetRights, vars, files, locals, history
<1>2. ASSUME NEW s \in SftpSessions, SftpStep(s) PROVE Goal
  <2>0. asked[s].name \in Names /\ asked[s].to \in Names /\ s \in Sessions
    BY <1>0 DEF TypeOK, RequestRecord, Sessions
  <2>a. ASSUME pc[s] \in Asks, Answer(s), UNCHANGED <<walk, write>> PROVE Calm
    BY <1>b, <2>0, <2>a DEF Answer, Writes, Asks
  <2>1. CASE Open(s)
    <3> DEFINE flags == asked[s].flags
    <3>1. PICK f \in Files : Opened(asked[s].name, f, "truncate" \in flags)
      BY <2>1 DEF Open
    <3>2. ("truncate" \in flags) \in BOOLEAN
      OBVIOUS
    <3>3. Shrinks
      BY <1>0, <2>0, <3>1, <3>2, OpenedShrinks, Zenon
    <3> QED
      BY <2>a, <2>1, <3>3 DEF Open, Asks
  <2>2. ASSUME NEW h \in Handles, Close(s, h) PROVE Goal
    BY <1>0, <1>a, <2>2, UnlinkedShrinks DEF Close, history
  <2>3. CASE SetLength(s)
    <3> DEFINE n == asked[s].name
    <3>1. PICK length \in 0..MaxSize :
            /\ size' = [size EXCEPT ![dir[n]] = length]
            /\ unmeasured' = (unmeasured \/ length > SizeAt(n))
      BY <2>3 DEF SetLength
    <3>2. ~unmeasured /\ ~(length > SizeAt(n))
      BY <3>1, Zenon
    <3>3. UNCHANGED dir /\ dir[n] \in Files /\ Calm
      BY <1>0, <2>0, <2>a, <2>3 DEF SetLength, Exists, Asks, TypeOK
    <3>4. length \in Nat /\ size[dir[n]] \in Nat /\ SizeAt(n) = size[dir[n]]
      BY <1>0, <2>3, <3>3, HomeAssumption DEF SetLength, SizeAt, TypeOK
    <3>5. \A f \in Files : size'[f] <= size[f] /\ size[f] \in Nat
      BY <1>0, <3>1, <3>2, <3>4 DEF TypeOK
    <3>6. Shrinks
      BY <1>0, <3>3, <3>5 DEF Shrinks, SizeAt, Exists, TypeOK
    <3> QED
      BY <3>2, <3>3, <3>6
  <2>4. CASE Remove(s) \/ RemoveDir(s)
    <3>1. /\ \E names : Unlinked(names)
          /\ pc[s] \in Asks /\ Answer(s) /\ UNCHANGED <<walk, write, unmeasured>>
          /\ Reclaim
      BY <2>4 DEF Remove, RemoveDir, Asks
    <3> QED
      BY <1>0, <2>a, <3>1, UnlinkedShrinks
  <2>5. CASE MakeDir(s) \/ Fail(s)
    BY <1>c, <2>a, <2>5 DEF MakeDir, Fail, Asks, files, history
  <2>7. CASE Checks(s)
    <3>1. PICK step \in Asks, request \in RequestRecord : Ask(s, step, request)
      BY <2>7, ChecksAsk
    <3>2. ~Writes(s)
      BY <3>1 DEF Ask, Idle, Writes
    <3> QED
      BY <1>b, <1>c, <2>0, <3>1, <3>2 DEF Ask, files, history
  <2>8. CASE Rename(s)
    <3>1. Calm
      BY <2>a, <2>8 DEF Rename, Asks
    <3>2. Usage' <= Usage
      BY <1>0, <2>0, <2>8, RelinkedUsage DEF Rename
    <3>3. ~unmeasured /\ ~ \E t \in SftpSessions \ {s} : pc[t] = "measure"
      BY <2>8, Zenon DEF Rename, Moved
    <3>4. pc[s] # "measure"
      BY <2>8 DEF Rename
    <3> QED
      BY <3>1, <3>2, <3>3, <3>4
  <2> QED
    BY <1>2, <2>1, <2>2, <2>3, <2>4, <2>5, <2>7, <2>8 DEF SftpStep
<1>3. ASSUME NEW f \in FtpSessions, FtpStep(f) PROVE Goal
  <2>0. ~Writes(f) /\ f \in Sessions
    BY <1>0 DEF Opens, Writes, Sessions
  <2>1. CASE Login(f) \/ Logout(f) \/ FtpMakeDir(f)
    BY <1>a, <1>c, <2>1 DEF Login, Logout, FtpMakeDir, files, locals, history
  <2>2. ASSUME NEW n \in Names, StartPut(f, n) PROVE Goal
    <3>1. PICK g \in Files, at \in 0..MaxSize : Opened(n, g, at = 0)
      BY <2>2 DEF StartPut
    <3>2. (at = 0) \in BOOLEAN
      OBVIOUS
    <3>3. Shrinks
      BY <1>0, <3>1, <3>2, OpenedShrinks, Zenon
    <3> QED
      BY <1>b, <2>0, <2>2, <3>3 DEF StartPut
  <2>3. ASSUME NEW n \in Names, FtpRemove(f, n) PROVE Goal
    BY <1>0, <1>a, <2>3, UnlinkedShrinks DEF FtpRemove, locals
  <2>4. CASE PutChunk(f)
    <3>1. ~unmeasured /\ ~(put[f].at >= size[put[f].file])
      BY <2>4, Zenon DEF PutChunk
    <3>2. /\ put[f].file \in Files /\ put[f].at \in Nat
          /\ size[put[f].file] \in Nat /\ UNCHANGED <<dir, walk, write, pc>>
      BY <1>0, <2>4 DEF PutChunk, Opens, TypeOK
    <3>3. Max({size[put[f].file], put[f].at + 1})
            \in {size[put[f].file], put[f].at + 1}
      <4>1. put[f].at + 1 \in Nat
        BY <3>2
      <4> QED
        BY <3>2, <4>1, MaxOfTwo, Zenon
    <3>4. \A g \in Files : size'[g] <= size[g] /\ size[g] \in Nat
      BY <1>0, <2>4, <3>1, <3>2, <3>3 DEF PutChunk, Written, TypeOK
    <3>5. Shrinks
      BY <1>0, <3>2, <3>4 DEF Shrinks, SizeAt, Exists, TypeOK
    <3> QED
      BY <1>a, <3>1, <3>2, <3>5
  <2>5. CASE EndPut(f)
    BY <1>0, <1>b, <2>0, <2>5, UnlinkedShrinks DEF EndPut, history
  <2>6. CASE FtpRemoveDir(f)
    BY <1>0, <1>a, <2>6, UnlinkedShrinks DEF FtpRemoveDir, locals
  <2>7. ASSUME NEW from \in Names, NEW to \in Names, FtpRename(f, from, to)
        PROVE  Goal
    <3>1. Usage' <= Usage
      BY <1>0, <2>7, RelinkedUsage DEF FtpRename
    <3>2. ~unmeasured /\ ~ \E t \in SftpSessions \ {f} : pc[t] = "measure"
      BY <2>7, Zenon DEF FtpRename, Moved
    <3>3. \A t \in SftpSessions : t # f
      BY HomeAssumption
    <3>4. Calm
      BY <1>a, <2>7 DEF FtpRename, locals
    <3> QED
      BY <3>1, <3>2, <3>3, <3>4
  <2> QED
    BY <1>3, <2>1, <2>2, <2>3, <2>4, <2>5, <2>6, <2>7 DEF FtpStep
<1> QED
  BY <1>1, <1>2, <1>3 DEF Next

-----------------------------------------------------------------------------
(* A WRITE under way is of at most MaxWrite units.                         *)
LEMMA LengthStep ==
  ASSUME HomeInv, [Next]_vars, NEW s \in SftpSessions, Writes(s)',
         Writes(s) => write[s].length <= MaxWrite
  PROVE  write'[s].length <= MaxWrite
<1>0. TypeOK
  BY DEF HomeInv
<1>1. CASE BeginWrite(s)
  <2>1. PICK h \in Handles, length \in 1..MaxWrite :
          write' = [write EXCEPT ![s] = [handle |-> h, length |-> length]]
    BY <1>1 DEF BeginWrite
  <2> QED
    BY <1>0, <2>1, HomeAssumption DEF TypeOK
<1>2. CASE ~BeginWrite(s)
  <2>1. write'[s] = write[s] /\ Writes(s)
    <3>1. CASE SetRights \/ UNCHANGED vars
      BY <3>1 DEF SetRights, vars, locals, Writes
    <3>2. ASSUME NEW t \in SftpSessions, SftpStep(t)
          PROVE  write'[s] = write[s] /\ Writes(s)
      <4>1. CASE Checks(t)
        <5>1. PICK step \in Asks, request \in RequestRecord : Ask(t, step, request)
          BY <4>1, ChecksAsk
        <5>2. step \notin {"measure", "write"}
          BY DEF Asks
        <5> QED
          BY <1>0, <5>1, <5>2 DEF Ask, Goto, Writes, Sessions, TypeOK
      <4>2. CASE \/ Open(t) \/ SetLength(t) \/ Remove(t) \/ MakeDir(t)
                 \/ RemoveDir(t) \/ Rename(t) \/ Fail(t)
        <5>1. Answer(t) /\ UNCHANGED write
          BY <4>2 DEF Open, SetLength, Remove, MakeDir, RemoveDir, Rename, Fail
        <5> QED
          BY <1>0, <5>1 DEF Answer, Goto, Writes, Sessions, TypeOK
      <4>3. CASE \E h \in Handles : Close(t, h)
        BY <4>3 DEF Close, Writes
      <4>4. CASE Measure(t) \/ CheckQuota(t) \/ Write(t)
        BY <1>0, <4>4 DEF Measure, CheckQuota, Write, Goto, Writes, Sessions, TypeOK
      <4>5. CASE BeginWrite(t) /\ t # s
        BY <1>0, <4>5 DEF BeginWrite, Goto, Writes, Sessions, TypeOK
      <4> QED
        BY <1>2, <3>2, <4>1, <4>2, <4>3, <4>4, <4>5 DEF SftpStep
    <3>4. ASSUME NEW f \in FtpSessions, FtpStep(f)
          PROVE  write'[s] = write[s] /\ Writes(s)
      BY <1>0, <3>4, HomeAssumption DEF FtpStep, Login, Logout, StartPut,
         FtpRemove, PutChunk, EndPut, FtpMakeDir, FtpRemoveDir, FtpRename, Goto,
         locals, Writes, Sessions, TypeOK
    <3> QED
      BY <3>1, <3>2, <3>4 DEF Next
  <2> QED
    BY <2>1
<1> QED
  BY <1>1, <1>2

(* Every step keeps the bound.                                             *)
LEMMA QuotaStep ==
  ASSUME HomeInv, HomeInv', FilesApart, QuotaInv, [Next]_vars
  PROVE  QuotaInv'
<1>0. TypeOK /\ TypeOK'
  BY DEF HomeInv
<1>1. \A s \in SftpSessions : Writes(s)' => write'[s].length <= MaxWrite
  BY LengthStep DEF QuotaInv
<1>2. ASSUME ~unmeasured'
      PROVE  \E late \in SUBSET SftpSessions,
                queue \in [SftpSessions -> SUBSET SftpSessions] :
                  Bounded(late, queue)'
  <2>1. ~unmeasured
    <3>1. CASE \E s \in SftpSessions :
                 BeginWrite(s) \/ Measure(s) \/ CheckQuota(s) \/ Write(s)
      BY <1>2, <3>1, Zenon DEF BeginWrite, Measure, CheckQuota, Write, history
    <3> QED
      BY <1>0, <1>2, <3>1, OtherSteps
  <2>2. PICK old \in SUBSET SftpSessions,
             before \in [SftpSessions -> SUBSET SftpSessions] :
               Bounded(old, before)
    BY <2>1 DEF QuotaInv
  <2>3. ASSUME NEW s \in SftpSessions, BeginWrite(s)
        PROVE  \E queue \in [SftpSessions -> SUBSET SftpSessions] :
                 Bounded(old, queue)'
    BY <1>0, <2>2, <2>3, BeginWriteStep
  <2>4. ASSUME NEW s \in SftpSessions, Measure(s) PROVE Bounded(old, before)'
    BY <1>0, <2>2, <2>4, MeasureStep
  <2>5. ASSUME NEW s \in SftpSessions, CheckQuota(s)
        PROVE  \E late \in SUBSET SftpSessions,
                  queue \in [SftpSessions -> SUBSET SftpSessions] :
                    Bounded(late, queue)'
    BY <1>0, <2>2, <2>5, CheckStep
  <2>6. ASSUME NEW s \in SftpSessions, Write(s)
        PROVE  \E late \in SUBSET SftpSessions,
                  queue \in [SftpSessions -> SUBSET SftpSessions] :
                    Bounded(late, queue)'
    <3>1. write[s].length <= MaxWrite
      BY <2>6 DEF QuotaInv, Write, Writes
    <3> QED
      BY <1>0, <1>2, <2>2, <2>6, <3>1, WriteStep
  <2>7. ASSUME \A s \in SftpSessions :
                 ~(BeginWrite(s) \/ Measure(s) \/ CheckQuota(s) \/ Write(s))
        PROVE  Bounded(old, before)'
    <3>1. Calm /\ (\/ Shrinks
                   \/ /\ Usage' <= Usage
                      /\ \A s \in SftpSessions : pc[s] # "measure")
      BY <1>0, <1>2, <2>7, OtherSteps
    <3>2. Usage' <= Usage
          /\ \A s \in SftpSessions : pc[s] = "measure" => Seen(s)' <= Seen(s)
      <4>1. CASE Shrinks
        <5>1. PICK m \in Names : TRUE
          BY HomeAssumption
        <5>2. /\ \A n \in Names \ {m} : SizeAt(n)' <= SizeAt(n)
              /\ SizeAt(m)' <= SizeAt(m) + 0 /\ UNCHANGED walk
          BY <1>0, <3>1, <4>1 DEF Shrinks, Calm, SizeAt, Exists, TypeOK
        <5>3. /\ Usage' <= Usage + 0
              /\ \A s \in SftpSessions : Seen(s)' <= Seen(s) + 0
          BY <1>0, <5>2, UsageGrows
        <5>4. /\ Usage \in Nat /\ \A s \in SftpSessions : Seen(s) \in Nat
          BY <1>0, UsageNat
        <5>5. \A x \in Nat : x + 0 = x
          OBVIOUS
        <5> QED
          BY <5>3, <5>4, <5>5
      <4> QED
        BY <3>1, <4>1
    <3> QED
      BY <1>0, <2>2, <3>1, <3>2, CalmStep
  <2> QED
    BY <2>2, <2>3, <2>4, <2>5, <2>6, <2>7
<1> QED
  BY <1>1, <1>2 DEF QuotaInv

(* However many sessions write at the same time (quota_ok, write), SFTP    *)
(* writes overrun the quota by at most one write for each session but one, *)
(* as long as nothing grew the home unmeasured (unmeasured): of the checks *)
(* that have passed, the one whose walk began last has seen all that other *)
(* sessions wrote but their last write.                                    *)
THEOREM OverrunIsBounded ==
  ASSUME SftpSessions # {}
  PROVE  Spec => []OverrunBounded
<1>1. Init => FilesApart
  BY HomeAssumption DEF Init, FilesApart, NamesApart, Exists, NoPut
<1>2. Init => QuotaInv
  <2> SUFFICES ASSUME Init PROVE QuotaInv
    OBVIOUS
  <2>1. \A s \in SftpSessions : pc[s] = "idle"
    BY DEF Init, Sessions
  <2>2. Running = {}
    BY <2>1 DEF Running, Writes
  <2>3. Usage = 0
    <3>1. \A n \in Names : SizeAt(n) = 0
      BY DEF Init, SizeAt, Exists
    <3>2. Stored(Names) = {}
      BY <3>1 DEF Stored
    <3> QED
      BY <3>2, FS_EmptySet DEF Usage
  <2>4. 0 <= Slack({}) /\ Slack({}) \in Int
    BY SlackFacts
  <2>5. PICK before \in [SftpSessions -> SUBSET SftpSessions] : TRUE
    <3>1. [s \in SftpSessions |-> {}] \in [SftpSessions -> SUBSET SftpSessions]
      OBVIOUS
    <3> QED
      BY <3>1
  <2>6. Bounded({}, before)
    BY <2>2, <2>3, <2>4, HomeAssumption DEF Bounded, Queue
  <2> QED
    BY <2>1, <2>6 DEF QuotaInv, Writes
<1>3. HomeInv /\ HomeInv' /\ FilesApart /\ [Next]_vars => FilesApart'
  BY ApartStep
<1>4. HomeInv /\ HomeInv' /\ FilesApart /\ QuotaInv /\ [Next]_vars => QuotaInv'
  BY QuotaStep
<1>5. HomeInv /\ QuotaInv => OverrunBounded
  <2> SUFFICES ASSUME HomeInv, QuotaInv, ~unmeasured
               PROVE  Usage <= Quota + (Cardinality(SftpSessions) - 1) * MaxWrite
    BY DEF OverrunBounded
  <2>1. PICK old \in SUBSET SftpSessions,
             before \in [SftpSessions -> SUBSET SftpSessions] :
               Bounded(old, before)
    BY DEF QuotaInv
  <2>2. Usage <= Quota + Slack(old)
    BY <2>1 DEF Bounded
  <2>3. Slack(old) <= Slack({}) /\ Slack(old) \in Int /\ Slack({}) \in Int
    BY SlackFacts
  <2>4. Slack({}) = (Cardinality(SftpSessions) - 1) * MaxWrite
    <3>1. Cardinality({}) = 0 /\ Cardinality(SftpSessions) \in Nat
          /\ MaxWrite \in Nat
      BY FS_EmptySet, FS_CardinalityType, HomeAssumption
    <3> QED
      BY <3>1 DEF Slack
  <2>5. Usage \in Nat /\ Quota \in Nat
    <3>1. Before \in [Names -> Nat]
      BY DEF Before, SizeAt, Exists, HomeInv, TypeOK
    <3>2. Stored(Names) = Units(Before, Names)
      BY DEF Stored, Units, Before
    <3> QED
      BY <3>1, <3>2, UnitsFinite, HomeAssumption DEF Usage
  <2> QED
    BY <2>2, <2>3, <2>4, <2>5
<1> QED
  BY <1>1, <1>2, <1>3, <1>4, <1>5, HomeInvariant, PTL DEF Spec

================================================================================
