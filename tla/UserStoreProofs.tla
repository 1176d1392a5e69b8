---------------------------- MODULE UserStoreProofs ----------------------------
(***************************************************************************)
(* Proofs about UserStore: for any revisions, admins, logins and faults.   *)
(* The invariants are those of the behaviours in which no two SaveUsers    *)
(* requests overlap.                                                       *)
(***************************************************************************)
EXTENDS UserStore, TLAPS

(* One SaveUsers at a time is in progress.                                 *)
OneSave == \A a, b \in Admins : apc[a] # "idle" /\ apc[b] # "idle" => a = b

(* Nobody else touches the temporary file between its write and its        *)
(* rename.                                                                 *)
TempIsContent ==
  \A a \in Admins :
    /\ apc[a] = "truncated" => temp = Torn /\ target[a] = "temp"
    /\ apc[a] \in {"written", "loaded"} => temp = content[a]

(* users.json exists and is whole.                                         *)
DiskIsWhole == disk \notin {Torn, Mixed, Missing}

(* The file invariant.                                                     *)
FilesInv == Serial => OneSave /\ TempIsContent /\ DiskIsWhole

(* What SaveUsers loaded back is what it was sent.                         *)
LoadedInv ==
  Serial => \A a \in Admins :
    apc[a] \in {"loaded", "renamed"} => validated[a] = Load(content[a])

(* Everything a login can find in memory until it ends is in its window.   *)
WindowInv ==
  Serial => \A l \in Logins : lpc[l] # "idle" =>
    /\ mem.rev \in window[l]
    /\ Load(disk).rev \in window[l]
    /\ \A a \in Admins : apc[a] # "idle" => Load(content[a]).rev \in window[l]

-----------------------------------------------------------------------------
(* Memory and files start with their types.                                *)
LEMMA TypeInit == Init => TypeOK
BY UserAssumption DEF Init, TypeOK, Contents, Libraries, Library, EmptyLibrary,
   Logins

(* No step takes a variable out of its type: whatever the file holds, what *)
(* is loaded from it is a library.                                         *)
LEMMA TypeStep ==
  TypeOK /\ [Next]_vars => TypeOK'
<1> SUFFICES ASSUME TypeOK, [Next]_vars
             PROVE TypeOK'
  OBVIOUS
<1> USE UserAssumption DEF TypeOK, Contents, Libraries, Library, EmptyLibrary,
   Load, Reload, RevOf, Logins, adminVars, loginVars, histVars,
   Reply, Hazards
<1>1. ASSUME NEW a \in Admins, GetUsers(a) PROVE TypeOK'
  BY <1>1 DEF GetUsers
<1>2. ASSUME NEW a \in Admins, BeginSave(a) PROVE TypeOK'
  <2>1. met' \in SUBSET Hazards
    BY <1>2 DEF BeginSave
  <2>2. PICK rev \in Submitted :
          /\ content' = [content EXCEPT ![a] =
               IF rev = Invalid THEN Invalid ELSE Library(rev, copy[a])]
          /\ outcomes' = outcomes \cup {rev}
          /\ window' = [l \in Logins |-> IF lpc[l] = "idle" THEN {}
                           ELSE window[l] \cup {Load(content'[a]).rev}]
    BY <1>2 DEF BeginSave
  <2>3. content' \in [Admins -> Libraries \cup {Invalid}]
    BY <2>2
  <2>4. window' \in [Logins -> SUBSET (Revs \cup {NoRev})]
    BY <2>2, <2>3
  <2>5. outcomes' \in SUBSET (Revs \cup {NoRev, Invalid})
    BY <2>2
  <2>6. QED
    BY <1>2, <2>1, <2>3, <2>4, <2>5 DEF BeginSave
<1>3. ASSUME NEW a \in Admins, WriteTemp(a) PROVE TypeOK'
  BY <1>3 DEF WriteTemp, Overwrite
<1>4. ASSUME NEW a \in Admins, LoadTemp(a) PROVE TypeOK'
  BY <1>4 DEF LoadTemp
<1>5. ASSUME NEW a \in Admins, RenameTemp(a) PROVE TypeOK'
  <2>1. CASE temp = Missing
    <3>1. /\ apc' = [apc EXCEPT ![a] = "idle"]
          /\ content' = [content EXCEPT ![a] = Invalid]
          /\ validated' = [validated EXCEPT ![a] = EmptyLibrary]
      BY <1>5, <2>1 DEF RenameTemp
    <3>2. /\ mem' = mem /\ lock' = lock /\ copy' = copy /\ outcomes' = outcomes
          /\ temp' = temp /\ disk' = disk /\ target' = target /\ met' = met
          /\ lpc' = lpc /\ accepted' = accepted /\ window' = window
      BY <1>5, <2>1 DEF RenameTemp
    <3>3. QED
      BY <3>1, <3>2
  <2>2. CASE temp # Missing
    <3>1. /\ disk' = temp /\ temp' = Missing
          /\ target' = [b \in Admins |->
               IF target[b] = "temp" THEN "disk" ELSE "gone"]
          /\ apc' = [apc EXCEPT ![a] = "renamed"]
          /\ met' = met \cup {h \in {"late"} : \E l \in Logins : lpc[l] # "idle"}
      BY <1>5, <2>2 DEF RenameTemp
    <3>2. /\ mem' = mem /\ lock' = lock /\ copy' = copy /\ outcomes' = outcomes
          /\ content' = content /\ validated' = validated
          /\ lpc' = lpc /\ accepted' = accepted /\ window' = window
      BY <1>5, <2>2 DEF RenameTemp
    <3>3. met' \in SUBSET Hazards
      BY <3>1
    <3>4. target' \in [Admins -> {"temp", "disk", "gone"}]
      BY <3>1
    <3>5. QED
      BY <3>1, <3>2, <3>3, <3>4
  <2>3. QED
    BY <2>1, <2>2
<1>6. ASSUME NEW a \in Admins, Publish(a) PROVE TypeOK'
  BY <1>6 DEF Publish
<1>7. ASSUME NEW l \in FtpLogins, FtpReload(l) PROVE TypeOK'
  BY <1>7 DEF FtpReload, Begin
<1>8. ASSUME NEW l \in FtpLogins, FtpAuthenticate(l) PROVE TypeOK'
  BY <1>8 DEF FtpAuthenticate, AuthenticateOk, Save, Finish
<1>9. ASSUME NEW l \in SftpLogins, SftpReload(l) PROVE TypeOK'
  BY <1>9 DEF SftpReload, Begin
<1>10. ASSUME NEW l \in SftpLogins, SftpResolve(l) PROVE TypeOK'
  <2>1. lpc' \in [Logins -> {"idle", "resolve", "auth"}]
    BY <1>10 DEF SftpResolve, Finish
  <2>2. window' \in [Logins -> SUBSET (Revs \cup {NoRev})]
    BY <1>10 DEF SftpResolve, Finish
  <2>3. QED
    BY <1>10, <2>1, <2>2 DEF SftpResolve
<1>11. ASSUME NEW l \in SftpLogins, SftpAuthenticate(l) PROVE TypeOK'
  BY <1>11 DEF SftpAuthenticate, AuthenticateOk, Save, Finish
<1>12. CASE Crash
  BY <1>12 DEF Crash
<1>13. CASE UNCHANGED vars
  BY <1>13 DEF vars
<1>14. ASSUME NEW a \in Admins, WriteFails(a) PROVE TypeOK'
  BY <1>14 DEF WriteFails
<1>15. QED
  BY <1>1, <1>2, <1>3, <1>4, <1>5, <1>6, <1>7, <1>8, <1>9, <1>10, <1>11, <1>12,
     <1>13, <1>14 DEF Next, AdminStep

(* Every variable keeps its type, for any number of admins and logins.     *)
LEMMA UserTypeCorrect == Spec => []TypeOK
BY TypeInit, TypeStep, PTL DEF Spec

-----------------------------------------------------------------------------
(* A save's temporary file is its own, and only whole files are renamed.   *)
LEMMA FilesStep ==
  TypeOK /\ FilesInv /\ [Next]_vars => FilesInv'
<1> SUFFICES ASSUME TypeOK, FilesInv, [Next]_vars
             PROVE FilesInv'
  OBVIOUS
<1> USE UserAssumption DEF TypeOK, Contents, Libraries, Library, EmptyLibrary,
   Load, Reload, RevOf, Serial, FilesInv, OneSave, TempIsContent, DiskIsWhole,
   Logins, adminVars, loginVars, histVars,
   Reply, Hazards
<1>1. ASSUME NEW a \in Admins, GetUsers(a) PROVE FilesInv'
  BY <1>1 DEF GetUsers
<1>2. ASSUME NEW a \in Admins, BeginSave(a) PROVE FilesInv'
  <2> SUFFICES ASSUME Serial'
               PROVE (OneSave /\ TempIsContent /\ DiskIsWhole)'
    OBVIOUS
  <2>1. Serial /\ \A b \in Admins : apc[b] = "idle"
    BY <1>2 DEF BeginSave
  <2>2. apc' = [apc EXCEPT ![a] = "truncated"] /\ disk' = disk
        /\ temp' = Torn /\ target' = [target EXCEPT ![a] = "temp"]
    BY <1>2 DEF BeginSave
  <2>3. QED
    BY <2>1, <2>2
<1>3. ASSUME NEW a \in Admins, WriteTemp(a) PROVE FilesInv'
  BY <1>3 DEF WriteTemp, Overwrite
<1>4. ASSUME NEW a \in Admins, LoadTemp(a) PROVE FilesInv'
  BY <1>4 DEF LoadTemp
<1>5. ASSUME NEW a \in Admins, RenameTemp(a) PROVE FilesInv'
  <2> SUFFICES ASSUME Serial'
               PROVE (OneSave /\ TempIsContent /\ DiskIsWhole)'
    OBVIOUS
  <2>1. /\ Serial /\ apc[a] = "loaded" /\ temp = content[a]
        /\ \A b \in Admins : b # a => apc[b] = "idle"
    BY <1>5 DEF RenameTemp
  <2>2. temp \in Libraries \cup {Invalid}
    BY <2>1
  <2>3. /\ disk' = temp
        /\ apc' = [apc EXCEPT ![a] = "renamed"]
    BY <1>5, <2>2 DEF RenameTemp
  <2>4. DiskIsWhole'
    BY <2>2, <2>3
  <2>5. QED
    BY <2>1, <2>3, <2>4
<1>6. ASSUME NEW a \in Admins, Publish(a) PROVE FilesInv'
  BY <1>6 DEF Publish
<1>7. ASSUME NEW l \in FtpLogins, FtpReload(l) PROVE FilesInv'
  BY <1>7 DEF FtpReload, Begin
<1>8. ASSUME NEW l \in FtpLogins, FtpAuthenticate(l) PROVE FilesInv'
  BY <1>8 DEF FtpAuthenticate, AuthenticateOk, Save, Finish
<1>9. ASSUME NEW l \in SftpLogins, SftpReload(l) PROVE FilesInv'
  BY <1>9 DEF SftpReload, Begin
<1>10. ASSUME NEW l \in SftpLogins, SftpResolve(l) PROVE FilesInv'
  BY <1>10 DEF SftpResolve, Finish
<1>11. ASSUME NEW l \in SftpLogins, SftpAuthenticate(l) PROVE FilesInv'
  BY <1>11 DEF SftpAuthenticate, AuthenticateOk, Save, Finish
<1>12. CASE Crash
  BY <1>12 DEF Crash
<1>13. CASE UNCHANGED vars
  BY <1>13 DEF vars
<1>14. ASSUME NEW a \in Admins, WriteFails(a) PROVE FilesInv'
  BY <1>14 DEF WriteFails
<1>15. QED
  BY <1>1, <1>2, <1>3, <1>4, <1>5, <1>6, <1>7, <1>8, <1>9, <1>10, <1>11, <1>12,
     <1>13, <1>14 DEF Next, AdminStep

(* As long as SaveUsers requests do not overlap, no crash and no login     *)
(* ever leaves a half-written users.json.                                  *)
THEOREM UsersFileWhole == Spec => []DiskWhole
<1>1. Init => FilesInv
  BY UserAssumption DEF Init, FilesInv, OneSave, TempIsContent, DiskIsWhole,
     Libraries, Library, Logins
<1>2. TypeOK /\ FilesInv /\ [Next]_vars => FilesInv'
  BY FilesStep
<1>3. FilesInv => DiskWhole
  BY DEF FilesInv, DiskIsWhole, DiskWhole
<1>4. QED
  BY <1>1, <1>2, <1>3, UserTypeCorrect, PTL DEF Spec

-----------------------------------------------------------------------------
(* What was loaded back stays what was sent.                               *)
LEMMA LoadedStep ==
  TypeOK /\ FilesInv /\ LoadedInv /\ [Next]_vars => LoadedInv'
<1> SUFFICES ASSUME TypeOK, FilesInv, LoadedInv, [Next]_vars
             PROVE LoadedInv'
  OBVIOUS
<1> USE UserAssumption DEF TypeOK, Contents, Libraries, Library, EmptyLibrary,
   Reload, RevOf, Serial, FilesInv, OneSave, TempIsContent, LoadedInv, Logins,
   adminVars, loginVars, histVars, Reply, Hazards
<1>1. ASSUME NEW a \in Admins, GetUsers(a) PROVE LoadedInv'
  BY <1>1 DEF GetUsers
<1>2. ASSUME NEW a \in Admins, BeginSave(a) PROVE LoadedInv'
  BY <1>2 DEF BeginSave
<1>3. ASSUME NEW a \in Admins, WriteTemp(a) PROVE LoadedInv'
  BY <1>3 DEF WriteTemp, Overwrite
<1>4. ASSUME NEW a \in Admins, LoadTemp(a) PROVE LoadedInv'
  BY <1>4 DEF LoadTemp
<1>5. ASSUME NEW a \in Admins, RenameTemp(a) PROVE LoadedInv'
  BY <1>5 DEF RenameTemp
<1>6. ASSUME NEW a \in Admins, Publish(a) PROVE LoadedInv'
  BY <1>6 DEF Publish
<1>7. ASSUME NEW l \in FtpLogins, FtpReload(l) PROVE LoadedInv'
  BY <1>7 DEF FtpReload, Begin
<1>8. ASSUME NEW l \in FtpLogins, FtpAuthenticate(l) PROVE LoadedInv'
  BY <1>8 DEF FtpAuthenticate, AuthenticateOk, Save, Finish
<1>9. ASSUME NEW l \in SftpLogins, SftpReload(l) PROVE LoadedInv'
  BY <1>9 DEF SftpReload, Begin
<1>10. ASSUME NEW l \in SftpLogins, SftpResolve(l) PROVE LoadedInv'
  BY <1>10 DEF SftpResolve, Finish
<1>11. ASSUME NEW l \in SftpLogins, SftpAuthenticate(l) PROVE LoadedInv'
  BY <1>11 DEF SftpAuthenticate, AuthenticateOk, Save, Finish
<1>12. CASE Crash
  BY <1>12 DEF Crash
<1>13. CASE UNCHANGED vars
  BY <1>13 DEF vars
<1>14. ASSUME NEW a \in Admins, WriteFails(a) PROVE LoadedInv'
  BY <1>14 DEF WriteFails
<1>15. QED
  BY <1>1, <1>2, <1>3, <1>4, <1>5, <1>6, <1>7, <1>8, <1>9, <1>10, <1>11, <1>12,
     <1>13, <1>14 DEF Next, AdminStep

(* No step puts into memory or onto disk a revision outside the window of  *)
(* a login under way.                                                      *)
LEMMA WindowStep ==
  TypeOK /\ FilesInv /\ LoadedInv /\ WindowInv /\ [Next]_vars => WindowInv'
<1> SUFFICES ASSUME TypeOK, FilesInv, LoadedInv, WindowInv, [Next]_vars
             PROVE WindowInv'
  OBVIOUS
<1> USE UserAssumption DEF TypeOK, Library, Logins, Serial, FilesInv, OneSave,
   TempIsContent, DiskIsWhole, LoadedInv, WindowInv, adminVars, loginVars,
   histVars
<1>1. ASSUME NEW a \in Admins, GetUsers(a) PROVE WindowInv'
  BY <1>1 DEF GetUsers
<1>2. ASSUME NEW a \in Admins, BeginSave(a) PROVE WindowInv'
  BY <1>2 DEF BeginSave
<1>3. ASSUME NEW a \in Admins, WriteTemp(a) PROVE WindowInv'
  BY <1>3 DEF WriteTemp, Overwrite
<1>4. ASSUME NEW a \in Admins, LoadTemp(a) PROVE WindowInv'
  BY <1>4 DEF LoadTemp
<1>5. ASSUME NEW a \in Admins, RenameTemp(a) PROVE WindowInv'
  BY <1>5 DEF RenameTemp
<1>6. ASSUME NEW a \in Admins, Publish(a) PROVE WindowInv'
  BY <1>6 DEF Publish, Reply
<1>7. ASSUME NEW l \in FtpLogins, FtpReload(l) PROVE WindowInv'
  BY <1>7 DEF FtpReload, Begin, Reload, Load, Libraries, EmptyLibrary
<1>8. ASSUME NEW l \in FtpLogins, FtpAuthenticate(l) PROVE WindowInv'
  BY <1>8 DEF FtpAuthenticate, AuthenticateOk, Save, Finish, Load, Libraries
<1>9. ASSUME NEW l \in SftpLogins, SftpReload(l) PROVE WindowInv'
  <2> SUFFICES ASSUME Serial', NEW k \in Logins, lpc'[k] # "idle"
               PROVE /\ mem'.rev \in window'[k]
                     /\ Load(disk)'.rev \in window'[k]
                     /\ \A a \in Admins : apc'[a] # "idle" =>
                          Load(content[a])'.rev \in window'[k]
    OBVIOUS
  <2>1. /\ Serial /\ mem' = Load(disk)
        /\ UNCHANGED <<disk, apc, content>>
        /\ lpc' = [lpc EXCEPT ![l] = "resolve"]
    BY <1>9 DEF SftpReload, Begin, Reload
  <2>2. window' = [window EXCEPT ![l] = {Load(disk).rev} \cup
          {Load(content[a]).rev : a \in {b \in Admins : apc[b] # "idle"}}]
    BY <1>9, <2>1 DEF SftpReload, Begin, Reload
  <2>3. Load(disk)' = Load(disk)
        /\ \A a \in Admins : Load(content[a])' = Load(content[a])
    BY <2>1 DEF Load
  <2>4. CASE k = l
    BY <2>1, <2>2, <2>3, <2>4
  <2>5. CASE k # l
    BY <2>1, <2>2, <2>3, <2>5
  <2>6. QED
    BY <2>4, <2>5
<1>10. ASSUME NEW l \in SftpLogins, SftpResolve(l) PROVE WindowInv'
  BY <1>10 DEF SftpResolve, Finish
<1>11. ASSUME NEW l \in SftpLogins, SftpAuthenticate(l) PROVE WindowInv'
  BY <1>11 DEF SftpAuthenticate, AuthenticateOk, Save, Finish, Load, Libraries
<1>12. CASE Crash
  BY <1>12 DEF Crash
<1>13. CASE UNCHANGED vars
  BY <1>13 DEF vars
<1>14. ASSUME NEW a \in Admins, WriteFails(a) PROVE WindowInv'
  BY <1>14 DEF WriteFails, Reply
<1>15. QED
  BY <1>1, <1>2, <1>3, <1>4, <1>5, <1>6, <1>7, <1>8, <1>9, <1>10, <1>11, <1>12,
     <1>13, <1>14 DEF Next, AdminStep

(* As long as SaveUsers requests do not overlap, no login is decided by a  *)
(* library older than the one it found in users.json.                      *)
THEOREM LoginsInForce == Spec => []LoginUsesLibraryInForce
<1>1. Init => FilesInv /\ LoadedInv /\ WindowInv
  BY UserAssumption DEF Init, FilesInv, OneSave, TempIsContent, DiskIsWhole,
     LoadedInv, WindowInv, Libraries, Library, Logins
<1>2. TypeOK /\ FilesInv /\ [Next]_vars => FilesInv'
  BY FilesStep
<1>3. TypeOK /\ FilesInv /\ LoadedInv /\ [Next]_vars => LoadedInv'
  BY LoadedStep
<1>4. TypeOK /\ FilesInv /\ LoadedInv /\ WindowInv /\ [Next]_vars => WindowInv'
  BY WindowStep
<1>5. WindowInv => LoginUsesLibraryInForce
  BY DEF WindowInv, LoginUsesLibraryInForce
<1>6. QED
  BY <1>1, <1>2, <1>3, <1>4, <1>5, UserTypeCorrect, PTL DEF Spec

-----------------------------------------------------------------------------
(* Why an acknowledged save stays: the file, and whatever a login may      *)
(* still write back over it, descend from a revision in outcomes.          *)
DurableInv ==
  met = {} =>
    /\ RevOf(disk) \in outcomes
    /\ \A a \in Admins : apc[a] # "idle" => RevOf(content[a]) \in outcomes
    /\ \A a \in Admins : apc[a] = "renamed" => RevOf(disk) = RevOf(content[a])
    /\ \A l \in Logins : lpc[l] # "idle" => mem.rev \in {NoRev, RevOf(disk)}

(* No step of a save or of a login breaks the link.                        *)
LEMMA DurableStep ==
  TypeOK /\ FilesInv /\ LoadedInv /\ DurableInv /\ [Next]_vars => DurableInv'
<1> SUFFICES ASSUME TypeOK, FilesInv, LoadedInv, DurableInv, [Next]_vars
             PROVE DurableInv'
  OBVIOUS
<1> USE UserAssumption DEF TypeOK, Contents, Libraries, Library, EmptyLibrary,
   Load, Reload, RevOf, Serial, FilesInv, OneSave, TempIsContent, DiskIsWhole,
   LoadedInv, DurableInv, Logins, adminVars, loginVars, histVars, Reply
<1>1. ASSUME NEW a \in Admins, GetUsers(a) PROVE DurableInv'
  BY <1>1 DEF GetUsers
<1>2. ASSUME NEW a \in Admins, BeginSave(a) PROVE DurableInv'
  BY <1>2 DEF BeginSave
<1>3. ASSUME NEW a \in Admins, WriteTemp(a) PROVE DurableInv'
  BY <1>3 DEF WriteTemp, Overwrite
<1>4. ASSUME NEW a \in Admins, LoadTemp(a) PROVE DurableInv'
  BY <1>4 DEF LoadTemp
<1>5. ASSUME NEW a \in Admins, RenameTemp(a) PROVE DurableInv'
  <2> SUFFICES ASSUME met' = {}
               PROVE DurableInv'
    OBVIOUS
  <2>1. met = {}
    BY <1>5 DEF RenameTemp
  <2>2. temp = content[a] /\ temp # Missing
    BY <1>5, <2>1 DEF RenameTemp
  <2>3. /\ disk' = content[a] /\ apc' = [apc EXCEPT ![a] = "renamed"]
        /\ content' = content /\ outcomes' = outcomes
        /\ \A l \in Logins : lpc'[l] = "idle"
    BY <1>5, <2>2 DEF RenameTemp
  <2>4. \A b \in Admins : b # a => apc[b] = "idle"
    BY <1>5, <2>1 DEF RenameTemp
  <2>5. QED
    BY <1>5, <2>1, <2>3, <2>4 DEF RenameTemp
<1>6. ASSUME NEW a \in Admins, Publish(a) PROVE DurableInv'
  BY <1>6 DEF Publish
<1>7. ASSUME NEW l \in FtpLogins, FtpReload(l) PROVE DurableInv'
  BY <1>7 DEF FtpReload, Begin
<1>8. ASSUME NEW l \in FtpLogins, FtpAuthenticate(l) PROVE DurableInv'
  BY <1>8 DEF FtpAuthenticate, AuthenticateOk, Save, Finish
<1>9. ASSUME NEW l \in SftpLogins, SftpReload(l) PROVE DurableInv'
  BY <1>9 DEF SftpReload, Begin
<1>10. ASSUME NEW l \in SftpLogins, SftpResolve(l) PROVE DurableInv'
  BY <1>10 DEF SftpResolve, Finish
<1>11. ASSUME NEW l \in SftpLogins, SftpAuthenticate(l) PROVE DurableInv'
  BY <1>11 DEF SftpAuthenticate, AuthenticateOk, Save, Finish
<1>12. CASE Crash
  BY <1>12 DEF Crash
<1>13. CASE UNCHANGED vars
  BY <1>13 DEF vars
<1>14. ASSUME NEW a \in Admins, WriteFails(a) PROVE DurableInv'
  BY <1>14 DEF WriteFails
<1>15. QED
  BY <1>1, <1>2, <1>3, <1>4, <1>5, <1>6, <1>7, <1>8, <1>9, <1>10, <1>11, <1>12,
     <1>13, <1>14 DEF Next, AdminStep

(* An acknowledged SaveUsers outlives every crash and every login, as long *)
(* as saves do not overlap and none falls between a login's two steps.     *)
THEOREM SavesDurable == Spec => []SaveIsDurable
<1>1. Init => FilesInv /\ LoadedInv /\ DurableInv
  BY UserAssumption DEF Init, FilesInv, OneSave, TempIsContent, DiskIsWhole,
     LoadedInv, DurableInv, RevOf, Libraries, Library, Logins
<1>2. TypeOK /\ FilesInv /\ [Next]_vars => FilesInv'
  BY FilesStep
<1>3. TypeOK /\ FilesInv /\ LoadedInv /\ [Next]_vars => LoadedInv'
  BY LoadedStep
<1>4. TypeOK /\ FilesInv /\ LoadedInv /\ DurableInv /\ [Next]_vars => DurableInv'
  BY DurableStep
<1>5. DurableInv => SaveIsDurable
  BY DEF DurableInv, SaveIsDurable
<1>6. QED
  BY <1>1, <1>2, <1>3, <1>4, <1>5, UserTypeCorrect, PTL DEF Spec

-----------------------------------------------------------------------------
(* Why memory follows the file: until it publishes, the one save that has  *)
(* renamed its file holds what the file now is, and no login under way     *)
(* writes back anything else.                                              *)
ForceInv ==
  met = {} =>
    /\ (\A a \in Admins : apc[a] # "renamed") => mem.rev = Load(disk).rev
    /\ \A a \in Admins :
         apc[a] = "renamed" => Load(content[a]).rev = Load(disk).rev
    /\ \A l \in Logins : lpc[l] # "idle" => mem.rev = Load(disk).rev

(* No step of a save or of a login parts memory and file otherwise.        *)
LEMMA ForceStep ==
  TypeOK /\ FilesInv /\ LoadedInv /\ ForceInv /\ [Next]_vars => ForceInv'
<1> SUFFICES ASSUME TypeOK, FilesInv, LoadedInv, ForceInv, [Next]_vars
             PROVE ForceInv'
  OBVIOUS
<1> USE UserAssumption DEF TypeOK, Contents, Libraries, Library, EmptyLibrary,
   Load, Reload, Serial, FilesInv, OneSave, TempIsContent, DiskIsWhole,
   LoadedInv, ForceInv, Logins, adminVars, loginVars, histVars, Reply
<1>1. ASSUME NEW a \in Admins, GetUsers(a) PROVE ForceInv'
  BY <1>1 DEF GetUsers
<1>2. ASSUME NEW a \in Admins, BeginSave(a) PROVE ForceInv'
  BY <1>2 DEF BeginSave
<1>3. ASSUME NEW a \in Admins, WriteTemp(a) PROVE ForceInv'
  BY <1>3 DEF WriteTemp, Overwrite
<1>4. ASSUME NEW a \in Admins, LoadTemp(a) PROVE ForceInv'
  BY <1>4 DEF LoadTemp
<1>5. ASSUME NEW a \in Admins, RenameTemp(a) PROVE ForceInv'
  <2> SUFFICES ASSUME met' = {}
               PROVE ForceInv'
    OBVIOUS
  <2>1. met = {}
    BY <1>5 DEF RenameTemp
  <2>2. temp = content[a] /\ temp # Missing
    BY <1>5, <2>1 DEF RenameTemp
  <2>3. /\ disk' = content[a] /\ apc' = [apc EXCEPT ![a] = "renamed"]
        /\ content' = content
        /\ \A l \in Logins : lpc'[l] = "idle"
    BY <1>5, <2>2 DEF RenameTemp
  <2>4. \A b \in Admins : b # a => apc[b] = "idle"
    BY <1>5, <2>1 DEF RenameTemp
  <2>5. QED
    BY <1>5, <2>1, <2>3, <2>4 DEF RenameTemp
<1>6. ASSUME NEW a \in Admins, Publish(a) PROVE ForceInv'
  BY <1>6 DEF Publish
<1>7. ASSUME NEW l \in FtpLogins, FtpReload(l) PROVE ForceInv'
  BY <1>7 DEF FtpReload, Begin
<1>8. ASSUME NEW l \in FtpLogins, FtpAuthenticate(l) PROVE ForceInv'
  BY <1>8 DEF FtpAuthenticate, AuthenticateOk, Save, Finish
<1>9. ASSUME NEW l \in SftpLogins, SftpReload(l) PROVE ForceInv'
  BY <1>9 DEF SftpReload, Begin
<1>10. ASSUME NEW l \in SftpLogins, SftpResolve(l) PROVE ForceInv'
  BY <1>10 DEF SftpResolve, Finish
<1>11. ASSUME NEW l \in SftpLogins, SftpAuthenticate(l) PROVE ForceInv'
  BY <1>11 DEF SftpAuthenticate, AuthenticateOk, Save, Finish
<1>12. CASE Crash
  BY <1>12 DEF Crash
<1>13. CASE UNCHANGED vars
  BY <1>13 DEF vars
<1>14. ASSUME NEW a \in Admins, WriteFails(a) PROVE ForceInv'
  BY <1>14 DEF WriteFails
<1>15. QED
  BY <1>1, <1>2, <1>3, <1>4, <1>5, <1>6, <1>7, <1>8, <1>9, <1>10, <1>11, <1>12,
     <1>13, <1>14 DEF Next, AdminStep

(* Between saves, memory holds the revision users.json holds, whatever     *)
(* failed, crashed or logged in, as long as saves do not overlap and none  *)
(* falls between a login's two steps.                                      *)
THEOREM MemoryFollowsFile == Spec => []MemoryInForce
<1>1. Init => FilesInv /\ LoadedInv /\ ForceInv
  BY UserAssumption DEF Init, FilesInv, OneSave, TempIsContent, DiskIsWhole,
     LoadedInv, ForceInv, Load, Libraries, Library, Logins
<1>2. TypeOK /\ FilesInv /\ [Next]_vars => FilesInv'
  BY FilesStep
<1>3. TypeOK /\ FilesInv /\ LoadedInv /\ [Next]_vars => LoadedInv'
  BY LoadedStep
<1>4. TypeOK /\ FilesInv /\ LoadedInv /\ ForceInv /\ [Next]_vars => ForceInv'
  BY ForceStep
<1>5. ForceInv => MemoryInForce
  BY DEF ForceInv, MemoryInForce
<1>6. QED
  BY <1>1, <1>2, <1>3, <1>4, <1>5, UserTypeCorrect, PTL DEF Spec

-----------------------------------------------------------------------------
(* Why a stamp stays: until the first save is submitted no handler runs,   *)
(* and both copies of the library carry every stamp saved so far.          *)
StampsInv ==
  /\ \A a \in Admins : apc[a] # "idle" => RevOf(content[a]) \in Submitted
  /\ outcomes = {FirstRev} =>
       /\ \A a \in Admins : apc[a] = "idle"
       /\ disk \in Libraries
       /\ accepted \subseteq disk.seen /\ accepted \subseteq mem.seen

(* A login writes back the library it stamped, a reload or a crash brings  *)
(* back the one that was written: neither drops a stamp.                   *)
LEMMA StampsStep ==
  ASSUME FirstRev \notin Submitted
  PROVE TypeOK /\ StampsInv /\ [Next]_vars => StampsInv'
<1> SUFFICES ASSUME TypeOK, StampsInv, [Next]_vars
             PROVE StampsInv'
  OBVIOUS
<1> USE UserAssumption DEF TypeOK, Contents, Libraries, Library, EmptyLibrary,
   Load, Reload, RevOf, StampsInv, Logins, adminVars, loginVars, histVars, Reply
<1>1. ASSUME NEW a \in Admins, GetUsers(a) PROVE StampsInv'
  BY <1>1 DEF GetUsers
<1>2. ASSUME NEW a \in Admins, BeginSave(a) PROVE StampsInv'
  <2>1. PICK rev \in Submitted :
          /\ content' = [content EXCEPT ![a] =
               IF rev = Invalid THEN Invalid ELSE Library(rev, copy[a])]
          /\ outcomes' = outcomes \cup {rev}
    BY <1>2 DEF BeginSave
  <2>2. apc' = [apc EXCEPT ![a] = "truncated"]
    BY <1>2 DEF BeginSave
  <2>3. outcomes' # {FirstRev}
    <3>1. rev \in outcomes' /\ rev # FirstRev
      BY <2>1
    <3>2. QED
      BY ONLY <3>1
  <2>4. content'[a] = IF rev = Invalid THEN Invalid ELSE Library(rev, copy[a])
    BY <2>1
  <2>5. RevOf(content'[a]) = rev
    BY <2>4
  <2>6. \A b \in Admins \ {a} : content'[b] = content[b] /\ apc'[b] = apc[b]
    BY <2>1, <2>2
  <2>7. QED
    BY <2>3, <2>5, <2>6
<1>3. ASSUME NEW a \in Admins, WriteTemp(a) PROVE StampsInv'
  BY <1>3 DEF WriteTemp, Overwrite
<1>4. ASSUME NEW a \in Admins, LoadTemp(a) PROVE StampsInv'
  BY <1>4 DEF LoadTemp
<1>5. ASSUME NEW a \in Admins, RenameTemp(a) PROVE StampsInv'
  BY <1>5 DEF RenameTemp
<1>6. ASSUME NEW a \in Admins, Publish(a) PROVE StampsInv'
  <2>1. /\ apc[a] = "renamed" /\ outcomes' = {RevOf(content[a])}
        /\ apc' = [apc EXCEPT ![a] = "idle"]
        /\ content' = [content EXCEPT ![a] = Invalid]
    BY <1>6 DEF Publish
  <2>2. outcomes' # {FirstRev}
    <3>1. RevOf(content[a]) \in outcomes' /\ RevOf(content[a]) # FirstRev
      BY <2>1
    <3> HIDE DEF RevOf
    <3>2. QED
      BY ONLY <3>1
  <2>3. \A b \in Admins \ {a} : content'[b] = content[b] /\ apc'[b] = apc[b]
    BY <2>1
  <2>4. apc'[a] = "idle"
    BY <2>1
  <2>5. QED
    BY <2>2, <2>3, <2>4
<1>7. ASSUME NEW l \in FtpLogins, FtpReload(l) PROVE StampsInv'
  BY <1>7 DEF FtpReload, Begin
<1>8. ASSUME NEW l \in FtpLogins, FtpAuthenticate(l) PROVE StampsInv'
  BY <1>8 DEF FtpAuthenticate, AuthenticateOk, Save, Finish
<1>9. ASSUME NEW l \in SftpLogins, SftpReload(l) PROVE StampsInv'
  BY <1>9 DEF SftpReload, Begin
<1>10. ASSUME NEW l \in SftpLogins, SftpResolve(l) PROVE StampsInv'
  BY <1>10 DEF SftpResolve, Finish
<1>11. ASSUME NEW l \in SftpLogins, SftpAuthenticate(l) PROVE StampsInv'
  BY <1>11 DEF SftpAuthenticate, AuthenticateOk, Save, Finish
<1>12. CASE Crash
  BY <1>12 DEF Crash
<1>13. CASE UNCHANGED vars
  BY <1>13 DEF vars
<1>14. ASSUME NEW a \in Admins, WriteFails(a) PROVE StampsInv'
  BY <1>14 DEF WriteFails
<1>15. QED
  BY <1>1, <1>2, <1>3, <1>4, <1>5, <1>6, <1>7, <1>8, <1>9, <1>10, <1>11, <1>12,
     <1>13, <1>14 DEF Next, AdminStep

(* A saved last_login stamp is lost to no other login and to no crash, up  *)
(* to the first SaveUsers.  The hypothesis is what a revision is: a        *)
(* submitted library counts as one of its own, so that outcomes tells      *)
(* whether anything was submitted since the start.                         *)
THEOREM StampsAreKept ==
  ASSUME FirstRev \notin Submitted
  PROVE Spec => []StampsKept
<1>1. Init => StampsInv
  BY UserAssumption DEF Init, StampsInv, Libraries, Library, Logins
<1>2. TypeOK /\ StampsInv /\ [Next]_vars => StampsInv'
  BY StampsStep
<1>3. StampsInv => StampsKept
  BY DEF StampsInv, StampsKept
<1>4. QED
  BY <1>1, <1>2, <1>3, UserTypeCorrect, PTL DEF Spec
================================================================================
