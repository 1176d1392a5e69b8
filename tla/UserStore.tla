------------------------------- MODULE UserStore -------------------------------
(***************************************************************************)
(* The user library: one copy in memory behind the user_manager mutex, one *)
(* in users.json.  Admins replace the file through the SaveUsers request,  *)
(* outside the mutex; every FTP and SFTP login reloads the file and, when  *)
(* it succeeds, writes the whole library back to record last_login.        *)
(* Sources: common/src/users.rs, save_users and get_users of               *)
(* wftpd/src/control.rs, ftp/src/auth.rs, sftp/src/handler.rs.             *)
(*                                                                         *)
(* A library is abstracted to the admin revision it descends from and the  *)
(* set of logins whose last_login stamp it carries.  Passwords are a       *)
(* choice: the right one or the wrong one.                                 *)
(***************************************************************************)
EXTENDS FiniteSets

CONSTANTS
  Revs,       (* admin revisions of the library                            *)
  FirstRev,   (* the revision installed at the start                       *)
  NoRev,      (* the empty library UserManager::new() makes                *)
  Invalid,    (* file content that is not a user library                   *)
  Torn,       (* a file truncated and not yet written                      *)
  Mixed,      (* a file two writers wrote over each other                  *)
  Missing,    (* no such file                                              *)
  Admins,     (* connections that send SaveUsers                           *)
  FtpLogins,  (* FTP sessions logging in                                   *)
  SftpLogins, (* SFTP sessions logging in                                  *)
  Enabled,    (* revision -> the logins whose account it enables           *)
  Nobody,     (* the user_manager mutex is free                            *)
  Submitted,  (* what admins submit: revisions, possibly Invalid           *)
  Faults      (* "crash": the daemon dies; "save": a write fails *)

Logins == FtpLogins \cup SftpLogins
Library(rev, seen) == [rev |-> rev, seen |-> seen]
Libraries == [rev : Revs \cup {NoRev}, seen : SUBSET Logins]
EmptyLibrary == Library(NoRev, {})
Contents == Libraries \cup {Invalid, Torn, Mixed, Missing}

(* What some of the properties below are stated to be free of.             *)
Hazards == {
  "overlap",  (* two SaveUsers requests ran side by side                   *)
  "late" }    (* a SaveUsers renamed its file between a login's reload and *)
              (* its authentication                                        *)

ASSUME UserAssumption ==
  /\ FirstRev \in Revs
  /\ NoRev \notin Revs
  /\ Invalid \notin Revs
  /\ {Invalid, Torn, Mixed, Missing} \cap Libraries = {}
  /\ {Torn, Mixed} \cap {Invalid, Missing} = {} /\ Torn # Mixed
  /\ Missing # Invalid
  /\ FtpLogins \cap SftpLogins = {}
  /\ Nobody \notin Logins
  /\ Submitted \subseteq Revs \cup {Invalid}
  /\ Enabled \in [Revs \cup {NoRev} -> SUBSET Logins]
  /\ Enabled[NoRev] = {}
  /\ Faults \subseteq {"crash", "save"}

VARIABLES
  mem,        (* UserManager.users                                         *)
  disk,       (* users.json                                                *)
  temp,       (* users.json.tmp, the temporary file of every SaveUsers     *)
  lock,       (* holder of the user_manager mutex across two disk accesses *)
  apc,        (* the next step of each SaveUsers handler                   *)
  copy,       (* the stamps in the library each admin's GUI last fetched   *)
  target,     (* the file each open handle now is: "temp", "disk", "gone"  *)
  content,    (* what each SaveUsers handler was sent                      *)
  validated,  (* what each SaveUsers handler loaded back                   *)
  lpc,        (* the next step of each login                               *)
  accepted,   (* logins whose stamp was saved so far (history)             *)
  outcomes,   (* revisions users.json may hold: the last acknowledged one  *)
              (* and those submitted since (history)                       *)
  window,     (* revisions on disk when each login began, or being saved   *)
              (* since (history)                                           *)
  met         (* which of Hazards this behaviour has met (history)         *)

adminVars == <<apc, copy, target, content, validated>>
loginVars == <<lpc, accepted, window>>
histVars == <<outcomes, met>>
vars == <<mem, disk, temp, lock, adminVars, loginVars, histVars>>

TypeOK ==
  /\ mem \in Libraries
  /\ disk \in Contents
  /\ temp \in Contents
  /\ lock \in FtpLogins \cup {Nobody}
  /\ apc \in [Admins -> {"idle", "truncated", "written", "loaded", "renamed"}]
  /\ copy \in [Admins -> SUBSET Logins]
  /\ target \in [Admins -> {"temp", "disk", "gone"}]
  /\ content \in [Admins -> Libraries \cup {Invalid}]
  /\ validated \in [Admins -> Libraries]
  /\ lpc \in [Logins -> {"idle", "resolve", "auth"}]
  /\ accepted \in SUBSET Logins
  /\ outcomes \in SUBSET (Revs \cup {NoRev, Invalid})
  /\ window \in [Logins -> SUBSET (Revs \cup {NoRev})]
  /\ met \in SUBSET Hazards

Init ==
  /\ mem = Library(FirstRev, {})
  /\ disk = mem
  /\ temp = Missing
  /\ lock = Nobody
  /\ apc = [a \in Admins |-> "idle"]
  /\ copy = [a \in Admins |-> {}]
  /\ target = [a \in Admins |-> "gone"]
  /\ content = [a \in Admins |-> Invalid]
  /\ validated = [a \in Admins |-> EmptyLibrary]
  /\ lpc = [l \in Logins |-> "idle"]
  /\ accepted = {}
  /\ outcomes = {FirstRev}
  /\ window = [l \in Logins |-> {}]
  /\ met = {}

-----------------------------------------------------------------------------
(* UserManager *)

(* UserManager::load: whatever is wrong with the file, an empty library.   *)
Load(file) == IF file \in Libraries THEN file ELSE EmptyLibrary

(* UserManager::reload: a missing or an empty file leaves memory alone,    *)
(* one that does not parse empties it.                                     *)
Reload(file) == IF file \in {Missing, Torn} THEN mem ELSE Load(file)

(* The revision of a file's content, for the history variables.            *)
RevOf(file) == IF file \in Libraries THEN file.rev ELSE Invalid

(* Faulty variant: the library is saved before the stamp is set.           *)
SaveBeforeStamp(l) ==
  /\ l \in Enabled[mem.rev]
  /\ mem' = Library(mem.rev, mem.seen \cup {l})
  /\ disk' = mem
  /\ accepted' = accepted \cup {l}

(* UserManager::save: a temporary file of its own, used under the mutex    *)
(* only, is renamed to users.json.  A failed save is ignored.              *)
Save(l) ==
  \/ disk' = mem' /\ accepted' = accepted \cup {l}
  \/ "save" \in Faults /\ UNCHANGED <<disk, accepted>>

(* UserManager::authenticate of an enabled user with the right password:   *)
(* stamp last_login, save the whole library.                               *)
AuthenticateOk(l) ==
  /\ l \in Enabled[mem.rev]
  /\ mem' = Library(mem.rev, mem.seen \cup {l})
  /\ Save(l)

-----------------------------------------------------------------------------
(* SaveUsers.  An admin's GUI edits the library it fetched and sends all   *)
(* of it back.                                                             *)

(* The handler returns.                                                    *)
Reply(a) ==
  /\ apc' = [apc EXCEPT ![a] = "idle"]
  /\ content' = [content EXCEPT ![a] = Invalid]
  /\ validated' = [validated EXCEPT ![a] = EmptyLibrary]

GetUsers(a) ==
  /\ apc[a] = "idle"
  /\ disk \in Libraries
  /\ copy' = [copy EXCEPT ![a] = disk.seen]
  /\ UNCHANGED <<mem, disk, temp, lock, apc, target, content, validated,
                 loginVars, histVars>>

(* fs::write opens the temporary file, truncating it ...                   *)
BeginSave(a) ==
  /\ apc[a] = "idle"
  /\ \E rev \in Submitted :
       /\ content' = [content EXCEPT ![a] =
            IF rev = Invalid THEN Invalid ELSE Library(rev, copy[a])]
       /\ outcomes' = outcomes \cup {rev}
       /\ window' = [l \in Logins |-> IF lpc[l] = "idle" THEN {}
                        ELSE window[l] \cup {Load(content'[a]).rev}]
  /\ met' = met \cup {h \in {"overlap"} : \E b \in Admins : apc[b] # "idle"}
  /\ temp' = Torn
  /\ target' = [target EXCEPT ![a] = "temp"]
  /\ apc' = [apc EXCEPT ![a] = "truncated"]
  /\ UNCHANGED <<mem, disk, lock, copy, validated, lpc, accepted>>

(* What a handle's write leaves in a file: the new content, or a mixture   *)
(* if another SaveUsers wrote since it was truncated.                      *)
Overwrite(file, new) == IF file = Torn THEN {new} ELSE {new, Mixed}

(* ... and then writes the handle it opened; if another SaveUsers has      *)
(* renamed the file, the bytes go to users.json.                           *)
WriteTemp(a) ==
  /\ apc[a] = "truncated"
  /\ \/ /\ target[a] = "temp"
        /\ temp' \in Overwrite(temp, content[a])
        /\ UNCHANGED disk
     \/ /\ target[a] = "disk"
        /\ disk' \in Overwrite(disk, content[a])
        /\ UNCHANGED temp
     \/ target[a] = "gone" /\ UNCHANGED <<disk, temp>>
  /\ target' = [target EXCEPT ![a] = "gone"]
  /\ apc' = [apc EXCEPT ![a] = "written"]
  /\ UNCHANGED <<mem, lock, copy, content, validated, loginVars, histVars>>

(* A write that fails leaves the temporary file behind and memory alone.   *)
WriteFails(a) ==
  /\ "save" \in Faults
  /\ apc[a] = "truncated"
  /\ target' = [target EXCEPT ![a] = "gone"]
  /\ Reply(a)
  /\ UNCHANGED <<mem, disk, temp, lock, copy, loginVars, histVars>>

LoadTemp(a) ==
  /\ apc[a] = "written"
  /\ validated' = [validated EXCEPT ![a] = Load(temp)]
  /\ apc' = [apc EXCEPT ![a] = "loaded"]
  /\ UNCHANGED <<mem, disk, temp, lock, copy, target, content, loginVars,
                 histVars>>

(* Faulty variant: the submitted content is written to users.json in place. *)
WriteInPlace(a) ==
  /\ apc[a] = "loaded"
  /\ disk' = Torn
  /\ temp' = Missing
  /\ apc' = [apc EXCEPT ![a] = "renamed"]
  /\ UNCHANGED <<mem, lock, copy, target, content, validated, loginVars,
                 histVars>>

(* rename publishes whatever the temporary file now is; without one the    *)
(* request fails.                                                          *)
RenameTemp(a) ==
  /\ apc[a] = "loaded"
  /\ temp' = Missing
  /\ IF temp = Missing
     THEN Reply(a) /\ UNCHANGED <<disk, target, met>>
     ELSE /\ disk' = temp
          /\ target' = [b \in Admins |->
               IF target[b] = "temp" THEN "disk" ELSE "gone"]
          /\ apc' = [apc EXCEPT ![a] = "renamed"]
          /\ met' = met \cup {h \in {"late"} :
                              \E l \in Logins : lpc[l] # "idle"}
          /\ UNCHANGED <<content, validated>>
  /\ UNCHANGED <<mem, lock, copy, loginVars, outcomes>>

(* Faulty variant: the request is acknowledged before the file is renamed. *)
PublishEarly(a) ==
  /\ apc[a] = "loaded"
  /\ lock = Nobody
  /\ mem' = validated[a]
  /\ outcomes' = {RevOf(content[a])}
  /\ Reply(a)
  /\ UNCHANGED <<disk, temp, lock, copy, target, loginVars, met>>

(* Faulty variant: memory is left to the next login's reload.              *)
PublishNothing(a) ==
  /\ apc[a] = "renamed"
  /\ outcomes' = {RevOf(content[a])}
  /\ Reply(a)
  /\ UNCHANGED <<mem, disk, temp, lock, copy, target, loginVars, met>>

(* Under the mutex the loaded library replaces memory; the reply goes out. *)
Publish(a) ==
  /\ apc[a] = "renamed"
  /\ lock = Nobody
  /\ mem' = validated[a]
  /\ outcomes' = {RevOf(content[a])}
  /\ Reply(a)
  /\ UNCHANGED <<disk, temp, lock, copy, target, loginVars, met>>

-----------------------------------------------------------------------------
(* Logins *)

Begin(l) ==
  /\ lpc[l] = "idle"
  /\ window' = [window EXCEPT ![l] =
       {Reload(disk).rev} \cup
       {Load(content[a]).rev : a \in {b \in Admins : apc[b] # "idle"}}]

Finish(l) ==
  /\ lpc' = [lpc EXCEPT ![l] = "idle"]
  /\ window' = [window EXCEPT ![l] = {}]

(* The FTP authenticator holds the mutex across reload and authenticate.   *)
FtpReload(l) ==
  /\ lock = Nobody
  /\ Begin(l)
  /\ mem' = Reload(disk)
  /\ lock' = l
  /\ lpc' = [lpc EXCEPT ![l] = "auth"]
  /\ UNCHANGED <<disk, temp, adminVars, accepted, histVars>>

FtpAuthenticate(l) ==
  /\ lpc[l] = "auth"
  /\ lock = l
  /\ lock' = Nobody
  /\ Finish(l)
  /\ \/ AuthenticateOk(l)
     \/ UNCHANGED <<mem, disk, accepted>>
  /\ UNCHANGED <<temp, adminVars, histVars>>

(* Faulty variant: the SFTP handler relies on the copy in memory.          *)
SftpTrustsMemory(l) ==
  /\ lock = Nobody
  /\ Begin(l)
  /\ lpc' = [lpc EXCEPT ![l] = "resolve"]
  /\ UNCHANGED <<mem, disk, temp, lock, adminVars, accepted, histVars>>

(* The SFTP handler takes the mutex three times: to reload, to look the    *)
(* user up, and to authenticate.                                           *)
SftpReload(l) ==
  /\ lock = Nobody
  /\ Begin(l)
  /\ mem' = Reload(disk)
  /\ lpc' = [lpc EXCEPT ![l] = "resolve"]
  /\ UNCHANGED <<disk, temp, lock, adminVars, accepted, histVars>>

SftpResolve(l) ==
  /\ lpc[l] = "resolve"
  /\ lock = Nobody
  /\ \/ /\ l \in Enabled[mem.rev]
        /\ lpc' = [lpc EXCEPT ![l] = "auth"]
        /\ UNCHANGED window
     \/ l \notin Enabled[mem.rev] /\ Finish(l)
  /\ UNCHANGED <<mem, disk, temp, lock, adminVars, accepted, histVars>>

SftpAuthenticate(l) ==
  /\ lpc[l] = "auth"
  /\ lock = Nobody
  /\ Finish(l)
  /\ \/ AuthenticateOk(l)
     \/ UNCHANGED <<mem, disk, accepted>>
  /\ UNCHANGED <<temp, lock, adminVars, histVars>>

-----------------------------------------------------------------------------
(* The daemon dies between any two steps and comes back from users.json.   *)
Crash ==
  /\ "crash" \in Faults
  /\ mem' = Load(disk)
  /\ lock' = Nobody
  /\ apc' = [a \in Admins |-> "idle"]
  /\ target' = [a \in Admins |-> "gone"]
  /\ content' = [a \in Admins |-> Invalid]
  /\ validated' = [a \in Admins |-> EmptyLibrary]
  /\ lpc' = [l \in Logins |-> "idle"]
  /\ window' = [l \in Logins |-> {}]
  /\ UNCHANGED <<disk, temp, copy, accepted, histVars>>

AdminStep(a) ==
  \/ GetUsers(a) \/ BeginSave(a) \/ WriteTemp(a) \/ WriteFails(a)
  \/ LoadTemp(a) \/ RenameTemp(a) \/ Publish(a)

Next ==
  \/ \E a \in Admins : AdminStep(a)
  \/ \E l \in FtpLogins : FtpReload(l) \/ FtpAuthenticate(l)
  \/ \E l \in SftpLogins :
       SftpReload(l) \/ SftpResolve(l) \/ SftpAuthenticate(l)
  \/ Crash

Spec == Init /\ [][Next]_vars

-----------------------------------------------------------------------------
(* Properties *)

(* No two SaveUsers requests have overlapped so far.                       *)
Serial == "overlap" \notin met

(* users.json never becomes a half-written library, whatever step the      *)
(* daemon dies at: a save prepares the file aside and renames it.          *)
DiskWhole == Serial => disk \notin {Torn, Mixed}

(* An acknowledged SaveUsers stays: users.json holds the acknowledged      *)
(* revision or one submitted since, after any crash, and after the logins  *)
(* that write the whole library back, unless the save came between a       *)
(* login's reload and its authentication.                                  *)
SaveIsDurable == met = {} => RevOf(disk) \in outcomes

(* The same with no exception for logins: what a save published takes      *)
(* effect at once and stays (ftp/src/auth.rs).                             *)
NoSaveUndone == Serial => RevOf(disk) \in outcomes

(* Once every SaveUsers is answered, memory, which the rights of open      *)
(* sessions are read from, holds the revision users.json holds: no failed  *)
(* write, login or crash parts them (save_users renames, then publishes).  *)
MemoryInForce ==
  met = {} /\ (\A a \in Admins : apc[a] = "idle") => mem.rev = Load(disk).rev

(* A login decides by the library that was in users.json when it began or  *)
(* by one that was being saved while it ran, never by an older copy (both  *)
(* authenticators reload the file first).                                  *)
LoginUsesLibraryInForce ==
  Serial => \A l \in Logins : lpc[l] # "idle" => mem.rev \in window[l]

(* A saved last_login stamp is not lost to another login or to a crash;    *)
(* only a SaveUsers, which carries the GUI's older copy, may undo it.      *)
StampsKept ==
  outcomes = {FirstRev} => disk \in Libraries /\ accepted \subseteq disk.seen
================================================================================
