------------------------------ MODULE ConfigStore ------------------------------
(***************************************************************************)
(* The daemon's configuration: one copy in memory behind the config mutex, *)
(* one in config.toml.  Start/StopService and SaveLogConfig change memory  *)
(* and write the file under the mutex; SaveConfig writes the file first,   *)
(* without it, and then replaces memory; the GUI's log tab writes the file *)
(* itself.  All of them use the one temporary file config.tmp.             *)
(* Sources: Config of common/src/config.rs, the configuration requests of  *)
(* wftpd/src/control.rs, wftpg/src/ui/log_tab.rs and server_tab.rs.        *)
(*                                                                         *)
(* A configuration is abstracted to one service's enabled flag, the rest   *)
(* of the server settings (a form) and the log level.  What apply_enabled_ *)
(* flags does to the services is in ServiceLifecycle.                      *)
(***************************************************************************)
EXTENDS Naturals

CONSTANTS
  Clients,   (* control connections, each one request at a time            *)
  Forms,     (* values of the settings the server tab edits                *)
  FirstForm,
  Unsafe,    (* forms with anonymous FTP and no usable anonymous_home      *)
  Levels,    (* log levels, a larger one more verbose                      *)
  FirstLevel,
  Requests,  (* the requests sent: "config", "flag", "log", "direct"       *)
  Faults,    (* "crash": the daemon dies; "disk": a write fails            *)
  Nobody,    (* the config mutex is free                                   *)
  Empty,     (* a file just truncated                                      *)
  Mixed,     (* a file two writers wrote over each other                   *)
  Missing    (* no such file                                               *)

Configs == [on : BOOLEAN, form : Forms, log : Levels]
Files == Configs \cup {Empty, Mixed}

ASSUME ConfigAssumption ==
  /\ FirstForm \in Forms
  /\ Levels \subseteq Nat /\ FirstLevel \in Levels
  /\ Unsafe \subseteq Forms
  /\ Nobody \notin Clients
  /\ {Empty, Mixed, Missing} \cap Configs = {}
  /\ Empty # Mixed /\ Missing # Empty /\ Missing # Mixed
  /\ Requests \subseteq {"config", "flag", "log", "direct"}
  /\ Faults \subseteq {"crash", "disk"}

(* What the properties below are stated to be free of.                     *)
Hazards == {
  "overlap",  (* a SaveConfig or a GUI save ran beside another request     *)
  "direct",   (* the GUI wrote config.toml itself                          *)
  "disk",     (* a write failed                                            *)
  "changes",  (* a SaveConfig changed the flag on purpose                  *)
  "outdated", (* a SaveConfig was sent from a GUI copy whose flag or level *)
              (* is not the daemon's                                       *)
  "early",    (* a Start or Stop found its flag set by one still saving it *)
  "relog" }   (* two SaveLogConfig requests overlapped                     *)

VARIABLES
  mem,       (* BackendState.config                                        *)
  disk,      (* config.toml                                                *)
  temp,      (* config.tmp                                                 *)
  lock,      (* holder of the config mutex across disk accesses            *)
  level,     (* the level of the reloadable filter in front of the layers  *)
  layers,    (* the level of each layer's own filter, cloned at the start  *)
  pc, op,    (* each client's next step and its request: one of Requests,  *)
             (* or "relog", a SaveLogConfig that changes the level         *)
  new,       (* the configuration each request is writing                  *)
  target,    (* the file each open handle now is: "temp", "disk" or "gone" *)
  copy,      (* the configuration each client's GUI holds                  *)
  intent,    (* the last Start or Stop, and whether it was acknowledged    *)
  met        (* which of Hazards this behaviour has met (history)          *)

files == <<disk, temp, target>>
filters == <<level, layers>>
history == <<intent, met>>
vars == <<mem, files, lock, filters, pc, op, new, copy, history>>

TypeOK ==
  /\ mem \in Configs
  /\ disk \in Files
  /\ temp \in Files \cup {Missing}
  /\ lock \in Clients \cup {Nobody}
  /\ level \in Levels
  /\ layers \in Levels
  /\ pc \in [Clients -> {"idle", "persist", "truncated", "written", "read",
                         "publish", "level"}]
  /\ op \in [Clients -> {"none", "config", "flag", "log", "relog", "direct"}]
  /\ new \in [Clients -> Configs \cup {Missing}]
  /\ target \in [Clients -> {"temp", "disk", "gone"}]
  /\ copy \in [Clients -> Configs]
  /\ intent \in [on : BOOLEAN, acked : BOOLEAN]
  /\ met \in SUBSET Hazards

Init ==
  /\ mem = [on |-> FALSE, form |-> FirstForm, log |-> FirstLevel]
  /\ disk = mem
  /\ temp = Missing
  /\ lock = Nobody
  /\ level = FirstLevel /\ layers = FirstLevel
  /\ pc = [c \in Clients |-> "idle"]
  /\ op = [c \in Clients |-> "none"]
  /\ new = [c \in Clients |-> Missing]
  /\ target = [c \in Clients |-> "gone"]
  /\ copy = [c \in Clients |-> mem]
  /\ intent = [on |-> FALSE, acked |-> TRUE]
  /\ met = {}

-----------------------------------------------------------------------------
(* Config *)

Valid(config) == ~(config.on /\ config.form \in Unsafe)

(* The requests in progress.                                               *)
Pending == {c \in Clients : pc[c] # "idle"}

Receive(c, request) == request \in Requests /\ c \notin Pending

(* A request meets the hazards of kinds: those that hold, and "overlap".   *)
Unlocked == {"config", "direct"}
Meets(request, kinds) ==
  met' = met \cup kinds \cup
         IF \E d \in Pending : request \in Unlocked \/ op[d] \in Unlocked
         THEN {"overlap"} ELSE {}
When(condition, kind) == IF condition THEN {kind} ELSE {}

Goto(c, step) == pc' = [pc EXCEPT ![c] = step]

(* Faulty variant: config.toml itself is opened for writing.               *)
TruncateInPlace(c, config) ==
  /\ new' = [new EXCEPT ![c] = config]
  /\ disk' = Empty
  /\ target' = [target EXCEPT ![c] = "disk"]
  /\ Goto(c, "truncated")
  /\ UNCHANGED temp

(* Config::save starts with fs::write opening config.tmp, truncating it.   *)
Truncate(c, config) ==
  /\ new' = [new EXCEPT ![c] = config]
  /\ temp' = Empty
  /\ target' = [target EXCEPT ![c] = "temp"]
  /\ Goto(c, "truncated")
  /\ UNCHANGED disk

(* What a handle's write leaves in a file: the new content, or a mixture   *)
(* if someone else wrote since it was truncated.                           *)
Overwrite(file, config) ==
  IF file = Empty THEN {config} ELSE {config, Mixed}

(* The request is over, well or badly.                                     *)
Reply(c) ==
  /\ Goto(c, "idle")
  /\ op' = [op EXCEPT ![c] = "none"]
  /\ new' = [new EXCEPT ![c] = Missing]
  /\ lock' = IF lock = c THEN Nobody ELSE lock

(* Start and Stop answer "ok" whether or not the file was written.         *)
Acknowledge(c) ==
  intent' = IF op[c] = "flag" /\ new[c].on = intent.on
            THEN [intent EXCEPT !.acked = TRUE] ELSE intent

(* fs::write goes on to write the handle it opened.                        *)
WriteTemp(c) ==
  /\ pc[c] = "truncated"
  /\ \/ /\ target[c] = "temp"
        /\ temp' \in Overwrite(temp, new[c])
        /\ UNCHANGED disk
     \/ /\ target[c] = "disk"
        /\ disk' \in Overwrite(disk, new[c])
        /\ UNCHANGED temp
     \/ target[c] = "gone" /\ UNCHANGED <<disk, temp>>
  /\ target' = [target EXCEPT ![c] = "gone"]
  /\ Goto(c, "written")
  /\ UNCHANGED <<mem, lock, filters, op, new, copy, history>>

(* The disk is full: the save fails, config.tmp stays behind.              *)
WriteFails(c) ==
  /\ "disk" \in Faults
  /\ pc[c] = "truncated"
  /\ target' = [target EXCEPT ![c] = "gone"]
  /\ Reply(c)
  /\ Acknowledge(c)
  /\ met' = met \cup {"disk"}
  /\ UNCHANGED <<mem, disk, temp, filters, copy>>

(* What follows a successful save, per request.                            *)
AfterSave(c) ==
  IF op[c] \in {"flag", "direct"}
  THEN Reply(c)
  ELSE /\ Goto(c, IF op[c] = "config" THEN "read" ELSE "level")
       /\ lock' = IF lock = c THEN Nobody ELSE lock
       /\ UNCHANGED <<op, new>>

(* The last step of Config::save.  Handles still open on config.tmp now    *)
(* are handles on config.toml.  If another writer has renamed it already,  *)
(* the save fails.                                                         *)
RenameTemp(c) ==
  /\ pc[c] = "written"
  /\ temp' = Missing
  /\ IF temp = Missing
     THEN Reply(c) /\ UNCHANGED <<disk, target>>
     ELSE /\ disk' = temp
          /\ target' = [d \in Clients |->
               IF target[d] = "temp" THEN "disk" ELSE "gone"]
          /\ AfterSave(c)
  /\ Acknowledge(c)
  /\ UNCHANGED <<mem, filters, copy, met>>

-----------------------------------------------------------------------------
(* SaveConfig: the GUI edits its own copy and sends all of it.             *)

(* What the save button of the server tab makes of the GUI's copy: it sets *)
(* the flag and the form from the widgets and keeps the rest.              *)
Edited(c) == {config \in Configs : config.log = copy[c].log}

(* The copy stays edited whatever becomes of the request.  A configuration *)
(* that does not validate is refused.                                      *)
SaveConfig(c) ==
  /\ Receive(c, "config")
  /\ \E config \in Edited(c) :
       /\ copy' = [copy EXCEPT ![c] = config]
       /\ IF Valid(config)
          THEN /\ op' = [op EXCEPT ![c] = "config"]
               /\ Truncate(c, config)
               /\ Meets("config", When(config.on # copy[c].on, "changes") \cup
                        When(copy[c].on # mem.on \/ copy[c].log # mem.log,
                             "outdated"))
          ELSE /\ met' = met \cup When(config.on # copy[c].on, "changes")
               /\ UNCHANGED <<op, new, files, pc>>
  /\ UNCHANGED <<mem, lock, filters, intent>>

(* The reply's content is read back from the file; the GUI adopts it.      *)
ReadBack(c) ==
  /\ pc[c] = "read"
  /\ copy' = [copy EXCEPT ![c] = IF disk \in Configs THEN disk ELSE copy[c]]
  /\ Goto(c, "publish")
  /\ UNCHANGED <<mem, files, lock, filters, op, new, history>>

PublishConfig(c) ==
  /\ pc[c] = "publish"
  /\ lock = Nobody
  /\ mem' = new[c]
  /\ Reply(c)
  /\ UNCHANGED <<files, filters, copy, history>>

-----------------------------------------------------------------------------
(* Start/StopService: set_ftp_enabled, set_sftp_enabled.                   *)

(* An unchanged flag returns at once ...                                   *)
KeepEnabled(c) ==
  /\ Receive(c, "flag")
  /\ lock = Nobody
  /\ intent' = [on |-> mem.on, acked |-> TRUE]
  /\ Meets("flag", When(\E d \in Pending : op[d] = "flag", "early"))
  /\ UNCHANGED <<mem, files, lock, filters, pc, op, new, copy>>

(* ... a changed one is persisted next, under another lock of the mutex.   *)
SetEnabled(c) ==
  /\ Receive(c, "flag")
  /\ lock = Nobody
  /\ mem' = [mem EXCEPT !.on = ~@]
  /\ op' = [op EXCEPT ![c] = "flag"]
  /\ new' = [new EXCEPT ![c] = mem']
  /\ intent' = [on |-> ~mem.on, acked |-> FALSE]
  /\ Goto(c, "persist")
  /\ Meets("flag", {})
  /\ UNCHANGED <<files, lock, filters, copy>>

(* Faulty variant: what is written is the configuration as it was when the *)
(* flag was set.                                                           *)
PersistSnapshot(c) ==
  /\ pc[c] = "persist"
  /\ lock = Nobody
  /\ lock' = c
  /\ Truncate(c, new[c])
  /\ UNCHANGED <<mem, filters, op, copy, history>>

(* Faulty variant: the flag is never written.                              *)
PersistNothing(c) ==
  /\ pc[c] = "persist"
  /\ lock = Nobody
  /\ Reply(c)
  /\ Acknowledge(c)
  /\ UNCHANGED <<mem, files, filters, copy, met>>

PersistConfig(c) ==
  /\ pc[c] = "persist"
  /\ lock = Nobody
  /\ lock' = c
  /\ Truncate(c, mem)
  /\ UNCHANGED <<mem, filters, op, copy, history>>

-----------------------------------------------------------------------------
(* SaveLogConfig *)

SaveLogConfig(c) ==
  /\ Receive(c, "log")
  /\ lock = Nobody
  /\ lock' = c
  /\ \E log \in Levels :
       /\ mem' = [mem EXCEPT !.log = log]
       /\ op' = [op EXCEPT ![c] = IF log = mem.log THEN "log" ELSE "relog"]
  /\ Truncate(c, mem')
  /\ Meets("log", When(\E d \in Pending : op[d] \in {"log", "relog"}, "relog"))
  /\ UNCHANGED <<filters, copy, intent>>

(* set_log_level replaces the filter in front of the layers; each layer     *)
(* keeps the one it was given when the daemon started.  A record is logged  *)
(* when both let it through, so the quieter of the two is in force.         *)
InForce == IF level <= layers THEN level ELSE layers

(* Faulty variant: the running filter is left as it is.                    *)
KeepLogLevel(c) ==
  /\ pc[c] = "level"
  /\ Reply(c)
  /\ UNCHANGED <<mem, files, filters, copy, intent, met>>

SetLogLevel(c) ==
  /\ pc[c] = "level"
  /\ level' = IF op[c] = "relog" THEN new[c].log ELSE level
  /\ Reply(c)
  /\ UNCHANGED <<mem, files, layers, copy, intent, met>>

-----------------------------------------------------------------------------
(* The log tab of the GUI saves its own copy to config.toml itself.        *)
GuiSaveLog(c) ==
  /\ Receive(c, "direct")
  /\ op' = [op EXCEPT ![c] = "direct"]
  /\ \E log \in Levels : copy' = [copy EXCEPT ![c].log = log]
  /\ Truncate(c, copy'[c])
  /\ Meets("direct", {"direct"})
  /\ UNCHANGED <<mem, lock, filters, intent>>

(* The daemon dies between any two steps and loads config.toml again; with *)
(* a file that does not parse it cannot come back.  The GUI's own save     *)
(* goes on.                                                                *)
Restart ==
  /\ "crash" \in Faults
  /\ disk \in Configs
  /\ mem' = disk
  /\ level' = disk.log /\ layers' = disk.log
  /\ lock' = Nobody
  /\ pc' = [c \in Clients |-> IF op[c] = "direct" THEN pc[c] ELSE "idle"]
  /\ op' = [c \in Clients |-> IF op[c] = "direct" THEN op[c] ELSE "none"]
  /\ new' = [c \in Clients |-> IF op[c] = "direct" THEN new[c] ELSE Missing]
  /\ target' = [c \in Clients |->
                  IF op[c] = "direct" THEN target[c] ELSE "gone"]
  /\ UNCHANGED <<disk, temp, copy, history>>

ClientStep(c) ==
  \/ SaveConfig(c) \/ ReadBack(c) \/ PublishConfig(c)
  \/ KeepEnabled(c) \/ SetEnabled(c) \/ PersistConfig(c)
  \/ SaveLogConfig(c) \/ SetLogLevel(c)
  \/ GuiSaveLog(c)
  \/ WriteTemp(c) \/ WriteFails(c) \/ RenameTemp(c)

Next == (\E c \in Clients : ClientStep(c)) \/ Restart

Spec == Init /\ [][Next]_vars

-----------------------------------------------------------------------------
(* Properties *)

Free(kinds) == met \cap kinds = {}

(* config.toml is never half-written or a mixture, whenever the daemon     *)
(* dies: Config::save prepares config.tmp and renames it.  A daemon that   *)
(* finds anything else does not start.                                     *)
ConfigWhole == Free({"overlap"}) => disk \in Configs

(* Once no request is in progress the file holds what the daemon runs by,  *)
(* whatever order Start, Stop and SaveLogConfig interleaved in and         *)
(* wherever the daemon died: a restart changes nothing.                    *)
MemoryPersisted ==
  Free({"overlap", "direct", "disk"}) /\ Pending = {} => disk = mem

(* An acknowledged Start or Stop is on disk, so that the intent to run or  *)
(* not survives a restart, until the next one (control.rs, header).        *)
FlagDurable ==
  Free(Hazards \ {"relog"}) /\ intent.acked => disk.on = intent.on

(* Once no request is in progress, a configured level no more verbose than *)
(* the one the daemon started with is what is logged, also after a restart *)
(* (save_log_config).                                                      *)
QuieterInForce ==
  Free(Hazards \ {"early"}) /\ Pending = {} /\ mem.log <= layers
    => InForce = mem.log
================================================================================
