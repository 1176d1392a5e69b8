--------------------------- MODULE ConfigStoreProofs ---------------------------
(***************************************************************************)
(* Proofs about ConfigStore: for any number of clients, any forms, levels, *)
(* requests and faults.                                                    *)
(***************************************************************************)
EXTENDS ConfigStore, TLAPS

(* The handler has the temporary file open or just written.                 *)
Writing(c) == pc[c] \in {"truncated", "written"}

(* A request and its step fit together.                                    *)
StepFits ==
  \A c \in Clients :
    /\ pc[c] = "idle" <=> op[c] = "none"
    /\ pc[c] # "idle" => new[c] \in Configs
    /\ pc[c] \in {"read", "publish"} => op[c] = "config"
    /\ pc[c] = "persist" => op[c] = "flag"
    /\ pc[c] = "level" => op[c] \in {"log", "relog"}
    /\ pc[c] # "truncated" => target[c] = "gone"

(* The mutex is held exactly while a locked request writes the file.       *)
LockFits ==
  \A c \in Clients : lock = c <=> Writing(c) /\ op[c] \notin Unlocked

(* Without overlaps an unlocked save is the only request in progress.      *)
Alone ==
  \A c, d \in Clients : op[c] \in Unlocked /\ op[d] # "none" => c = d

(* So config.tmp belongs to the one request that writes it.                *)
OwnTemp ==
  \A c \in Clients :
    /\ pc[c] = "truncated" => temp = Empty /\ target[c] = "temp"
    /\ pc[c] = "written" => temp = new[c]

(* The file invariant.                                                     *)
FilesInv ==
  /\ StepFits
  /\ LockFits
  /\ Free({"overlap"}) => Alone /\ OwnTemp /\ disk \in Configs

(* None of the hazards has happened that part memory from disk.            *)
Sound == Free({"overlap", "direct", "disk"})

(* A request that has changed one of memory and disk and not yet the other. *)
Behind(c) == pc[c] \notin {"idle", "level"}

(* What a request has left to do before memory and disk are one again.     *)
MemoryInv ==
  Sound =>
    /\ (\A c \in Clients : ~Behind(c)) => disk = mem
    /\ \A c \in Clients :
         /\ lock = c => new[c] = mem
         /\ pc[c] \in {"read", "publish"} => disk = new[c]
         /\ op[c] # "direct"

(* An acknowledged flag is in the file and in memory; a SaveConfig leaves  *)
(* it as it is.                                                            *)
FlagInv ==
  Free(Hazards \ {"relog"}) =>
    /\ intent.acked => (disk.on <=> intent.on) /\ (mem.on <=> intent.on)
    /\ \A c \in Clients : op[c] = "config" => (new[c].on <=> mem.on)

(* Only the one SaveLogConfig that changes the level may have left the     *)
(* filter behind, and it knows the level in memory.                        *)
LevelInv ==
  Free(Hazards \ {"early"}) =>
    /\ (\A c \in Clients : op[c] # "relog") => level = mem.log
    /\ \A c \in Clients : op[c] \in {"config", "relog"} => new[c].log = mem.log
    /\ \A c, d \in Clients :
         op[c] \in {"log", "relog"} /\ op[d] \in {"log", "relog"} => c = d

-----------------------------------------------------------------------------
(* Memory and files start with their types.                                *)
LEMMA TypeInit == Init => TypeOK
BY ConfigAssumption DEF Init, TypeOK, Configs, Files

(* No step takes a variable out of its type.                               *)
LEMMA TypeStep ==
  TypeOK /\ FilesInv /\ [Next]_vars => TypeOK'
<1> SUFFICES ASSUME TypeOK, FilesInv, [Next]_vars
             PROVE TypeOK'
  OBVIOUS
<1> USE ConfigAssumption DEF TypeOK, FilesInv, StepFits, Files, Configs,
   Hazards, Pending, files, filters, history
<1>1. ASSUME NEW c \in Clients, SaveConfig(c) PROVE TypeOK'
  <2>1. PICK config \in Edited(c) :
          /\ copy' = [copy EXCEPT ![c] = config]
          /\ \/ /\ op' = [op EXCEPT ![c] = "config"]
                /\ Truncate(c, config)
                /\ Meets("config", When(config.on # copy[c].on, "changes") \cup
                        When(copy[c].on # mem.on \/ copy[c].log # mem.log,
                             "outdated"))
             \/ /\ met' = met \cup When(config.on # copy[c].on, "changes")
                /\ UNCHANGED <<op, new, files, pc>>
    BY <1>1 DEF SaveConfig
  <2>2. config \in Configs
    BY DEF Edited
  <2>3. met' \in SUBSET Hazards
    <3>1. \A b \in BOOLEAN, kind \in Hazards : When(b, kind) \subseteq Hazards
      BY DEF When
    <3>2. \A kinds \in SUBSET Hazards :
            Meets("config", kinds) => met' \in SUBSET Hazards
      BY DEF Meets
    <3> HIDE DEF Hazards
    <3>3. {"changes", "outdated"} \subseteq Hazards
      BY DEF Hazards
    <3>4. /\ When(config.on # copy[c].on, "changes") \subseteq Hazards
          /\ When(copy[c].on # mem.on \/ copy[c].log # mem.log, "outdated")
               \subseteq Hazards
      BY <3>1, <3>3
    <3>5. QED
      BY <2>1, <3>2, <3>4
  <2>4. UNCHANGED <<mem, lock, filters, intent>>
    BY <1>1 DEF SaveConfig
  <2>5. CASE UNCHANGED <<op, new, files, pc>>
    BY <2>1, <2>2, <2>3, <2>4, <2>5
  <2>6. CASE op' = [op EXCEPT ![c] = "config"] /\ Truncate(c, config)
    BY <2>1, <2>2, <2>3, <2>4, <2>6 DEF Truncate, Goto
  <2>7. QED
    BY <2>1, <2>5, <2>6
<1>2. ASSUME NEW c \in Clients, ReadBack(c) PROVE TypeOK'
  BY <1>2 DEF ReadBack, Goto
<1>3. ASSUME NEW c \in Clients, PublishConfig(c) PROVE TypeOK'
  BY <1>3 DEF PublishConfig, Reply, Goto
<1>4. ASSUME NEW c \in Clients, KeepEnabled(c) PROVE TypeOK'
  BY <1>4 DEF KeepEnabled, Receive, Meets, When
<1>5. ASSUME NEW c \in Clients, SetEnabled(c) PROVE TypeOK'
  BY <1>5 DEF SetEnabled, Receive, Goto, Meets
<1>6. ASSUME NEW c \in Clients, PersistConfig(c) PROVE TypeOK'
  BY <1>6 DEF PersistConfig, Truncate, Goto
<1>7. ASSUME NEW c \in Clients, SaveLogConfig(c) PROVE TypeOK'
  BY <1>7 DEF SaveLogConfig, Receive, Truncate, Goto, Meets, When
<1>8. ASSUME NEW c \in Clients, SetLogLevel(c) PROVE TypeOK'
  BY <1>8 DEF SetLogLevel, Reply, Goto
<1>9. ASSUME NEW c \in Clients, GuiSaveLog(c) PROVE TypeOK'
  BY <1>9 DEF GuiSaveLog, Receive, Truncate, Goto, Meets
<1>10. ASSUME NEW c \in Clients, WriteTemp(c) PROVE TypeOK'
  BY <1>10 DEF WriteTemp, Overwrite, Goto
<1>11. ASSUME NEW c \in Clients, WriteFails(c) PROVE TypeOK'
  BY <1>11 DEF WriteFails, Reply, Goto, Acknowledge
<1>12. ASSUME NEW c \in Clients, RenameTemp(c) PROVE TypeOK'
  <2>1. intent' \in [on : BOOLEAN, acked : BOOLEAN]
    BY <1>12 DEF RenameTemp, Acknowledge
  <2>2. temp' \in Files \cup {Missing} /\ disk' \in Files
    BY <1>12 DEF RenameTemp
  <2>3. target' \in [Clients -> {"temp", "disk", "gone"}]
    BY <1>12 DEF RenameTemp
  <2>4. lock' \in Clients \cup {Nobody}
    BY <1>12 DEF RenameTemp, Reply, AfterSave
  <2>5. pc' \in [Clients -> {"idle", "persist", "truncated", "written", "read",
                           "publish", "level"}]
    <3>1. \E step \in {"idle", "read", "level"} : Goto(c, step)
      BY <1>12 DEF RenameTemp, Reply, AfterSave
    <3>2. QED
      BY <3>1 DEF Goto
  <2>6. op' \in [Clients -> {"none", "config", "flag", "log", "relog", "direct"}]
    BY <1>12 DEF RenameTemp, Reply, AfterSave
  <2>7. new' \in [Clients -> Configs \cup {Missing}]
    BY <1>12 DEF RenameTemp, Reply, AfterSave
  <2>8. QED
    BY <1>12, <2>1, <2>2, <2>3, <2>4, <2>5, <2>6, <2>7 DEF RenameTemp
<1>13. CASE Restart
  BY <1>13 DEF Restart
<1>14. CASE UNCHANGED vars
  BY <1>14 DEF vars
<1>15. QED
  BY <1>1, <1>2, <1>3, <1>4, <1>5, <1>6, <1>7, <1>8, <1>9, <1>10, <1>11, <1>12,
     <1>13, <1>14 DEF Next, ClientStep

-----------------------------------------------------------------------------
(* The file invariant is inductive: only a save that overlaps another      *)
(* request can touch a temporary file that is not its own.                 *)
LEMMA FilesStep ==
  TypeOK /\ FilesInv /\ [Next]_vars => FilesInv'
<1> SUFFICES ASSUME TypeOK, FilesInv, [Next]_vars
             PROVE FilesInv'
  OBVIOUS
<1> USE ConfigAssumption DEF TypeOK, FilesInv, StepFits, LockFits, Alone,
   OwnTemp, Writing, Unlocked, Free, Pending, Files, files, filters, history
<1>1. ASSUME NEW c \in Clients, SaveConfig(c) PROVE FilesInv'
  <2>1. PICK config \in Edited(c) :
          \/ /\ op' = [op EXCEPT ![c] = "config"]
             /\ Truncate(c, config)
             /\ \E kinds : Meets("config", kinds)
          \/ met \subseteq met' /\ UNCHANGED <<op, new, files, pc>>
    BY <1>1 DEF SaveConfig
  <2>2. config \in Configs
    BY DEF Edited
  <2>3. QED
    BY <1>1, <2>1, <2>2 DEF SaveConfig, Receive, Truncate, Goto, Meets
<1>2. ASSUME NEW c \in Clients, ReadBack(c) PROVE FilesInv'
  BY <1>2 DEF ReadBack, Goto
<1>3. ASSUME NEW c \in Clients, PublishConfig(c) PROVE FilesInv'
  BY <1>3 DEF PublishConfig, Reply, Goto
<1>4. ASSUME NEW c \in Clients, KeepEnabled(c) PROVE FilesInv'
  BY <1>4 DEF KeepEnabled, Receive, Meets, When
<1>5. ASSUME NEW c \in Clients, SetEnabled(c) PROVE FilesInv'
  <2>1. mem' \in Configs
    BY <1>5 DEF SetEnabled, Configs
  <2>2. QED
    BY <1>5, <2>1 DEF SetEnabled, Receive, Goto, Meets
<1>6. ASSUME NEW c \in Clients, PersistConfig(c) PROVE FilesInv'
  BY <1>6 DEF PersistConfig, Truncate, Goto
<1>7. ASSUME NEW c \in Clients, SaveLogConfig(c) PROVE FilesInv'
  <2>1. mem' \in Configs
    BY <1>7 DEF SaveLogConfig, Configs
  <2>2. QED
    BY <1>7, <2>1 DEF SaveLogConfig, Receive, Truncate, Goto, Meets, When
<1>8. ASSUME NEW c \in Clients, SetLogLevel(c) PROVE FilesInv'
  BY <1>8 DEF SetLogLevel, Reply, Goto
<1>9. ASSUME NEW c \in Clients, GuiSaveLog(c) PROVE FilesInv'
  <2>1. copy'[c] \in Configs
    BY <1>9 DEF GuiSaveLog, Configs
  <2>2. QED
    BY <1>9, <2>1 DEF GuiSaveLog, Receive, Truncate, Goto, Meets
<1>10. ASSUME NEW c \in Clients, WriteTemp(c) PROVE FilesInv'
  BY <1>10 DEF WriteTemp, Overwrite, Goto
<1>11. ASSUME NEW c \in Clients, WriteFails(c) PROVE FilesInv'
  BY <1>11 DEF WriteFails, Reply, Goto, Acknowledge
<1>12. ASSUME NEW c \in Clients, RenameTemp(c) PROVE FilesInv'
  BY <1>12 DEF RenameTemp, Reply, Goto, AfterSave, Acknowledge
<1>13. CASE Restart
  BY <1>13 DEF Restart
<1>14. CASE UNCHANGED vars
  BY <1>14 DEF vars
<1>15. QED
  BY <1>1, <1>2, <1>3, <1>4, <1>5, <1>6, <1>7, <1>8, <1>9, <1>10, <1>11, <1>12,
     <1>13, <1>14 DEF Next, ClientStep

(* Initially nothing is in progress.                                       *)
LEMMA FilesInit == Init => FilesInv
BY ConfigAssumption DEF Init, FilesInv, StepFits, LockFits, Alone, OwnTemp,
   Writing, Unlocked, Free, Configs

(* Every variable keeps its type.                                          *)
LEMMA ConfigInvariant == Spec => [](TypeOK /\ FilesInv)
BY TypeInit, FilesInit, TypeStep, FilesStep, PTL DEF Spec

(* The configuration in memory is well formed at all times: nothing a      *)
(* failed, mixed or interrupted save leaves on disk is ever loaded.        *)
THEOREM ConfigTypeCorrect == Spec => []TypeOK
BY ConfigInvariant, PTL

(* As long as no unlocked save overlaps another request, config.toml is    *)
(* whole whenever the daemon dies and whichever writes fail.               *)
THEOREM ConfigFileWhole == Spec => []ConfigWhole
<1>1. FilesInv => ConfigWhole
  BY DEF FilesInv, ConfigWhole
<1>2. QED
  BY <1>1, ConfigInvariant, PTL

-----------------------------------------------------------------------------
(* Every request that changes memory or the file ends with the two equal.  *)
LEMMA MemoryStep ==
  TypeOK /\ FilesInv /\ MemoryInv /\ [Next]_vars => MemoryInv'
<1> SUFFICES ASSUME TypeOK, FilesInv, MemoryInv, [Next]_vars
             PROVE MemoryInv'
  OBVIOUS
<1> USE ConfigAssumption DEF TypeOK, FilesInv, StepFits, LockFits, Alone,
   OwnTemp, MemoryInv, Sound, Behind, Writing, Unlocked, Free, Pending, Files,
   files, filters, history
<1>1. ASSUME NEW c \in Clients, SaveConfig(c) PROVE MemoryInv'
  BY <1>1 DEF SaveConfig, Receive, Truncate, Goto, Meets, When
<1>2. ASSUME NEW c \in Clients, ReadBack(c) PROVE MemoryInv'
  BY <1>2 DEF ReadBack, Goto
<1>3. ASSUME NEW c \in Clients, PublishConfig(c) PROVE MemoryInv'
  BY <1>3 DEF PublishConfig, Reply, Goto
<1>4. ASSUME NEW c \in Clients, KeepEnabled(c) PROVE MemoryInv'
  BY <1>4 DEF KeepEnabled, Receive, Meets, When
<1>5. ASSUME NEW c \in Clients, SetEnabled(c) PROVE MemoryInv'
  BY <1>5 DEF SetEnabled, Receive, Goto, Meets
<1>6. ASSUME NEW c \in Clients, PersistConfig(c) PROVE MemoryInv'
  BY <1>6 DEF PersistConfig, Truncate, Goto
<1>7. ASSUME NEW c \in Clients, SaveLogConfig(c) PROVE MemoryInv'
  BY <1>7 DEF SaveLogConfig, Receive, Truncate, Goto, Meets, When
<1>8. ASSUME NEW c \in Clients, SetLogLevel(c) PROVE MemoryInv'
  BY <1>8 DEF SetLogLevel, Reply, Goto
<1>9. ASSUME NEW c \in Clients, GuiSaveLog(c) PROVE MemoryInv'
  BY <1>9 DEF GuiSaveLog, Receive, Truncate, Goto, Meets
<1>10. ASSUME NEW c \in Clients, WriteTemp(c) PROVE MemoryInv'
  BY <1>10 DEF WriteTemp, Overwrite, Goto
<1>11. ASSUME NEW c \in Clients, WriteFails(c) PROVE MemoryInv'
  BY <1>11 DEF WriteFails, Reply, Goto, Acknowledge
<1>12. ASSUME NEW c \in Clients, RenameTemp(c) PROVE MemoryInv'
  BY <1>12 DEF RenameTemp, Reply, Goto, AfterSave, Acknowledge
<1>13. CASE Restart
  BY <1>13 DEF Restart
<1>14. CASE UNCHANGED vars
  BY <1>14 DEF vars
<1>15. QED
  BY <1>1, <1>2, <1>3, <1>4, <1>5, <1>6, <1>7, <1>8, <1>9, <1>10, <1>11, <1>12,
     <1>13, <1>14 DEF Next, ClientStep

(* Start, Stop and SaveLogConfig in any interleaving, and SaveConfig by    *)
(* itself, leave the daemon running by what config.toml says.              *)
THEOREM MemoryIsPersisted == Spec => []MemoryPersisted
<1>1. Init => MemoryInv
  BY ConfigAssumption DEF Init, MemoryInv
<1>2. TypeOK /\ FilesInv /\ MemoryInv /\ [Next]_vars => MemoryInv'
  BY MemoryStep
<1>3. MemoryInv => MemoryPersisted
  BY DEF MemoryInv, MemoryPersisted, Sound, Behind, Pending
<1>4. QED
  BY <1>1, <1>2, <1>3, ConfigInvariant, PTL DEF Spec

(* Types, files and memory together.                                       *)
LEMMA MemoryInvariant == Spec => [](TypeOK /\ FilesInv /\ MemoryInv)
<1>1. Init => MemoryInv
  BY ConfigAssumption DEF Init, MemoryInv
<1>2. QED
  BY <1>1, MemoryStep, ConfigInvariant, PTL DEF Spec

-----------------------------------------------------------------------------
(* Every write that is acknowledged, or follows one, has the flag in       *)
(* memory; a flag found set is in the file unless one is still saving it.  *)
LEMMA FlagStep ==
  TypeOK /\ FilesInv /\ MemoryInv /\ FlagInv /\ [Next]_vars => FlagInv'
<1> SUFFICES ASSUME TypeOK, FilesInv, MemoryInv, FlagInv, [Next]_vars
             PROVE FlagInv'
  OBVIOUS
<1> USE ConfigAssumption DEF TypeOK, FilesInv, StepFits, LockFits, Alone,
   OwnTemp, MemoryInv, Sound, Behind, FlagInv, Writing, Unlocked, Free, Pending,
   Files, Configs, files, filters, history, Hazards
<1>1. ASSUME NEW c \in Clients, SaveConfig(c) PROVE FlagInv'
  <2>1. PICK config \in Edited(c) :
          \/ /\ op' = [op EXCEPT ![c] = "config"]
             /\ Truncate(c, config)
             /\ \/ "changes" \in met' \/ "outdated" \in met'
                \/ config.on = mem.on /\ config.log = mem.log
             /\ met \subseteq met'
          \/ met \subseteq met' /\ UNCHANGED <<op, new, files, pc>>
    BY <1>1 DEF SaveConfig, Edited, Meets, When
  <2>2. UNCHANGED <<mem, disk, intent>>
    BY <1>1, <2>1 DEF SaveConfig, Truncate
  <2>3. CASE met \subseteq met' /\ UNCHANGED <<op, new, files, pc>>
    BY <2>2, <2>3
  <2>4. CASE /\ op' = [op EXCEPT ![c] = "config"] /\ Truncate(c, config)
             /\ \/ "changes" \in met' \/ "outdated" \in met'
                \/ config.on = mem.on /\ config.log = mem.log
             /\ met \subseteq met'
    <3>2. new'[c] = config /\ \A d \in Clients \ {c} :
            new'[d] = new[d] /\ op'[d] = op[d]
      BY <2>4 DEF Truncate
    <3>3. QED
      BY <2>2, <2>4, <3>2
  <2>5. QED
    BY <2>1, <2>3, <2>4
<1>2. ASSUME NEW c \in Clients, ReadBack(c) PROVE FlagInv'
  BY <1>2 DEF ReadBack, Goto
<1>3. ASSUME NEW c \in Clients, PublishConfig(c) PROVE FlagInv'
  BY <1>3 DEF PublishConfig, Reply, Goto
<1>4. ASSUME NEW c \in Clients, KeepEnabled(c) PROVE FlagInv'
  <2>1. /\ lock = Nobody /\ UNCHANGED <<mem, disk, op, new>>
        /\ intent'.on = mem.on /\ met \subseteq met'
    BY <1>4 DEF KeepEnabled, Meets
  <2>2. ASSUME Free({"overlap", "early"})', NEW d \in Clients PROVE ~Behind(d)
    <3>1. pc[d] # "idle" => op[d] \notin Unlocked /\ op[d] # "flag"
      BY <1>4, <2>2 DEF KeepEnabled, Meets, When
    <3>2. ~Writing(d) \/ op[d] \in Unlocked
      BY <2>1
    <3>3. QED
      BY <3>1, <3>2
  <2>3. Free({"overlap", "direct", "disk", "early"})' => disk = mem
    BY <2>1, <2>2
  <2>4. QED
    BY <2>1, <2>3
<1>5. ASSUME NEW c \in Clients, SetEnabled(c) PROVE FlagInv'
  <2>1. ~intent'.acked /\ met \subseteq met'
    BY <1>5 DEF SetEnabled, Meets
  <2>2. op' = [op EXCEPT ![c] = "flag"]
    BY <1>5 DEF SetEnabled
  <2>3. ASSUME Free({"overlap"})', NEW d \in Clients, op'[d] = "config"
        PROVE  FALSE
    <3>1. d # c /\ op[d] = "config"
      BY <2>2, <2>3
    <3>2. "overlap" \in met'
      BY <1>5, <3>1 DEF SetEnabled, Meets
    <3>3. QED
      BY <2>3, <3>2
  <2>4. QED
    BY <2>1, <2>3
<1>6. ASSUME NEW c \in Clients, PersistConfig(c) PROVE FlagInv'
  BY <1>6 DEF PersistConfig, Truncate, Goto
<1>7. ASSUME NEW c \in Clients, SaveLogConfig(c) PROVE FlagInv'
  BY <1>7 DEF SaveLogConfig, Receive, Truncate, Goto, Meets, When
<1>8. ASSUME NEW c \in Clients, SetLogLevel(c) PROVE FlagInv'
  BY <1>8 DEF SetLogLevel, Reply, Goto
<1>9. ASSUME NEW c \in Clients, GuiSaveLog(c) PROVE FlagInv'
  BY <1>9 DEF GuiSaveLog, Receive, Truncate, Goto, Meets
<1>10. ASSUME NEW c \in Clients, WriteTemp(c) PROVE FlagInv'
  BY <1>10 DEF WriteTemp, Overwrite, Goto
<1>11. ASSUME NEW c \in Clients, WriteFails(c) PROVE FlagInv'
  BY <1>11 DEF WriteFails, Reply, Goto, Acknowledge
<1>12. ASSUME NEW c \in Clients, RenameTemp(c) PROVE FlagInv'
  BY <1>12 DEF RenameTemp, Reply, Goto, AfterSave, Acknowledge
<1>13. CASE Restart
  BY <1>13 DEF Restart
<1>14. CASE UNCHANGED vars
  BY <1>14 DEF vars
<1>15. QED
  BY <1>1, <1>2, <1>3, <1>4, <1>5, <1>6, <1>7, <1>8, <1>9, <1>10, <1>11, <1>12,
     <1>13, <1>14 DEF Next, ClientStep

(* FlagDurable: however Start, Stop, SaveLogConfig and restarts interleave, *)
(* an acknowledged Start or Stop is on disk until the next one.            *)
THEOREM FlagIsDurable == Spec => []FlagDurable
<1>1. Init => FlagInv
  BY DEF Init, FlagInv
<1>2. TypeOK /\ FilesInv /\ FlagInv => FlagDurable
  BY DEF TypeOK, FilesInv, FlagInv, FlagDurable, Free, Configs
<1>3. QED
  BY <1>1, <1>2, FlagStep, MemoryInvariant, PTL DEF Spec

(* The level in memory and the filter part only while the request that     *)
(* changes both is under way.                                              *)
LEMMA LevelStep ==
  TypeOK /\ FilesInv /\ MemoryInv /\ LevelInv /\ [Next]_vars => LevelInv'
<1> SUFFICES ASSUME TypeOK, FilesInv, MemoryInv, LevelInv, [Next]_vars
             PROVE LevelInv'
  OBVIOUS
<1> USE ConfigAssumption DEF TypeOK, FilesInv, StepFits, LockFits, Alone,
   OwnTemp, MemoryInv, Sound, Behind, LevelInv, Writing, Unlocked, Free, Pending,
   Files, Configs, files, filters, history, Hazards
<1>1. ASSUME NEW c \in Clients, SaveConfig(c) PROVE LevelInv'
  <2>1. PICK config \in Edited(c) :
          \/ /\ op' = [op EXCEPT ![c] = "config"]
             /\ Truncate(c, config)
             /\ \/ "changes" \in met' \/ "outdated" \in met'
                \/ config.on = mem.on /\ config.log = mem.log
             /\ met \subseteq met'
          \/ met \subseteq met' /\ UNCHANGED <<op, new, files, pc>>
    BY <1>1 DEF SaveConfig, Edited, Meets, When
  <2>2. UNCHANGED <<mem, filters>> /\ c \notin Pending
    BY <1>1 DEF SaveConfig, Receive
  <2>3. CASE met \subseteq met' /\ UNCHANGED <<op, new, files, pc>>
    BY <2>2, <2>3
  <2>4. CASE /\ op' = [op EXCEPT ![c] = "config"] /\ Truncate(c, config)
             /\ \/ "changes" \in met' \/ "outdated" \in met'
                \/ config.on = mem.on /\ config.log = mem.log
             /\ met \subseteq met'
    <3>2. new'[c] = config /\ \A d \in Clients \ {c} :
            new'[d] = new[d] /\ op'[d] = op[d]
      BY <2>4 DEF Truncate
    <3>3. op[c] = "none" /\ op'[c] = "config"
      BY <2>2, <2>4
    <3>4. Free(Hazards \ {"early"})' =>
            Free(Hazards \ {"early"}) /\ config.log = mem.log
      BY <2>4
    <3>5. (\A d \in Clients : op'[d] # "relog")
            => \A d \in Clients : op[d] # "relog"
      BY <3>2, <3>3
    <3>6. \A d \in Clients : op'[d] \in {"log", "relog"} => d # c
                             /\ op[d] \in {"log", "relog"}
      BY <3>2, <3>3
    <3>7. QED
      BY <2>2, <3>2, <3>3, <3>4, <3>5, <3>6
  <2>5. QED
    BY <2>1, <2>3, <2>4
<1>2. ASSUME NEW c \in Clients, ReadBack(c) PROVE LevelInv'
  BY <1>2 DEF ReadBack, Goto
<1>3. ASSUME NEW c \in Clients, PublishConfig(c) PROVE LevelInv'
  BY <1>3 DEF PublishConfig, Reply, Goto
<1>4. ASSUME NEW c \in Clients, KeepEnabled(c) PROVE LevelInv'
  BY <1>4 DEF KeepEnabled, Receive, Meets, When
<1>5. ASSUME NEW c \in Clients, SetEnabled(c) PROVE LevelInv'
  BY <1>5 DEF SetEnabled, Receive, Goto, Meets
<1>6. ASSUME NEW c \in Clients, PersistConfig(c) PROVE LevelInv'
  BY <1>6 DEF PersistConfig, Truncate, Goto
<1>7. ASSUME NEW c \in Clients, SaveLogConfig(c) PROVE LevelInv'
  <2>1. PICK log \in Levels :
          /\ mem' = [mem EXCEPT !.log = log]
          /\ op' = [op EXCEPT ![c] = IF log = mem.log THEN "log" ELSE "relog"]
    BY <1>7 DEF SaveLogConfig
  <2>2. /\ mem'.log = log /\ level' = level /\ met \subseteq met'
        /\ new' = [new EXCEPT ![c] = mem']
    BY <1>7, <2>1 DEF SaveLogConfig, Truncate, Meets
  <2>3. ASSUME Free({"overlap", "relog"})', NEW d \in Clients \ {c}
        PROVE  op'[d] \notin {"config", "log", "relog"}
    <3>1. d \in Pending => op[d] \notin {"config", "log", "relog"}
      BY <1>7, <2>3 DEF SaveLogConfig, Meets, When
    <3>2. QED
      BY <2>1, <3>1
  <2>4. ASSUME Free(Hazards \ {"early"}), Free({"overlap", "relog"})',
               op'[c] # "relog"
        PROVE  level' = mem'.log
    <3>1. log = mem.log
      BY <2>1, <2>4
    <3>2. \A d \in Clients : op[d] # "relog"
      <4>1. op[c] = "none"
        BY <1>7 DEF SaveLogConfig, Receive
      <4>2. QED
        BY <2>1, <2>3, <2>4, <4>1
    <3>3. QED
      BY <2>2, <2>4, <3>1, <3>2
  <2>5. QED
    BY <2>2, <2>3, <2>4
<1>8. ASSUME NEW c \in Clients, SetLogLevel(c) PROVE LevelInv'
  BY <1>8 DEF SetLogLevel, Reply, Goto
<1>9. ASSUME NEW c \in Clients, GuiSaveLog(c) PROVE LevelInv'
  BY <1>9 DEF GuiSaveLog, Receive, Truncate, Goto, Meets
<1>10. ASSUME NEW c \in Clients, WriteTemp(c) PROVE LevelInv'
  BY <1>10 DEF WriteTemp, Overwrite, Goto
<1>11. ASSUME NEW c \in Clients, WriteFails(c) PROVE LevelInv'
  BY <1>11 DEF WriteFails, Reply, Goto, Acknowledge
<1>12. ASSUME NEW c \in Clients, RenameTemp(c) PROVE LevelInv'
  <2>1. UNCHANGED <<mem, level, met>> /\ pc[c] = "written"
    BY <1>12 DEF RenameTemp
  <2>2. CASE Free({"overlap"})
    <3>1. temp # Missing
      BY <2>1, <2>2
    <3>2. \/ UNCHANGED <<op, new>>
          \/ /\ op[c] \in {"flag", "direct"} /\ op' = [op EXCEPT ![c] = "none"]
             /\ new' = [new EXCEPT ![c] = Missing]
      BY <1>12, <3>1 DEF RenameTemp, AfterSave, Reply
    <3>3. QED
      BY <2>1, <3>2, SMTT(30)
  <2>3. CASE ~Free({"overlap"})
    BY <2>1, <2>3
  <2>4. QED
    BY <2>2, <2>3
<1>13. CASE Restart
  BY <1>13 DEF Restart
<1>14. CASE UNCHANGED vars
  BY <1>14 DEF vars
<1>15. QED
  BY <1>1, <1>2, <1>3, <1>4, <1>5, <1>6, <1>7, <1>8, <1>9, <1>10, <1>11, <1>12,
     <1>13, <1>14 DEF Next, ClientStep

(* QuieterInForce: when no request is in progress a configured level that  *)
(* is no more verbose than the one at the start is what is logged, after   *)
(* any crash as well.                                                      *)
THEOREM QuieterIsInForce == Spec => []QuieterInForce
<1>1. Init => LevelInv
  BY ConfigAssumption DEF Init, LevelInv
<1>2. TypeOK /\ FilesInv /\ LevelInv => QuieterInForce
  <2> SUFFICES ASSUME TypeOK, FilesInv, LevelInv, Free(Hazards \ {"early"}),
                      Pending = {}, mem.log <= layers
               PROVE  InForce = mem.log
    BY DEF QuieterInForce
  <2>1. \A c \in Clients : op[c] # "relog"
    BY DEF FilesInv, StepFits, Pending
  <2>2. level = mem.log
    BY <2>1 DEF LevelInv
  <2>3. level \in Nat /\ layers \in Nat
    BY ConfigAssumption DEF TypeOK
  <2>4. QED
    BY <2>2, <2>3 DEF InForce
<1>3. QED
  BY <1>1, <1>2, LevelStep, MemoryInvariant, PTL DEF Spec
================================================================================
