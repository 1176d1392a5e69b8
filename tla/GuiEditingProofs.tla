--------------------------- MODULE GuiEditingProofs ---------------------------
(***************************************************************************)
(* Proofs about GuiEditing: for any accounts, forms, rules, services and   *)
(* address width, and with any call refused or its reply lost.             *)
(***************************************************************************)
EXTENDS GuiEditing, TLAPS

-----------------------------------------------------------------------------
(* Types                                                                   *)

(* An edit of one part leaves a configuration.                             *)
LEMMA EditHolds ==
  ASSUME NEW parts, NEW c, Holds(parts, c),
         NEW p \in parts, NEW v \in ValuesOf(p)
  PROVE  Holds(parts, [c EXCEPT ![p] = v])
<1>1. [c EXCEPT ![p] = v] = [q \in parts |-> IF q = p THEN v ELSE c[q]]
  BY DEF Holds
<1> QED
  BY <1>1 DEF Holds

(* What the forms and the lists are filled with from a configuration.      *)
LEMMA ShownHolds ==
  ASSUME NEW c, Holds(Parts, c)
  PROVE  /\ Holds(Forms, Shown(c))
         /\ Holds(Lists, ListsOf(c))
BY DEF Holds, Shown, ListsOf, Parts

(* The lists of a configuration are rules.                                 *)
LEMMA ListsAreRules ==
  ASSUME NEW c, Holds(Parts, c)
  PROVE  /\ \A l \in Lists : c[l] \in RuleSets /\ ValuesOf(l) = RuleSets
         /\ \A f \in Forms : ValuesOf(f) = FormValues[f]
         /\ NewAuthenticator(c) \in [allowed : RuleSets, denied : RuleSets]
<1>1. \A l \in Lists : ValuesOf(l) = RuleSets
  BY DEF ValuesOf, Lists, Forms
<1>2. \A f \in Forms : ValuesOf(f) = FormValues[f]
  BY DEF ValuesOf
<1>3. \A l \in Lists : c[l] \in RuleSets
  BY <1>1 DEF Holds, Parts
<1> QED
  BY <1>1, <1>2, <1>3 DEF NewAuthenticator, Lists

(* The window opens on values of their types.                              *)
LEMMA TypeInit == Init => TypeOK
<1> SUFFICES ASSUME Init PROVE TypeOK
  OBVIOUS
<1>1. PICK v \in [Forms -> UNION {FormValues[f] : f \in Forms}] :
        /\ \A f \in Forms : v[f] \in FormValues[f] \ Unusable
        /\ config = [p \in Parts |-> IF p \in Forms THEN v[p] ELSE {}]
  BY DEF Init
<1>2. \A p \in Parts : config[p] \in ValuesOf(p)
  BY <1>1 DEF ValuesOf, RuleSets
<1>3. Holds(Parts, config)
  BY <1>1, <1>2 DEF Holds
<1> QED
  BY <1>3, ShownHolds DEF Init, TypeOK

(* What the daemon does with a configuration keeps its own types.          *)
LEMMA SaveTypes ==
  ASSUME TypeOK, NEW c, Holds(Parts, c), SaveConfig(c)
  PROVE  /\ Holds(Parts, memory') /\ Holds(Parts, disk')
         /\ served' \in {Off} \cup [allowed : RuleSets, denied : RuleSets]
         /\ outdated' \in BOOLEAN
         /\ pending' \subseteq Parts /\ moved' \subseteq Services
<1>1. NewAuthenticator(c) \in [allowed : RuleSets, denied : RuleSets]
  BY ListsAreRules
<1>2. outdated' \in BOOLEAN
  BY DEF SaveConfig, ApplyEnabledFlags
<1> QED
  BY <1>1, <1>2 DEF SaveConfig, ApplyEnabledFlags, TypeOK

(* So does a save of the copy, however the call ends.                      *)
LEMMA WriteTypes ==
  ASSUME TypeOK, NEW c, Holds(Parts, c), NEW outcome, WriteConfig(c, outcome)
  PROVE  /\ Holds(Parts, config') /\ Holds(Parts, memory')
         /\ Holds(Parts, disk')
         /\ served' \in {Off} \cup [allowed : RuleSets, denied : RuleSets]
         /\ outdated' \in BOOLEAN
         /\ pending' \subseteq Parts /\ moved' \subseteq Services
         /\ UNCHANGED userVars
<1>1. CASE Reaches(outcome)
  BY <1>1, SaveTypes DEF WriteConfig
<1>2. CASE ~Reaches(outcome)
  BY <1>2 DEF WriteConfig, Changed, TypeOK, daemonVars
<1> QED
  BY <1>1, <1>2

(* An edit of the users is a library, and publishes one.                   *)
LEMMA WriteUsersTypes ==
  ASSUME TypeOK, NEW lib \in Libraries, WriteUsers(lib)
  PROVE  TypeOK'
BY DEF TypeOK, WriteUsers, windowVars, daemonVars

(* The edits of UserManager are edits of one entry.                        *)
LEMMA UserEdits ==
  ASSUME NEW lib \in Libraries, NEW u \in Accounts, lib[u] # Absent
  PROVE  /\ \A s \in Secrets : LET new == update_password(lib, u, s) IN
              /\ new \in Libraries /\ new[u] # Absent
              /\ \A w \in Accounts \ {u} : new[w] = lib[w]
         /\ \A h \in Homes : LET new == update_home_dir(lib, u, h) IN
              /\ new \in Libraries /\ new[u] # Absent
              /\ \A w \in Accounts \ {u} : new[w] = lib[w]
         /\ \A g \in Grants : LET new == update_permissions(lib, u, g) IN
              /\ new \in Libraries
              /\ \A w \in Accounts \ {u} : new[w] = lib[w]
         /\ \A on \in BOOLEAN : LET new == set_user_enabled(lib, u, on) IN
              /\ new \in Libraries
              /\ \A w \in Accounts \ {u} : new[w] = lib[w]
BY FormsAssumption DEF Libraries, Profiles, update_password, update_home_dir,
   update_permissions, set_user_enabled

(* A library that differs from another in one entry is an edit of it.      *)
LEMMA OneEntryEdited ==
  ASSUME NEW lib \in Libraries, NEW new \in Libraries, NEW u \in Accounts,
         \A w \in Accounts \ {u} : new[w] = lib[w]
  PROVE  /\ new = [lib EXCEPT ![u] = new[u]]
         /\ new[u] \in Profiles \cup {Absent}
BY DEF Libraries

(* The row of a selected user is the row the copy has for it: the list is  *)
(* rebuilt after every edit of the copy, and edits that are not with the   *)
(* daemon were refused.                                                    *)
UsersInStep == userRows = users /\ (users # library => unsent)

(* The four handlers of the user tab write one edited entry of the copy,   *)
(* and their edit is a library.                                            *)
LEMMA UserTabEdits ==
  ASSUME TypeOK, UsersInStep, UserTab
  PROVE  \E u \in Accounts : \E x \in Profiles \cup {Absent} :
           WriteUsers([users EXCEPT ![u] = x])
<1>1. PICK u \in Accounts :
        ToggleSelectedUser(u) \/ AddUser(u) \/ EditUser(u) \/ RemoveUser(u)
  BY DEF UserTab
<1> SUFFICES \E x \in Profiles \cup {Absent} :
               WriteUsers([users EXCEPT ![u] = x])
  OBVIOUS
<1>2. users \in [Accounts -> Profiles \cup {Absent}] /\ userRows = users
  BY DEF TypeOK, Libraries, UsersInStep
<1>3. CASE ToggleSelectedUser(u)
  <2>1. users[u] \in Profiles /\ (~userRows[u].enabled) \in BOOLEAN
    BY <1>2, <1>3 DEF ToggleSelectedUser
  <2> DEFINE new == set_user_enabled(users, u, ~userRows[u].enabled)
  <2>3. new \in Libraries /\ \A w \in Accounts \ {u} : new[w] = users[w]
    BY <1>2, <1>3, <2>1, UserEdits, ZenonT(60) DEF ToggleSelectedUser, TypeOK
  <2>4. new = [users EXCEPT ![u] = new[u]] /\ new[u] \in Profiles \cup {Absent}
    BY <2>3, OneEntryEdited DEF TypeOK
  <2> QED
    BY <1>3, <2>4 DEF ToggleSelectedUser
<1>4. CASE AddUser(u)
  BY <1>4 DEF AddUser, add_user, Profiles
<1>5. CASE EditUser(u)
  <2>1. users[u] \in Profiles
    BY <1>2, <1>5 DEF EditUser
  <2>2. PICK s \in Secrets, h \in Homes, g \in Grants :
          WriteUsers(update_permissions(
            update_home_dir(update_password(users, u, s), u, h), u, g))
    BY <1>5, <2>1 DEF EditUser, Filled, Profiles
  <2> DEFINE pass == update_password(users, u, s)
             home == update_home_dir(pass, u, h)
             new == update_permissions(home, u, g)
  <2>3. /\ pass \in Libraries /\ pass[u] # Absent
        /\ \A w \in Accounts \ {u} : pass[w] = users[w]
    BY <1>5, UserEdits DEF EditUser, TypeOK
  <2>4. /\ home \in Libraries /\ home[u] # Absent
        /\ \A w \in Accounts \ {u} : home[w] = users[w]
    <3> HIDE DEF pass
    <3> QED
      BY <2>3, UserEdits
  <2>5. new \in Libraries /\ \A w \in Accounts \ {u} : new[w] = users[w]
    <3> HIDE DEF home
    <3> QED
      BY <2>4, UserEdits
  <2>6. WriteUsers(new)
    BY <2>2
  <2> HIDE DEF new
  <2>7. new = [users EXCEPT ![u] = new[u]] /\ new[u] \in Profiles \cup {Absent}
    BY <2>5, OneEntryEdited DEF TypeOK
  <2> QED
    BY <2>6, <2>7
<1>6. CASE RemoveUser(u)
  BY <1>6 DEF RemoveUser, remove_user
<1> QED
  BY <1>1, <1>3, <1>4, <1>5, <1>6

(* A save button of a form.                                                *)
LEMMA SaveFormTypes ==
  ASSUME TypeOK, NEW f \in Forms, SaveForm(f)
  PROVE  TypeOK'
<1>1. PICK outcome \in Outcomes :
        WriteConfig([config EXCEPT ![f] = widgets[f]], outcome)
  BY DEF SaveForm
<1>2. widgets[f] \in ValuesOf(f) /\ f \in Parts /\ Holds(Parts, config)
  BY DEF TypeOK, Holds, Parts
<1>3. Holds(Parts, [config EXCEPT ![f] = widgets[f]])
  BY <1>2, EditHolds
<1> QED
  BY <1>1, <1>3, WriteTypes DEF SaveForm, TypeOK, userVars

(* An edit of a list of the security tab.                                  *)
LEMMA PushTypes ==
  ASSUME TypeOK, NEW l \in Lists, NEW rules \in RuleSets,
         PushSecurityConfig(l, rules)
  PROVE  TypeOK'
<1>1. PICK outcome \in Outcomes :
        /\ WriteConfig([config EXCEPT ![l] = rules], outcome)
        /\ IF outcome = "ok"
           THEN /\ ruleRows' = [ruleRows EXCEPT ![l] = rules]
                /\ stale' = stale \ {l}
           ELSE /\ stale' = stale \cup {l}
                /\ UNCHANGED ruleRows
        /\ UNCHANGED widgets
  BY DEF PushSecurityConfig
<1>2. rules \in ValuesOf(l) /\ l \in Parts
      /\ Holds(Parts, config) /\ Holds(Lists, ruleRows)
  BY ListsAreRules DEF TypeOK, Parts
<1>3. Holds(Parts, [config EXCEPT ![l] = rules])
      /\ Holds(Lists, [ruleRows EXCEPT ![l] = rules])
  BY <1>2, EditHolds
<1>4. Holds(Lists, ruleRows') /\ stale' \subseteq Lists
  BY <1>1, <1>3 DEF TypeOK
<1> QED
  BY <1>1, <1>3, <1>4, WriteTypes DEF TypeOK, userVars

(* A flag the service tab moves is a setting of the service's form.        *)
LEMMA FlagHolds ==
  ASSUME NEW c, Holds(Parts, c), NEW svc \in Services, NEW on \in BOOLEAN
  PROVE  Holds(Parts, [c EXCEPT ![svc].on = on])
<1>1. svc \in Forms /\ svc \in Parts
  BY FormsAssumption DEF Forms, Parts
<1>2. c[svc] \in FormValues[svc]
  BY <1>1 DEF Holds, ValuesOf
<1>3. [c[svc] EXCEPT !.on = on] \in FormValues[svc]
  BY <1>2, FormsAssumption, Zenon
<1>4. [c[svc] EXCEPT !.on = on] \in ValuesOf(svc)
  BY <1>1, <1>3, Zenon DEF ValuesOf
<1>5. [c EXCEPT ![svc].on = on] = [c EXCEPT ![svc] = [c[svc] EXCEPT !.on = on]]
  OBVIOUS
<1> DEFINE flag == [c[svc] EXCEPT !.on = on]
<1>6. Holds(Parts, [c EXCEPT ![svc] = flag])
  <2>1. flag \in ValuesOf(svc)
    BY <1>4
  <2> HIDE DEF flag
  <2> QED
    BY <1>1, <2>1, EditHolds
<1> QED
  BY <1>5, <1>6, Zenon

(* The handlers of the window and the requests of the service tab, one by  *)
(* one.                                                                    *)
LEMMA TypeStep ==
  ASSUME TypeOK, UsersInStep, [Next]_vars
  PROVE  TypeOK'
<1>1. CASE NewForGui
  <2>1. Holds(Forms, Shown(disk)) /\ Holds(Lists, ListsOf(disk))
    BY ShownHolds DEF TypeOK
  <2> QED
    BY <1>1, <2>1 DEF TypeOK, NewForGui, daemonVars
<1>2. CASE UserTab
  <2>1. PICK u \in Accounts, x \in Profiles \cup {Absent} :
          WriteUsers([users EXCEPT ![u] = x])
    BY <1>2, UserTabEdits
  <2>2. [users EXCEPT ![u] = x] \in Libraries
    BY DEF TypeOK, Libraries
  <2> QED
    BY <2>1, <2>2, WriteUsersTypes
<1>3. ASSUME NEW f \in Forms, TypeIntoForm(f) PROVE TypeOK'
  <2>1. PICK v \in FormValues[f] : widgets' = [widgets EXCEPT ![f] = v]
    BY <1>3 DEF TypeIntoForm
  <2>2. v \in ValuesOf(f) /\ Holds(Forms, widgets)
    BY DEF ValuesOf, TypeOK
  <2>3. Holds(Forms, widgets')
    BY <2>1, <2>2, EditHolds
  <2> QED
    BY <1>3, <2>3 DEF TypeIntoForm, TypeOK, userVars, daemonVars
<1>4. CASE ServerTab \/ SaveLoginForm
  BY <1>4, SaveFormTypes DEF ServerTab, SaveFtpForm, SaveFtpsForm,
     SaveSftpForm, SaveLoginForm, Forms
<1>5. CASE SecurityTab
  <2>1. ASSUME NEW l \in Lists, NEW r \in Rules,
               PushSecurityConfig(l, config[l] \cup {r})
        PROVE  TypeOK'
    <3>1. config[l] \cup {r} \in RuleSets
      BY ListsAreRules DEF TypeOK, RuleSets
    <3> QED
      BY <2>1, <3>1, PushTypes
  <2>2. ASSUME NEW l \in Lists, NEW r,
               PushSecurityConfig(l, config[l] \ {r})
        PROVE  TypeOK'
    <3>1. config[l] \ {r} \in RuleSets
      BY ListsAreRules DEF TypeOK, RuleSets
    <3> QED
      BY <2>2, <3>1, PushTypes
  <2>3. ASSUME NEW l \in Lists, ClearRules(l) PROVE TypeOK'
    <3>1. {} \in RuleSets
      BY DEF RuleSets
    <3> QED
      BY <2>3, <3>1, PushTypes DEF ClearRules
  <2>4. CASE AllowAll
    <3>1. {Everyone("v4")} \in RuleSets /\ "allowed" \in Lists
      BY DEF RuleSets, Lists
    <3> QED
      BY <2>4, <3>1, PushTypes DEF AllowAll
  <2> QED
    BY <1>4, <1>5, <2>1, <2>2, <2>3, <2>4 DEF SecurityTab, AddRule, DeleteRule
<1>6. CASE SaveLogForm
  <2>1. "log" \in Forms /\ "log" \in Parts
    BY DEF Forms, Parts
  <2>2. widgets["log"] \in ValuesOf("log") /\ Holds(Parts, config)
    BY <2>1 DEF TypeOK, Holds
  <2>3. Holds(Parts, config')
    BY <1>6, <2>1, <2>2, EditHolds DEF SaveLogForm
  <2> QED
    BY <1>6, <2>3 DEF SaveLogForm, Changed, TypeOK, userVars
<1>7. ASSUME NEW svc \in Services, NEW on \in BOOLEAN, SetEnabled(svc, on),
             served' \in {Off} \cup [allowed : RuleSets, denied : RuleSets],
             outdated' \in BOOLEAN
      PROVE  TypeOK'
  <2>1. Holds(Parts, memory')
    BY <1>7, FlagHolds DEF SetEnabled, TypeOK
  <2>2. Holds(Parts, disk')
    BY <1>7, <2>1, Zenon DEF SetEnabled, TypeOK
  <2>3. moved' \subseteq Services
        /\ UNCHANGED <<userVars, windowVars, pending>>
    BY <1>7 DEF SetEnabled, TypeOK
  <2> QED
    BY <1>7, <2>1, <2>2, <2>3 DEF TypeOK, userVars, windowVars
<1>8. NewAuthenticator(memory) \in [allowed : RuleSets, denied : RuleSets]
      /\ NewAuthenticator(disk) \in [allowed : RuleSets, denied : RuleSets]
  BY ListsAreRules DEF TypeOK
<1>9. ASSUME NEW svc \in Services, StartService(svc) PROVE TypeOK'
  BY <1>7, <1>8, <1>9 DEF StartService, TypeOK
<1>10. ASSUME NEW svc \in Services, StopService(svc) PROVE TypeOK'
  BY <1>7, <1>10 DEF StopService, TypeOK
<1>11. CASE RestartFtp
  BY <1>8, <1>11 DEF RestartFtp, TypeOK, userVars, windowVars
<1>12. CASE RestartDaemon
  BY <1>8, <1>12 DEF RestartDaemon, TypeOK, userVars, windowVars
<1>13. CASE UNCHANGED vars
  BY <1>13 DEF vars, userVars, windowVars, daemonVars, TypeOK
<1> QED
  BY <1>1, <1>2, <1>3, <1>4, <1>5, <1>6, <1>9, <1>10, <1>11, <1>12, <1>13
     DEF Next, ServiceTab

-----------------------------------------------------------------------------
(* The user tab                                                            *)

(* Only the user tab and the opening of the window touch the users.        *)
LEMMA OthersLeaveUsers ==
  [Next]_vars => NewForGui \/ UserTab \/ UNCHANGED userVars
BY DEF Next, vars, TypeIntoForm, ServerTab, SaveFtpForm, SaveFtpsForm,
   SaveSftpForm, SaveLoginForm, SaveForm, SecurityTab, AddRule, DeleteRule,
   ClearRules, AllowAll, PushSecurityConfig, WriteConfig, SaveLogForm,
   ServiceTab, StartService, StopService, SetEnabled, RestartFtp,
   RestartDaemon

(* Rows and copy change together, and a save that reaches the daemon is of *)
(* the whole copy.                                                         *)
LEMMA UsersStep ==
  ASSUME TypeOK, UsersInStep, [Next]_vars
  PROVE  UsersInStep'
<1>1. CASE NewForGui
  BY <1>1 DEF NewForGui, UsersInStep
<1>2. CASE UserTab
  <2>1. PICK u \in Accounts, x \in Profiles \cup {Absent} :
          WriteUsers([users EXCEPT ![u] = x])
    BY <1>2, UserTabEdits
  <2> QED
    BY <2>1 DEF WriteUsers, UsersInStep
<1>3. CASE UNCHANGED userVars
  BY <1>3 DEF userVars, UsersInStep
<1> QED
  BY <1>1, <1>2, <1>3, OthersLeaveUsers

(* Types and the user list, together: what a button edits is the row it    *)
(* shows, so one needs the other.                                          *)
LEMMA UsersInvariant == Spec => [](TypeOK /\ UsersInStep)
<1>1. Init => TypeOK /\ UsersInStep
  BY TypeInit DEF Init, UsersInStep
<1>2. (TypeOK /\ UsersInStep) /\ [Next]_vars => (TypeOK /\ UsersInStep)'
  BY TypeStep, UsersStep
<1> QED
  BY <1>1, <1>2, PTL DEF Spec

(* Whatever is edited, refused or lost, the window's copies, its forms and *)
(* lists, and the daemon's configuration keep the shape the handlers read  *)
(* them with.                                                              *)
THEOREM GuiTypeCorrect == Spec => []TypeOK
BY UsersInvariant, PTL

(* The user list differs from the daemon's library only when the last save *)
(* of a user was refused, for any number of accounts, edits and lost       *)
(* replies.                                                                *)
THEOREM UserListIsHonest == Spec => []UserListHonest
<1>1. UsersInStep => UserListHonest
  BY DEF UsersInStep, UserListHonest
<1> QED
  BY <1>1, UsersInvariant, PTL

(* The user tab implements EditBuffer: a handler edits one entry of the    *)
(* draft and publishes the draft whole or not at all, opening the window   *)
(* reloads it, and nothing else moves either.                              *)
THEOREM UserTabRefinesBuffer == Spec => UsersPublishedWhole
<1>1. Init => UserBuffer!Init
  BY DEF Init, UserBuffer!Init, UserBuffer!Documents, Libraries
<1>2. TypeOK /\ UsersInStep /\ [Next]_vars
        => [UserBuffer!Next]_<<users, library>>
  <2> SUFFICES ASSUME TypeOK, UsersInStep, [Next]_vars
               PROVE  UserBuffer!Next \/ UNCHANGED <<users, library>>
    OBVIOUS
  <2>1. CASE NewForGui
    BY <2>1 DEF NewForGui, UserBuffer!Next, UserBuffer!Reload
  <2>2. CASE UserTab
    <3>1. PICK u \in Accounts, x \in Profiles \cup {Absent} :
            WriteUsers([users EXCEPT ![u] = x])
      BY <2>2, UserTabEdits
    <3>2. UserBuffer!Edit(u)
      BY <3>1 DEF WriteUsers, UserBuffer!Edit
    <3>3. library' = users' \/ UNCHANGED library
      BY <3>1 DEF WriteUsers
    <3> QED
      BY <3>2, <3>3 DEF UserBuffer!Next, UserBuffer!Publish, UserBuffer!Refuse
  <2>3. CASE UNCHANGED userVars
    BY <2>3 DEF userVars
  <2> QED
    BY <2>1, <2>2, <2>3, OthersLeaveUsers
<1> QED
  BY <1>1, <1>2, UsersInvariant, PTL DEF Spec, UsersPublishedWhole,
     UserBuffer!Spec

-----------------------------------------------------------------------------
(* The configuration                                                       *)

(* The rows of a list are rebuilt from the copy after every edit that was  *)
(* acknowledged.                                                           *)
RowsFollowCopy == \A l \in Lists : ruleRows[l] # config[l] => l \in stale

(* A running FTP server has the lists of the daemon's memory, unless they  *)
(* were changed while it ran.                                              *)
ServedInStep ==
  served # Off /\ ~outdated =>
    served.allowed = memory["allowed"] /\ served.denied = memory["denied"]

(* The inductive invariant of the configuration tabs.                      *)
ConfigInv == DriftExplained /\ RowsFollowCopy /\ ServedInStep

(* The user tab touches no configuration.                                  *)
LEMMA UserTabLeavesConfig ==
  UserTab => UNCHANGED <<windowVars, daemonVars, pending, moved>>
BY DEF UserTab, ToggleSelectedUser, AddUser, EditUser, RemoveUser, WriteUsers

(* A save takes every drift away; one that was refused records the parts   *)
(* it changed.  A running server is outdated as soon as its lists change.  *)
LEMMA WriteKeeps ==
  ASSUME TypeOK, ConfigInv, NEW c, Holds(Parts, c), NEW outcome,
         WriteConfig(c, outcome)
  PROVE  DriftExplained' /\ ServedInStep' /\ config' = c
<1>1. CASE Reaches(outcome)
  <2>1. DriftExplained' /\ config' = c /\ memory' = c
    BY <1>1 DEF WriteConfig, SaveConfig, DriftExplained
  <2>2. ListsOf(c) = ListsOf(memory) =>
          c["allowed"] = memory["allowed"] /\ c["denied"] = memory["denied"]
    BY DEF ListsOf, Lists
  <2>3. ServedInStep'
    BY <1>1, <2>1, <2>2 DEF WriteConfig, SaveConfig, ApplyEnabledFlags,
       ServedInStep, ConfigInv, NewAuthenticator
  <2> QED
    BY <2>1, <2>3
<1>2. CASE ~Reaches(outcome)
  BY <1>2 DEF WriteConfig, Changed, DriftExplained, ServedInStep, ConfigInv,
     daemonVars
<1> QED
  BY <1>1, <1>2

(* An edit of a list.                                                      *)
LEMMA PushKeeps ==
  ASSUME TypeOK, ConfigInv, NEW l \in Lists, NEW rules \in RuleSets,
         PushSecurityConfig(l, rules)
  PROVE  ConfigInv'
<1>1. PICK outcome \in Outcomes :
        /\ WriteConfig([config EXCEPT ![l] = rules], outcome)
        /\ IF outcome = "ok"
           THEN /\ ruleRows' = [ruleRows EXCEPT ![l] = rules]
                /\ stale' = stale \ {l}
           ELSE /\ stale' = stale \cup {l}
                /\ UNCHANGED ruleRows
  BY DEF PushSecurityConfig
<1>2. rules \in ValuesOf(l) /\ l \in Parts
      /\ Holds(Parts, config) /\ Holds(Lists, ruleRows)
  BY ListsAreRules DEF TypeOK, Parts
<1>3. DriftExplained' /\ ServedInStep' /\ config' = [config EXCEPT ![l] = rules]
  BY <1>1, <1>2, EditHolds, WriteKeeps
<1>4. \A k \in Lists : /\ config'[k] = IF k = l THEN rules ELSE config[k]
                       /\ [ruleRows EXCEPT ![l] = rules][k]
                            = IF k = l THEN rules ELSE ruleRows[k]
  BY <1>2, <1>3 DEF Holds, Parts
<1>5. RowsFollowCopy'
  BY <1>1, <1>4 DEF RowsFollowCopy, ConfigInv
<1> QED
  BY <1>3, <1>5 DEF ConfigInv

(* A save button of a form: no list is in a form.                          *)
LEMMA SaveFormKeeps ==
  ASSUME TypeOK, ConfigInv, NEW f \in Forms, SaveForm(f)
  PROVE  ConfigInv'
<1>1. PICK outcome \in Outcomes :
        WriteConfig([config EXCEPT ![f] = widgets[f]], outcome)
  BY DEF SaveForm
<1>2. widgets[f] \in ValuesOf(f) /\ f \in Parts /\ Holds(Parts, config)
  BY DEF TypeOK, Holds, Parts
<1>3. /\ DriftExplained' /\ ServedInStep'
      /\ config' = [config EXCEPT ![f] = widgets[f]]
  BY <1>1, <1>2, EditHolds, WriteKeeps
<1>4. \A k \in Lists : config'[k] = config[k]
  BY <1>2, <1>3 DEF Holds, Forms, Lists
<1> QED
  BY <1>3, <1>4 DEF RowsFollowCopy, ConfigInv, SaveForm

(* The handlers of the window and the requests of the service tab, one by  *)
(* one.                                                                    *)
LEMMA ConfigStep ==
  ASSUME TypeOK, ConfigInv, [Next]_vars
  PROVE  ConfigInv'
<1>1. CASE NewForGui
  BY <1>1 DEF NewForGui, ConfigInv, DriftExplained, RowsFollowCopy,
     ServedInStep, ListsOf, daemonVars
<1>2. CASE UserTab
  BY <1>2, UserTabLeavesConfig DEF windowVars, daemonVars, ConfigInv,
     DriftExplained, RowsFollowCopy, ServedInStep
<1>3. ASSUME NEW f \in Forms, TypeIntoForm(f) PROVE ConfigInv'
  BY <1>3 DEF TypeIntoForm, daemonVars, ConfigInv, DriftExplained,
     RowsFollowCopy, ServedInStep
<1>4. CASE ServerTab \/ SaveLoginForm
  BY <1>4, SaveFormKeeps DEF ServerTab, SaveFtpForm, SaveFtpsForm,
     SaveSftpForm, SaveLoginForm, Forms
<1>5. CASE SecurityTab
  <2>1. \A l \in Lists : config[l] \in RuleSets
    BY ListsAreRules DEF TypeOK
  <2>2. ASSUME NEW l \in Lists, AddRule(l) \/ DeleteRule(l) \/ ClearRules(l)
        PROVE  \E rules \in RuleSets : PushSecurityConfig(l, rules)
    BY <2>1, <2>2 DEF AddRule, DeleteRule, ClearRules, RuleSets
  <2>3. CASE AllowAll
    <3>1. {Everyone("v4")} \in RuleSets /\ "allowed" \in Lists
      BY DEF RuleSets, Lists
    <3> QED
      BY <2>3, <3>1, PushKeeps DEF AllowAll
  <2> QED
    BY <1>4, <1>5, <2>2, <2>3, PushKeeps DEF SecurityTab
<1>6. CASE SaveLogForm
  <2>1. \A k \in Lists : config'[k] = config[k]
    BY <1>6 DEF SaveLogForm, TypeOK, Holds, Lists, Parts
  <2>2. DriftExplained'
    BY <1>6 DEF SaveLogForm, Changed, DriftExplained, ConfigInv
  <2> QED
    BY <1>6, <2>1, <2>2 DEF SaveLogForm, ConfigInv, RowsFollowCopy,
       ServedInStep
<1>7. ASSUME NEW svc \in Services, NEW on \in BOOLEAN, SetEnabled(svc, on)
      PROVE  /\ DriftExplained' /\ RowsFollowCopy'
             /\ \A l \in Lists : memory'[l] = memory[l]
  <2>1. svc \in Forms
    BY FormsAssumption DEF Forms
  <2>2. \A p \in Parts \ {svc} : memory'[p] = memory[p]
    BY <1>7 DEF SetEnabled, TypeOK, Holds
  <2>3. \A l \in Lists : l \in Parts \ {svc}
    BY <2>1 DEF Lists, Forms, Parts
  <2>4. \A p \in Parts \ {svc} : disk'[p] = disk[p] \/ disk'[p] = memory'[p]
    BY <1>7 DEF SetEnabled
  <2>5. /\ moved' = moved \cup {svc}
        /\ UNCHANGED <<config, pending, ruleRows, stale>>
    BY <1>7 DEF SetEnabled, windowVars
  <2>6. DriftExplained'
    BY <2>2, <2>4, <2>5 DEF ConfigInv, DriftExplained
  <2> QED
    BY <2>2, <2>3, <2>5, <2>6 DEF ConfigInv, RowsFollowCopy
<1>8. ASSUME NEW svc \in Services, StartService(svc) PROVE ConfigInv'
  <2>1. DriftExplained' /\ RowsFollowCopy'
        /\ memory'["allowed"] = memory["allowed"]
        /\ memory'["denied"] = memory["denied"]
    BY <1>7, <1>8 DEF StartService, Lists
  <2>2. ServedInStep'
    BY <1>8, <2>1 DEF StartService, ConfigInv, ServedInStep, NewAuthenticator
  <2> QED
    BY <2>1, <2>2 DEF ConfigInv
<1>9. ASSUME NEW svc \in Services, StopService(svc) PROVE ConfigInv'
  BY <1>7, <1>9 DEF StopService, ConfigInv, ServedInStep, Lists
<1>10. CASE RestartFtp
  BY <1>10 DEF RestartFtp, NewAuthenticator, windowVars, ConfigInv,
     DriftExplained, RowsFollowCopy, ServedInStep
<1>11. CASE RestartDaemon
  BY <1>11 DEF RestartDaemon, NewAuthenticator, windowVars, ConfigInv,
     DriftExplained, RowsFollowCopy, ServedInStep
<1>12. CASE UNCHANGED vars
  BY <1>12 DEF vars, windowVars, daemonVars, ConfigInv, DriftExplained,
     RowsFollowCopy, ServedInStep
<1> QED
  BY <1>1, <1>2, <1>3, <1>4, <1>5, <1>6, <1>8, <1>9, <1>10, <1>11, <1>12
     DEF Next, ServiceTab

(* The invariant of the configuration.                                     *)
LEMMA ConfigInvariant == Spec => [](TypeOK /\ ConfigInv)
<1>1. Init => ConfigInv
  BY DEF Init, ConfigInv, DriftExplained, RowsFollowCopy, ServedInStep, ListsOf,
     Parts
<1>2. TypeOK /\ ConfigInv /\ [Next]_vars => ConfigInv'
  BY ConfigStep
<1> QED
  BY <1>1, <1>2, GuiTypeCorrect, PTL DEF Spec

(* A part of the copy or of config.toml that differs from the daemon's     *)
(* memory was edited and not taken since, or is a service whose flag the   *)
(* service tab moved, in every behaviour of the window, the daemon and     *)
(* its restarts.                                                           *)
THEOREM DriftIsExplained == Spec => []DriftExplained
<1>1. ConfigInv => DriftExplained
  BY DEF ConfigInv
<1> QED
  BY <1>1, ConfigInvariant, PTL

(* No list is a service.                                                   *)
LEMMA ListsShowRulesHolds == TypeOK /\ ConfigInv => ListsShowRules
<1>1. \A l \in Lists : l \in Parts /\ l \notin Services
  BY FormsAssumption DEF Lists, Parts
<1> QED
  BY <1>1 DEF TypeOK, ConfigInv, DriftExplained, RowsFollowCopy, ListsShowRules

(* The rows of a list are the daemon's rules, unless an edit of that list  *)
(* failed and none has succeeded since.                                    *)
THEOREM ListsShowTheRules == Spec => []ListsShowRules
BY ConfigInvariant, ListsShowRulesHolds, PTL

-----------------------------------------------------------------------------
(* The IP filter                                                           *)

(* Division.                                                               *)
LEMMA DivBounds ==
  ASSUME NEW a \in Nat, NEW d \in Nat \ {0}
  PROVE  a \div d \in Nat /\ d * (a \div d) <= a /\ a < d * (a \div d) + d
BY Z3

(* The quotient is the only number between whose multiples a lies.         *)
LEMMA DivUnique ==
  ASSUME NEW a \in Nat, NEW d \in Nat \ {0}, NEW q \in Nat,
         d * q <= a, a < d * q + d
  PROVE  a \div d = q
BY DivBounds, Z3

(* The addresses of one prefix end with the addresses.                     *)
LEMMA LastPrefix ==
  ASSUME NEW d \in Nat \ {0}, NEW k \in Nat, NEW q \in Nat, d * q < d * k
  PROVE  d * q + d <= d * k
<1>1. q < k
  BY Z3
<1>2. q + 1 <= k
  BY <1>1
<1>3. d * (q + 1) <= d * k
  BY <1>2, Z3
<1> QED
  BY <1>3, Z3

(* A number has a rule's prefix when it lies in the rule's interval.       *)
LEMMA PrefixIsInterval ==
  ASSUME NEW net \in Numbers, NEW bits \in 0 .. Width
  PROVE  LET low == 2^(Width - bits)
             q == net \div low
             interval == low * q .. low * q + low - 1
         IN  /\ interval \subseteq Numbers
             /\ \A k \in Numbers : k \in interval <=> k \div low = q
<1>1. net \in Nat /\ net <= 2^Width - 1 /\ 2^Width \in Nat \ {0}
  BY FormsAssumption, PowersAssumption DEF Numbers
<1> DEFINE low == 2^(Width - bits)
           q == net \div low
           interval == low * q .. low * q + low - 1
<1>2. Width - bits \in 0 .. Width
  BY <1>1, FormsAssumption
<1>3. low \in Nat \ {0} /\ 2^bits \in Nat /\ low * 2^bits = 2^Width
  BY <1>1, <1>2, PowersAssumption
<1> HIDE DEF low
<1>6. q \in Nat /\ low * q <= net /\ low * q \in Nat
  <2>1. q \in Nat /\ low * q <= net
    BY <1>1, <1>3, DivBounds
  <2> HIDE DEF q
  <2> QED
    BY <1>3, <2>1
<1>7. low * q + low <= 2^Width
  <2>1. low * q < low * 2^bits
    BY <1>1, <1>3, <1>6, SMTT(30)
  <2> QED
    BY <1>3, <1>6, <2>1, LastPrefix
<1> HIDE DEF q
<1>8. interval \subseteq Numbers
  BY <1>1, <1>3, <1>6, <1>7 DEF Numbers
<1>9. ASSUME NEW k \in Numbers
      PROVE  k \in interval <=> k \div low = q
  <2>1. k \in Nat
    BY <1>1 DEF Numbers
  <2>2. k \in interval <=> low * q <= k /\ k < low * q + low
    BY <1>3, <1>6, <2>1
  <2>3. k \div low = q => low * q <= k /\ k < low * q + low
    BY <1>3, <2>1, DivBounds
  <2>4. low * q <= k /\ k < low * q + low => k \div low = q
    BY <1>3, <1>6, <2>1, DivUnique
  <2> QED
    BY <2>2, <2>3, <2>4
<1> QED
  BY <1>8, <1>9 DEF low, q

(* What a rule matches is what it covers: the comparison of prefixes in    *)
(* ip_matches_cidr is membership in the interval the rule stands for, and  *)
(* a bare address spelled as addresses are printed is one address.         *)
LEMMA MatchIsCover ==
  ASSUME NEW r \in Rules \cup {Everyone("v4")}, r.bare => r.canonical
  PROVE  Covered(r) = {a \in Addresses : ip_matches_cidr(a, r)}
<1>1. /\ r.net \in Numbers /\ r.bits \in 0 .. Width /\ r.family \in Families
      /\ r.bare \in BOOLEAN /\ (r.bare => r.bits = Width)
  <2>1. CASE r \in Rules
    BY <2>1, FormsAssumption DEF RuleTexts
  <2>2. CASE r = Everyone("v4")
    <3>1. 0 \in Numbers /\ 0 \in 0 .. Width
      BY FormsAssumption, PowersAssumption DEF Numbers
    <3> QED
      BY <2>2, <3>1 DEF Everyone, Families
  <2> QED
    BY <2>1, <2>2
<1> DEFINE low == 2^(Width - r.bits)
           q == r.net \div low
           interval == low * q .. low * q + low - 1
<1>2. CASE \E f \in Families : r = Everyone(f)
  BY <1>2 DEF Covered, ip_matches_cidr
<1>3. CASE ~\E f \in Families : r = Everyone(f)
  <2>1. Covered(r) = [family : {r.family}, n : interval]
    BY <1>3 DEF Covered
  <2>2. /\ interval \subseteq Numbers
        /\ \A k \in Numbers : k \in interval <=> k \div low = q
    BY <1>1, PrefixIsInterval
  <2>3. CASE ~r.bare
    <3>1. \A a \in Addresses : ip_matches_cidr(a, r) <=>
            a.family = r.family /\ a.n \div low = q
      BY <1>3, <2>3 DEF ip_matches_cidr
    <3> HIDE DEF interval, low, q
    <3> QED
      BY <1>1, <2>1, <2>2, <3>1 DEF Addresses
  <2>4. CASE r.bare
    <3>1. \A a \in Addresses : ip_matches_cidr(a, r) <=>
            a = [family |-> r.family, n |-> r.net]
      BY <1>3, <2>4 DEF ip_matches_cidr
    <3>2. r.net \in Nat
      BY <1>1, PowersAssumption, FormsAssumption DEF Numbers
    <3>3. low = 1
      <4>1. Width - r.bits = 0
        BY <1>1, <2>4, FormsAssumption
      <4> QED
        BY <4>1, PowersAssumption
    <3>4. q = r.net
      BY <3>2, <3>3
    <3>5. interval = {r.net}
      <4> HIDE DEF low, q
      <4> QED
        BY <3>2, <3>3, <3>4
    <3> HIDE DEF interval
    <3>6. ASSUME NEW a
          PROVE  a \in Covered(r) <=> a \in Addresses /\ ip_matches_cidr(a, r)
      <4>1. a \in Covered(r) <=> a = [family |-> r.family, n |-> r.net]
        BY <2>1, <3>5
      <4>2. [family |-> r.family, n |-> r.net] \in Addresses
        BY <1>1 DEF Addresses
      <4> QED
        BY <3>1, <4>1, <4>2
    <3> QED
      BY <3>6
  <2> QED
    BY <1>1, <2>3, <2>4
<1> QED
  BY <1>2, <1>3

(* What the filter lets through, from what its rules cover.                *)
LEMMA FilterAdmits ==
  ASSUME NEW lists \in [allowed : RuleSets, denied : RuleSets],
         \A r \in lists.allowed \cup lists.denied : r.bare => r.canonical
  PROVE  {a \in Addresses : is_ip_allowed_for(lists, a)}
           = (IF lists.allowed = {} THEN Addresses
              ELSE AllOf(lists.allowed)) \ AllOf(lists.denied)
<1>1. lists.allowed \subseteq Rules \cup {Everyone("v4")}
      /\ lists.denied \subseteq Rules \cup {Everyone("v4")}
  BY DEF RuleSets
<1>2. ASSUME NEW rules, rules \subseteq Rules \cup {Everyone("v4")},
             \A r \in rules : r.bare => r.canonical
      PROVE  /\ AllOf(rules) \subseteq Addresses
             /\ \A a \in Addresses :
                  a \in AllOf(rules) <=> \E r \in rules : ip_matches_cidr(a, r)
  <2>1. \A r \in rules : \A a : a \in Covered(r) <=>
                           a \in Addresses /\ ip_matches_cidr(a, r)
    BY <1>2, MatchIsCover
  <2>2. \A a : a \in AllOf(rules) <=> \E r \in rules : a \in Covered(r)
    BY DEF AllOf
  <2> QED
    BY <2>1, <2>2
<1> QED
  BY <1>1, <1>2 DEF is_ip_allowed_for

(* Started after the last change of the lists, with no edit of them failed *)
(* and no bare address respelled, the FTP server admits exactly the        *)
(* addresses of both families that the rows of the security tab cover, for *)
(* any rules and any address width.                                        *)
THEOREM FilterIsAsRead == Spec => []FilterAsRead
<1>1. TypeOK /\ ConfigInv => FilterAsRead
  <2> SUFFICES ASSUME TypeOK, ConfigInv, served # Off, ~outdated,
                      (pending \cup stale) \cap Lists = {}, RowsCanonical
               PROVE  EnforcesRows
    BY DEF FilterAsRead, ListsSettled
  <2>1. \A l \in Lists : ruleRows[l] = memory[l]
    BY ListsShowRulesHolds DEF ListsShowRules
  <2>2. served.allowed = ruleRows["allowed"] /\ served.denied = ruleRows["denied"]
    BY <2>1 DEF ConfigInv, ServedInStep, Lists
  <2>3. served \in [allowed : RuleSets, denied : RuleSets]
    BY DEF TypeOK
  <2>4. \A r \in served.allowed \cup served.denied : r.bare => r.canonical
    BY <2>2 DEF RowsCanonical, Lists
  <2> QED
    BY <2>2, <2>3, <2>4, FilterAdmits DEF EnforcesRows
<1> QED
  BY <1>1, ConfigInvariant, PTL
===============================================================================
