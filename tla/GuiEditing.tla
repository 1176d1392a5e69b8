------------------------------ MODULE GuiEditing ------------------------------
(* The window of wftp-gui: AppState's copies of the user library and of the *)
(* configuration, the lists and widgets of the user, server, security and   *)
(* log tabs, and the daemon those tabs save to.                             *)
(*                                                                          *)
(* A handler runs to its end on the GTK main thread, the blocking call to   *)
(* the daemon included, so it is one action; what varies is how the call    *)
(* ends.  Every handler edits the copy BEFORE the call and keeps the edit   *)
(* when the call fails.                                                     *)
EXTENDS Naturals, FiniteSets

CONSTANTS
  Accounts, Absent,             (* user names; the entry of an unused name *)
  Secrets, Homes, Grants,       (* passwords, existing directories, rights *)
  FormValues,                   (* per form of the tabs, what it may hold *)
  Services,                     (* the services of the service tab *)
  Unusable,                     (* form values the tab refuses to save *)
  Width,                        (* bits of a client address *)
  Rules,                        (* rules an administrator types into a list *)
  Off,                          (* no FTP server is running *)
  Faults                        (* "refused", "lost": how calls may fail;  *)
                                (* "unwritten": the GUI's own write fails  *)

VARIABLES
  users,      (* AppState.user_manager *)
  userRows,   (* the user tab's list *)
  library,    (* the daemon's user library *)
  config,     (* AppState.config, by part *)
  widgets,    (* what the forms of the server, security and log tabs hold *)
  ruleRows,   (* the lists of the security tab *)
  memory,     (* the daemon's configuration *)
  disk,       (* config.toml *)
  served,     (* the IP lists of the running FTP server, or Off *)
  (* History, for the properties only. *)
  unsent,     (* the last save of the users was refused *)
  pending,    (* parts edited since the daemon last took a configuration *)
  stale,      (* lists whose last edit failed: their rows were not rebuilt *)
  moved,      (* services started or stopped since the copy was in step *)
  outdated    (* the daemon's lists changed since the FTP server started *)

userVars == <<users, userRows, library, unsent>>
windowVars == <<config, widgets, ruleRows, stale>>
daemonVars == <<memory, disk, served, outdated>>
vars == <<userVars, windowVars, daemonVars, pending, moved>>

Forms == {"ftp", "ftps", "sftp", "login", "log"}
Lists == {"allowed", "denied"}
Parts == Forms \cup Lists

(* A client's address, as its socket reports it.                            *)
Families == {"v4", "v6"}
Numbers == 0 .. 2^Width - 1
Addresses == [family : Families, n : Numbers]

(* The text of a rule: a bare address or a prefix, spelled the way Rust     *)
(* prints it or, "2001:DB8::1", otherwise.                                  *)
RuleTexts == [family : Families, net : Numbers, bits : 0 .. Width,
              bare : BOOLEAN, canonical : BOOLEAN]

(* "0.0.0.0/0" and "::/0", which every address matches.                     *)
Everyone(f) ==
  [family |-> f, net |-> 0, bits |-> 0, bare |-> FALSE, canonical |-> TRUE]

Profiles ==
  [secret : Secrets, home : Homes, rights : Grants, enabled : BOOLEAN]
Libraries == [Accounts -> Profiles \cup {Absent}]

ASSUME FormsAssumption ==
  /\ Width \in Nat
  /\ \A f \in Forms : FormValues[f] # {}
  /\ Services \subseteq {"ftp", "sftp"}
  /\ \A s \in Services : \A v \in FormValues[s] :
       \A on \in BOOLEAN : [v EXCEPT !.on = on] \in FormValues[s]
  /\ Absent \notin Profiles
  /\ Rules \subseteq RuleTexts
  /\ \A r \in Rules : r.bare => r.bits = Width
  /\ \A r \in Rules : r.bare /\ r.family = "v4" => r.canonical
  /\ Faults \subseteq {"refused", "lost", "unwritten"}

(* Powers of two, stated because the provers know no exponents: the number  *)
(* of addresses with one prefix divides the number of addresses.            *)
ASSUME PowersAssumption ==
  /\ 2^0 = 1
  /\ \A b \in 0 .. Width : 2^b \in Nat \ {0} /\ 2^(Width - b) * 2^b = 2^Width

(* What the parts of a configuration hold: the settings of a form, or a set *)
(* of rules.                                                                *)
RuleSets == SUBSET (Rules \cup {Everyone("v4")})
ValuesOf(p) == IF p \in Forms THEN FormValues[p] ELSE RuleSets
Holds(parts, c) ==
  c = [p \in parts |-> c[p]] /\ \A p \in parts : c[p] \in ValuesOf(p)

Outcomes == {"ok"} \cup (Faults \ {"unwritten"})
Reaches(outcome) == outcome \in {"ok", "lost"}

-----------------------------------------------------------------------------
(* The IP filter of the FTP authenticator                                   *)

(* ip_matches_cidr: a prefix is compared with addresses of its family, bit  *)
(* by bit; a bare address as text, with what the address prints as.         *)
ip_matches_cidr(ip, rule) ==
  \/ \E f \in Families : rule = Everyone(f)
  \/ /\ ~rule.bare /\ ip.family = rule.family
     /\ LET low == 2^(Width - rule.bits)
        IN  ip.n \div low = rule.net \div low
  \/ /\ rule.bare /\ rule.canonical
     /\ ip = [family |-> rule.family, n |-> rule.net]

is_ip_allowed_for(lists, ip) ==
  /\ \A r \in lists.denied : ~ip_matches_cidr(ip, r)
  /\ \/ lists.allowed = {}
     \/ \E r \in lists.allowed : ip_matches_cidr(ip, r)

(* WftpdAuthenticator::new copies the lists when the FTP server is built.   *)
NewAuthenticator(conf) == [allowed |-> conf.allowed, denied |-> conf.denied]

-----------------------------------------------------------------------------
(* Opening the window: both copies come from the files, and every list and  *)
(* widget from the copies.                                                  *)

Shown(conf) == [f \in Forms |-> conf[f]]
ListsOf(conf) == [l \in Lists |-> conf[l]]

Init ==
  /\ users \in Libraries
  /\ library = users /\ userRows = users
  /\ \E v \in [Forms -> UNION {FormValues[f] : f \in Forms}] :
       /\ \A f \in Forms : v[f] \in FormValues[f] \ Unusable
       /\ ~v["ftp"].on
       /\ config = [p \in Parts |-> IF p \in Forms THEN v[p] ELSE {}]
  /\ memory = config /\ disk = config
  /\ widgets = Shown(config)
  /\ ruleRows = ListsOf(config)
  /\ served = Off
  /\ unsent = FALSE /\ outdated = FALSE
  /\ pending = {} /\ stale = {} /\ moved = {}

NewForGui ==
  /\ users' = library /\ userRows' = library /\ unsent' = FALSE
  /\ config' = disk
  /\ widgets' = Shown(disk)
  /\ ruleRows' = ListsOf(disk)
  /\ stale' = {}
  /\ UNCHANGED <<library, daemonVars, pending, moved>>

-----------------------------------------------------------------------------
(* The user tab and its dialogs                                             *)

(* UserManager's edits of a library.                                        *)
add_user(lib, u, s, h, g) ==
  [lib EXCEPT ![u] =
     [secret |-> s, home |-> h, rights |-> g, enabled |-> TRUE]]
remove_user(lib, u) == [lib EXCEPT ![u] = Absent]
update_password(lib, u, s) == [lib EXCEPT ![u].secret = s]
update_home_dir(lib, u, h) == [lib EXCEPT ![u].home = h]
update_permissions(lib, u, g) == [lib EXCEPT ![u].rights = g]
set_user_enabled(lib, u, on) == [lib EXCEPT ![u].enabled = on]

(* Faulty variant: only the entries this edit changed are sent.             *)
WriteChangedUsers(edited) ==
  \E outcome \in Outcomes :
    /\ users' = edited
    /\ library' = IF Reaches(outcome)
                  THEN [u \in Accounts |-> IF edited[u] = users[u]
                                          THEN library[u] ELSE edited[u]]
                  ELSE library
    /\ userRows' = edited
    /\ unsent' = ~Reaches(outcome)
    /\ UNCHANGED <<windowVars, daemonVars, pending, moved>>

(* write_users with the whole edited copy; refresh_user_list rebuilds the   *)
(* rows from the copy however the call ended.                               *)
WriteUsers(edited) ==
  \E outcome \in Outcomes :
    /\ users' = edited
    /\ library' = IF Reaches(outcome) THEN edited ELSE library
    /\ userRows' = edited
    /\ unsent' = ~Reaches(outcome)
    /\ UNCHANGED <<windowVars, daemonVars, pending, moved>>

(* The row a button of the user tab works on.                               *)
SelectedUser(u) == userRows[u] # Absent

(* Faulty variant: the edit is made on a clone of the copy.                 *)
ToggleClone(u) ==
  /\ SelectedUser(u)
  /\ \E outcome \in Outcomes :
       /\ library' = IF Reaches(outcome)
                     THEN set_user_enabled(users, u, ~userRows[u].enabled)
                     ELSE library
       /\ unsent' = ~Reaches(outcome)
  /\ userRows' = users
  /\ UNCHANGED <<users, windowVars, daemonVars, pending, moved>>

(* The new state is the opposite of the row's.                              *)
ToggleSelectedUser(u) ==
  /\ SelectedUser(u)
  /\ users[u] # Absent
  /\ WriteUsers(set_user_enabled(users, u, ~userRows[u].enabled))

(* submit_user_dialog for a new user: a password is required, a name in use *)
(* refused, and the home must be a directory.                               *)
AddUser(u) ==
  /\ users[u] = Absent
  /\ \E s \in Secrets, h \in Homes, g \in Grants :
       WriteUsers(add_user(users, u, s, h, g))

(* load_user_dialog_values: the fields start as the copy's entry, with the  *)
(* password empty, which keeps the hash.                                    *)
Filled(u) == {users[u].secret} \cup Secrets

(* submit_user_dialog for the selected user.                                *)
EditUser(u) ==
  /\ SelectedUser(u)
  /\ users[u] # Absent
  /\ \E s \in Filled(u), h \in Homes, g \in Grants :
       WriteUsers(update_permissions(
         update_home_dir(update_password(users, u, s), u, h), u, g))

RemoveUser(u) ==
  /\ SelectedUser(u)
  /\ WriteUsers(remove_user(users, u))

-----------------------------------------------------------------------------
(* The daemon's side of a configuration                                     *)

(* apply_enabled_flags: a wanted FTP server that is off is built now, with  *)
(* the lists of now; one that runs keeps the lists it was built with.       *)
ApplyEnabledFlags(conf) ==
  /\ served' = IF ~conf["ftp"].on THEN Off
               ELSE IF served = Off THEN NewAuthenticator(conf) ELSE served
  /\ outdated' = (/\ served' # Off /\ served # Off
                  /\ outdated \/ ListsOf(conf) # ListsOf(memory))

(* Faulty variant: memory is replaced only when a flag changed.             *)
SaveConfigOnDisk(conf) ==
  /\ memory' = IF conf["ftp"].on # memory["ftp"].on THEN conf ELSE memory
  /\ disk' = conf
  /\ ApplyEnabledFlags(conf)
  /\ pending' = {}
  /\ moved' = {}

(* SaveConfig replaces file and memory by what was submitted.               *)
SaveConfig(conf) ==
  /\ memory' = conf
  /\ disk' = conf
  /\ ApplyEnabledFlags(conf)
  /\ pending' = {}
  /\ moved' = {}

Changed(edited) == {p \in Parts : edited[p] # config[p]}

(* write_config with the whole edited copy.  The reply, which the copy      *)
(* becomes, is what was written.                                            *)
WriteConfig(edited, outcome) ==
  /\ config' = edited
  /\ IF Reaches(outcome)
     THEN SaveConfig(edited)
     ELSE /\ pending' = pending \cup Changed(edited)
          /\ UNCHANGED <<daemonVars, moved>>
  /\ UNCHANGED userVars

-----------------------------------------------------------------------------
(* The forms of the server tab and the login form of the security tab: one  *)
(* save button each, which submits what the widgets hold.                   *)

TypeIntoForm(f) ==
  /\ \E v \in FormValues[f] \ {widgets[f]} :
       widgets' = [widgets EXCEPT ![f] = v]
  /\ UNCHANGED <<userVars, daemonVars, config, ruleRows, stale, pending,
                 moved>>

SaveForm(f) ==
  /\ widgets[f] \notin Unusable
  /\ \E outcome \in Outcomes :
       WriteConfig([config EXCEPT ![f] = widgets[f]], outcome)
  /\ UNCHANGED <<widgets, ruleRows, stale>>

(* Refused by the tab: anonymous access without a directory.                *)
SaveFtpForm == SaveForm("ftp")

(* Refused by the tab: forced TLS without certificate and key, or files     *)
(* that are not there.                                                      *)
SaveFtpsForm == SaveForm("ftps")

(* Refused by the tab: an empty host key path.                              *)
SaveSftpForm == SaveForm("sftp")

SaveLoginForm == SaveForm("login")

(* connect_log_config_save: the log tab writes its copy to config.toml      *)
(* itself, and goes on when that fails; the daemon is not told.             *)
SaveLogForm ==
  /\ config' = [config EXCEPT !["log"] = widgets["log"]]
  /\ \/ disk' = config'
     \/ "unwritten" \in Faults /\ UNCHANGED disk
  /\ pending' = pending \cup Changed(config')
  /\ UNCHANGED <<userVars, widgets, ruleRows, stale, memory, served, outdated,
                 moved>>

-----------------------------------------------------------------------------
(* The lists of the security tab                                            *)

(* Faulty variant: the rows are rebuilt from the copy before the edit.      *)
PushRefreshesEarly(list, rules) ==
  \E outcome \in Outcomes :
    /\ WriteConfig([config EXCEPT ![list] = rules], outcome)
    /\ ruleRows' = [ruleRows EXCEPT ![list] = config[list]]
    /\ stale' = IF outcome = "ok" THEN stale \ {list} ELSE stale \cup {list}
    /\ UNCHANGED widgets

(* push_security_config: the rows are rebuilt, from the copy, only when the *)
(* save was acknowledged, and only those of the list edited.                *)
PushSecurityConfig(list, rules) ==
  \E outcome \in Outcomes :
    /\ WriteConfig([config EXCEPT ![list] = rules], outcome)
    /\ IF outcome = "ok"
       THEN /\ ruleRows' = [ruleRows EXCEPT ![list] = rules]
            /\ stale' = stale \ {list}
       ELSE /\ stale' = stale \cup {list}
            /\ UNCHANGED ruleRows
    /\ UNCHANGED widgets

AddRule(list) ==
  \E r \in Rules : PushSecurityConfig(list, config[list] \cup {r})

DeleteRule(list) ==
  \E r \in ruleRows[list] : PushSecurityConfig(list, config[list] \ {r})

ClearRules(list) == PushSecurityConfig(list, {})

AllowAll == PushSecurityConfig("allowed", {Everyone("v4")})

-----------------------------------------------------------------------------
(* The service tab, and the daemon's own restart                            *)

(* set_enabled: a flag that changes is written with the rest of memory.     *)
SetEnabled(svc, on) ==
  /\ memory' = [memory EXCEPT ![svc].on = on]
  /\ disk' = IF memory[svc].on = on THEN disk ELSE memory'
  /\ moved' = moved \cup {svc}
  /\ UNCHANGED <<userVars, windowVars, pending>>

StartService(svc) ==
  /\ SetEnabled(svc, TRUE)
  /\ IF svc = "ftp" /\ served = Off
     THEN served' = NewAuthenticator(memory) /\ outdated' = FALSE
     ELSE UNCHANGED <<served, outdated>>

StopService(svc) ==
  /\ SetEnabled(svc, FALSE)
  /\ IF svc = "ftp" THEN served' = Off /\ outdated' = FALSE
     ELSE UNCHANGED <<served, outdated>>

(* Faulty variant: the authenticator of the stopped server is used again.   *)
RestartKeepsLists ==
  /\ served' = IF served = Off THEN NewAuthenticator(memory) ELSE served
  /\ outdated' = FALSE
  /\ UNCHANGED <<userVars, windowVars, memory, disk, pending, moved>>

RestartFtp ==
  /\ served' = NewAuthenticator(memory)
  /\ outdated' = FALSE
  /\ UNCHANGED <<userVars, windowVars, memory, disk, pending, moved>>

(* The daemon is restarted and loads config.toml.                           *)
RestartDaemon ==
  /\ memory' = disk
  /\ served' = IF disk["ftp"].on THEN NewAuthenticator(disk) ELSE Off
  /\ outdated' = FALSE
  /\ UNCHANGED <<userVars, windowVars, disk, pending, moved>>

-----------------------------------------------------------------------------
(* The refresh button rebuilds the rows from the copy, which they show      *)
(* already: no action.                                                      *)
UserTab ==
  \E u \in Accounts :
    ToggleSelectedUser(u) \/ AddUser(u) \/ EditUser(u) \/ RemoveUser(u)

ServerTab == SaveFtpForm \/ SaveFtpsForm \/ SaveSftpForm

SecurityTab ==
  \/ SaveLoginForm
  \/ \E l \in Lists : AddRule(l) \/ DeleteRule(l) \/ ClearRules(l)
  \/ AllowAll

ServiceTab == RestartFtp \/ \E s \in Services : StartService(s) \/ StopService(s)

Next ==
  \/ NewForGui
  \/ UserTab
  \/ \E f \in Forms : TypeIntoForm(f)
  \/ ServerTab
  \/ SecurityTab
  \/ SaveLogForm
  \/ ServiceTab
  \/ RestartDaemon

Spec == Init /\ [][Next]_vars

-----------------------------------------------------------------------------
(* Properties *)

(* The window's copies and the daemon's are libraries and configurations,   *)
(* the forms hold what their widgets can, and only parts of a configuration *)
(* are pending, only lists stale, only services moved.                      *)
TypeOK ==
  /\ users \in Libraries /\ userRows \in Libraries /\ library \in Libraries
  /\ Holds(Parts, config) /\ Holds(Parts, memory) /\ Holds(Parts, disk)
  /\ Holds(Forms, widgets) /\ Holds(Lists, ruleRows)
  /\ served \in {Off} \cup [allowed : RuleSets, denied : RuleSets]
  /\ unsent \in BOOLEAN /\ outdated \in BOOLEAN
  /\ pending \subseteq Parts /\ stale \subseteq Lists /\ moved \subseteq Services

(* The user list shows the daemon's library, unless the last save of a user *)
(* was refused.  One accepted save, of any user, brings the two back in     *)
(* step, the refused edits included (user_tab.rs, user_dialog.rs).          *)
UserListHonest == userRows # library => unsent

(* The user tab promises what EditBuffer says of the library.               *)
UserBuffer ==
  INSTANCE EditBuffer WITH Entries <- Accounts,
                           Values <- Profiles \cup {Absent},
                           draft <- users, published <- library

UsersPublishedWhole == UserBuffer!Spec

(* A part of the copy, or of config.toml, that differs from what the daemon *)
(* works with was edited since the daemon last took a configuration, or is  *)
(* a service whose flag the service tab moved: no other part is changed by  *)
(* the next save, and none by the daemon's next start.                      *)
DriftExplained ==
  \A p \in Parts :
    config[p] # memory[p] \/ disk[p] # memory[p] => p \in pending \cup moved

(* A list of the security tab shows the daemon's rules, unless an edit of   *)
(* that same list failed and none has succeeded since: an edit of the other *)
(* list that goes through publishes the failed one as well, and does not    *)
(* rebuild these rows.                                                      *)
ListsShowRules ==
  \A l \in Lists : ruleRows[l] # memory[l] => l \in pending \cup stale

(* The addresses a reader takes a rule for, however it is spelled.          *)
Covered(r) ==
  IF \E f \in Families : r = Everyone(f) THEN Addresses
  ELSE LET low == 2^(Width - r.bits)
           first == low * (r.net \div low)
       IN  [family : {r.family}, n : first .. first + low - 1]

AllOf(rules) == UNION {Covered(r) : r \in rules}

(* The FTP server admits the white-listed addresses (all of them, for an    *)
(* empty list) that are not black-listed, by the rows of the security tab.  *)
EnforcesRows ==
  {a \in Addresses : is_ip_allowed_for(served, a)}
    = (IF ruleRows["allowed"] = {} THEN Addresses
       ELSE AllOf(ruleRows["allowed"])) \ AllOf(ruleRows["denied"])

(* No edit of the lists failed.                                             *)
ListsSettled == (pending \cup stale) \cap Lists = {}

(* Every bare address shown is spelled the way addresses are printed.       *)
RowsCanonical ==
  \A l \in Lists : \A r \in ruleRows[l] : r.bare => r.canonical

(* What the FTP server enforces is what the administrator sees: started     *)
(* after the last change of the lists, with no edit of them failed and no   *)
(* address respelled, it decides every address of both families as shown.   *)
FilterAsRead ==
  served # Off /\ ~outdated /\ ListsSettled /\ RowsCanonical => EnforcesRows
===============================================================================
