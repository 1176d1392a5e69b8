----------------------------- MODULE MCGuiEditing -----------------------------
(* Instances of GuiEditing for TLC.                                          *)
EXTENDS GuiEditing, TLC

CONSTANTS o1, o2, bad   (* the settings of a form *)

(* Every kind of form varies: the flags of both services, a form with a     *)
(* setting that the tab refuses, and the log form.                          *)
AllForms ==
  [f \in Forms |->
     [on : IF f \in Services THEN BOOLEAN ELSE {FALSE},
      opt : CASE f = "ftps" -> {o1, o2, bad}
              [] f = "log" -> {o1, o2}
              [] OTHER -> {o1}]]

Refused == {[on |-> FALSE, opt |-> bad]}

Rule(f, number, length) ==
  [family |-> f, net |-> number, bits |-> length,
   bare |-> length = Width, canonical |-> TRUE]

Respelled(rule) == [rule EXCEPT !.canonical = FALSE]

(* The upper half of the IPv4 addresses, and one IPv6 address in each of two *)
(* spellings, of which only the first is what it prints as.                  *)
HalfAndOne ==
  LET one == Rule("v6", 2^Width - 1, Width)
  IN  {Rule("v4", 2^(Width - 1), 1), one, Respelled(one)}

(* The bounds of the exploration.  No action but the opening of the window   *)
(* touches both the users and the configuration, and none both a form and a  *)
(* list, so one of the three is edited at a time.                            *)

(* What the file, the window and the daemon's configuration differ in.       *)
Differing ==
  {p \in Parts : config[p] # memory[p] \/ disk[p] # memory[p]}
    \cup {f \in Forms : widgets[f] # memory[f]}

NoUsers ==
  ~unsent /\ \A u \in Accounts : {users[u], userRows[u], library[u]} = {Absent}

NoRules == \A l \in Lists : config[l] = {} /\ ruleRows[l] = {} /\ l \notin stale

(* These forms are in no copy but as they were at the start.                 *)
AtFirst(forms) ==
  \A f \in forms :
    {config[f], widgets[f], memory[f], disk[f]} = {[on |-> FALSE, opt |-> o1]}

UsersOnly ==
  /\ AtFirst(Forms) /\ NoRules /\ Differing = {}
  /\ pending = {} /\ moved = {} /\ served = Off

FormsOnly ==
  /\ NoUsers /\ NoRules /\ ~outdated
  /\ served \in {Off, [l \in Lists |-> {}]}
  /\ pending \subseteq Forms
  /\ Cardinality(Differing) <= 2 /\ Cardinality(pending \cup moved) <= 2

(* An address spelled otherwise is tried alone.                              *)
RespelledAlone ==
  LET all == UNION {config[l] \cup ruleRows[l] \cup memory[l] : l \in Lists}
  IN  (\E r \in all : ~r.canonical) => Cardinality(all) = 1 /\ config["allowed"] = {}

RulesOnly ==
  /\ RespelledAlone
  /\ NoUsers /\ AtFirst(Forms \ {"ftp"}) /\ moved \subseteq {"ftp"}
  /\ pending \subseteq Lists \cup {"ftp"}
  /\ \A l \in Lists : Cardinality(config[l]) <= 1
  /\ Cardinality(pending) <= 1 /\ Cardinality(stale) <= 1
  /\ Cardinality(Differing) <= 1

OneOfThree == UsersOnly \/ FormsOnly \/ RulesOnly
===============================================================================
