------------------------------ MODULE GuiPanels -------------------------------
(* The tabs of wftp-gui that show what the daemon reports: the status of the *)
(* service tab, the log tab and the file log tab.  All three follow one      *)
(* pattern: a thread asks the daemon and puts the answer in a channel, which *)
(* a timer of the GTK main loop polls until it can show it.  The service tab *)
(* has at most one question under way; the log tabs ask again whenever a     *)
(* button, the file selector or their two-second timer says so, and show     *)
(* answers in the order in which they arrive.                                *)
(*                                                                           *)
(* What a source says is a version number, raised when it changes.           *)
EXTENDS Naturals, Sequences

CONSTANTS
  LogTabs,      (* the log tab, the file log tab *)
  Files,        (* log files a log tab can select *)
  Changing,     (* bound: the sources that change *)
  MaxVersion,   (* bound: how often they do *)
  MaxLoads,     (* bound: questions of a log tab under way at once *)
  Requests      (* bound: requests of the service tab under way at once *)

VARIABLES
  version,      (* per source, what it says now; 0 while the daemon is down *)
  up,           (* the daemon answers *)
  selected,     (* per tab, the source chosen in its selector *)
  auto,         (* per tab, whether its timer asks *)
  loads,        (* per tab, the questions under way, oldest first *)
  view,         (* per tab, what it shows *)
  request,      (* per request of a button of the service tab, its stage *)
  overtaken     (* history: tabs that show an answer older than one they
                   showed before *)

vars == <<version, up, selected, auto, loads, view, request, overtaken>>

Status == "status"     (* the service tab, and what it asks for *)
Current == "current"   (* the daemon's memory buffer *)
Panels == {Status} \cup LogTabs
Sources == {Status, Current} \cup Files

ASSUME PanelsAssumption ==
  /\ Status \notin LogTabs
  /\ {Status, Current, "loading", "blank", "waiting"} \cap Files = {}
  /\ Changing \subseteq Sources
  /\ MaxVersion \in Nat \ {0} /\ MaxLoads \in Nat \ {0}

Failed == 0
Answers == [source : Sources, says : Failed .. MaxVersion]

(* What is shown, or what a thread has brought, when it is no answer.        *)
Nothing(why) == [source |-> why, says |-> Failed]
Loading == Nothing("loading")
Blank == Nothing("blank")
Waiting == Nothing("waiting")

(* late: the answer to a newer question was shown first.                     *)
Load(s) == [source |-> s, reply |-> Waiting, late |-> FALSE]

LoadType == [source : Sources, reply : Answers \cup {Waiting}, late : BOOLEAN]

(* Tabs show answers or nothing, and threads bring answers to questions      *)
(* about a source.                                                           *)
TypeOK ==
  /\ version \in [Sources -> 1 .. MaxVersion]
  /\ up \in BOOLEAN
  /\ selected \in [Panels -> Sources] /\ auto \in [Panels -> BOOLEAN]
  /\ loads \in [Panels -> Seq(LoadType)]
  /\ view \in [Panels -> Answers \cup {Loading, Blank}]
  /\ request \in [Requests -> {"none", "sent", "done"}]
  /\ overtaken \subseteq Panels

-----------------------------------------------------------------------------
(* Asking *)

(* Faulty variant: refresh_status does not look at its flag.                 *)
RefreshAlways ==
  IF Len(loads[Status]) < MaxLoads
  THEN loads' = [loads EXCEPT ![Status] = Append(@, Load(Status))]
  ELSE UNCHANGED loads

(* refresh_status: skipped while a question is under way.                    *)
RefreshStatus ==
  IF loads[Status] = <<>>
  THEN loads' = [loads EXCEPT ![Status] = <<Load(Status)>>]
  ELSE UNCHANGED loads

(* populate_log_store: the rows give way to "loading" and a thread starts;   *)
(* questions under way stay so.                                              *)
PopulateLogStore(p, s) ==
  /\ Len(loads[p]) < MaxLoads
  /\ loads' = [loads EXCEPT ![p] = Append(@, Load(s))]
  /\ view' = [view EXCEPT ![p] = Loading]

(* Every tab asks when it is built.                                          *)
Init ==
  /\ version = [s \in Sources |-> 1]
  /\ up = TRUE
  /\ selected = [p \in Panels |-> IF p = Status THEN Status ELSE Current]
  /\ auto = [p \in Panels |-> TRUE]
  /\ loads = [p \in Panels |-> <<Load(selected[p])>>]
  /\ view = [p \in Panels |-> Loading]
  /\ request = [r \in Requests |-> "none"]
  /\ overtaken = {}

StatusTimer ==
  /\ RefreshStatus
  /\ UNCHANGED <<version, up, selected, auto, view, request, overtaken>>

(* Faulty variant: the timer asks for files only.                            *)
FileTimer(p) ==
  /\ auto[p] /\ selected[p] # Current
  /\ PopulateLogStore(p, selected[p])
  /\ UNCHANGED <<version, up, selected, auto, request, overtaken>>

(* A log tab's timer asks for the memory buffer only.                        *)
LogTimer(p) ==
  /\ auto[p] /\ selected[p] = Current
  /\ PopulateLogStore(p, Current)
  /\ UNCHANGED <<version, up, selected, auto, request, overtaken>>

RefreshButton(p) ==
  /\ PopulateLogStore(p, selected[p])
  /\ UNCHANGED <<version, up, selected, auto, request, overtaken>>

(* Faulty variant: the selector asks for the file selected before.           *)
LogFileChangedLate(p) ==
  \E s \in ({Current} \cup Files) \ {selected[p]} :
    /\ selected' = [selected EXCEPT ![p] = s]
    /\ PopulateLogStore(p, selected[p])
    /\ UNCHANGED <<version, up, auto, request, overtaken>>

LogFileChanged(p) ==
  \E s \in ({Current} \cup Files) \ {selected[p]} :
    /\ selected' = [selected EXCEPT ![p] = s]
    /\ PopulateLogStore(p, s)
    /\ UNCHANGED <<version, up, auto, request, overtaken>>

(* Questions under way are not withdrawn: their answers fill the view again. *)
ClearButton(p) ==
  /\ view' = [view EXCEPT ![p] = Blank]
  /\ UNCHANGED <<version, up, selected, auto, loads, request, overtaken>>

AutoRefreshToggled(p) ==
  /\ auto' = [auto EXCEPT ![p] = ~@]
  /\ UNCHANGED <<version, up, selected, loads, view, request, overtaken>>

-----------------------------------------------------------------------------
(* The thread asks the daemon, and the poll shows what it brought            *)

Replied(load) ==
  [load EXCEPT !.reply =
     [source |-> load.source,
      says |-> IF up THEN version[load.source] ELSE Failed]]

ThreadEnds(p, i) ==
  /\ loads[p][i].reply = Waiting
  /\ loads' = [loads EXCEPT ![p][i] = Replied(@)]
  /\ UNCHANGED <<version, up, selected, auto, view, request, overtaken>>

Overtaken(load) == [load EXCEPT !.late = TRUE]

(* Question i is settled; older ones still under way are late from now on.   *)
Settled(p, i) ==
  [j \in 1 .. Len(loads[p]) - 1 |->
     IF j < i THEN Overtaken(loads[p][j]) ELSE loads[p][j + 1]]

(* The answer is shown, and the timer that polled for it ends.               *)
ShowAnswer(p, i) ==
  /\ loads[p][i].reply \in Answers
  /\ view' = [view EXCEPT ![p] = loads[p][i].reply]
  /\ overtaken' = IF loads[p][i].late THEN overtaken \cup {p}
                  ELSE overtaken \ {p}
  /\ loads' = [loads EXCEPT ![p] = Settled(p, i)]
  /\ UNCHANGED <<version, up, selected, auto, request>>

(* Faulty variant: a closed channel leaves the flag up.                      *)
PanicKeepsFlag(i) ==
  /\ loads[Status][i].reply = Waiting
  /\ loads' = [loads EXCEPT ![Status][i].reply = Nothing("lost")]
  /\ UNCHANGED <<version, up, selected, auto, view, request, overtaken>>

(* The thread panics: its end of the channel closes, and the service tab     *)
(* lowers its flag.  (A log tab takes a closed channel for an empty one and  *)
(* polls it for ever, with "loading" in the view until the next refresh.)    *)
StatusThreadPanics(i) ==
  /\ loads[Status][i].reply = Waiting
  /\ loads' = [loads EXCEPT ![Status] = Settled(Status, i)]
  /\ UNCHANGED <<version, up, selected, auto, view, request, overtaken>>

-----------------------------------------------------------------------------
(* run_service_action and run_systemctl: a thread sends the request; when it *)
(* has ended, well or not, the status is refreshed.                          *)

RunServiceAction(r) ==
  /\ request[r] = "none"
  /\ request' = [request EXCEPT ![r] = "sent"]
  /\ UNCHANGED <<version, up, selected, auto, loads, view, overtaken>>

(* The daemon acts, or refuses, or is not reached; systemctl starts or stops *)
(* the daemon.                                                               *)
ActionTakesEffect(r) ==
  /\ request[r] = "sent"
  /\ request' = [request EXCEPT ![r] = "done"]
  /\ \/ /\ up /\ Status \in Changing /\ version[Status] < MaxVersion
        /\ version' = [version EXCEPT ![Status] = @ + 1]
        /\ UNCHANGED up
     \/ up' = ~up /\ UNCHANGED version
     \/ UNCHANGED <<version, up>>
  /\ UNCHANGED <<selected, auto, loads, view, overtaken>>

ActionEnds(r) ==
  /\ request[r] = "done"
  /\ request' = [request EXCEPT ![r] = "none"]
  /\ RefreshStatus
  /\ UNCHANGED <<version, up, selected, auto, view, overtaken>>

(* Entries are logged, services stop by themselves, other clients act.       *)
SourceChanges(s) ==
  /\ s \in Changing /\ version[s] < MaxVersion
  /\ version' = [version EXCEPT ![s] = @ + 1]
  /\ UNCHANGED <<up, selected, auto, loads, view, request, overtaken>>

-----------------------------------------------------------------------------
ThreadStep(p) == \E i \in DOMAIN loads[p] : ThreadEnds(p, i)

PollStep(p) == \E i \in DOMAIN loads[p] : ShowAnswer(p, i)

LogTab(p) ==
  RefreshButton(p) \/ ClearButton(p) \/ AutoRefreshToggled(p)
    \/ LogFileChanged(p)

Next ==
  \/ StatusTimer
  \/ \E p \in LogTabs : LogTimer(p) \/ LogTab(p)
  \/ \E p \in Panels : ThreadStep(p) \/ PollStep(p)
  \/ \E i \in DOMAIN loads[Status] : StatusThreadPanics(i)
  \/ \E r \in Requests :
       RunServiceAction(r) \/ ActionTakesEffect(r) \/ ActionEnds(r)
  \/ \E s \in Sources : SourceChanges(s)

Spec == Init /\ [][Next]_vars

(* The main loop keeps running its timers, threads are scheduled, and a call *)
(* to the daemon ends.  A status thread may panic, but not every one does:   *)
(* strong fairness.  Nothing obliges a user to press a button.               *)
Fairness ==
  /\ WF_vars(StatusTimer) /\ SF_vars(ThreadStep(Status))
  /\ \A p \in LogTabs : WF_vars(LogTimer(p)) /\ WF_vars(ThreadStep(p))
  /\ \A p \in Panels : WF_vars(PollStep(p))

FairSpec == Spec /\ Fairness

-----------------------------------------------------------------------------
(* Properties *)

(* The status shown never goes back to an older one: one question at a time  *)
(* means that no answer overtakes another (refresh_status: "only one refresh *)
(* under way").                                                              *)
StatusNeverGoesBack ==
  [][view'[Status].says # Failed => view'[Status].says >= view[Status].says
    ]_<<view[Status]>>

(* Whatever buttons were pressed and whichever refresh was skipped, a status *)
(* that has settled is the one shown, for good (the comment on the periodic  *)
(* refresh: any change is synchronised).  A skipped refresh after an action  *)
(* is made up for by the timer.                                              *)
StatusCatchesUp ==
  \A v \in 1 .. MaxVersion :
    <>[](up /\ version[Status] = v)
      => <>[](view[Status] = [source |-> Status, says |-> v])

(* A settled log tab shows the source it says it shows, unless answers to    *)
(* its questions arrived out of order: then the older one has won, and stays *)
(* until the next refresh.                                                   *)
ViewOfSelection ==
  \A p \in LogTabs :
    loads[p] = <<>> /\ p \notin overtaken =>
      view[p].source \in {selected[p], Blank.source}

(* A log tab on the memory buffer with its timer running shows the newest    *)
(* entries again and again, whatever questions were under way before.        *)
LogCatchesUp ==
  \A p \in LogTabs, v \in 1 .. MaxVersion :
    <>[](up /\ auto[p] /\ selected[p] = Current /\ version[Current] = v)
      => []<>(view[p] = [source |-> Current, says |-> v])
===============================================================================
