---------------------------- MODULE GuiPanelsProofs ----------------------------
(****************************************************************************)
(* Proofs about GuiPanels: for any number of log tabs, log files, questions *)
(* under way and requests.                                                  *)
(****************************************************************************)
EXTENDS GuiPanels, TLAPS

(* The question under way of the service tab, if there is one, brings a     *)
(* status that is not older than the one shown.                             *)
StatusInv ==
  /\ Len(loads[Status]) <= 1
  /\ view[Status].says <= version[Status]
  /\ \A i \in DOMAIN loads[Status] :
       /\ loads[Status][i].source = Status
       /\ loads[Status][i].reply.says <= version[Status]
       /\ loads[Status][i].reply.says # Failed =>
            loads[Status][i].reply.says >= view[Status].says

(* Answers are about what was asked for.                                    *)
RepliesMatch ==
  \A p \in LogTabs : \A i \in DOMAIN loads[p] :
    loads[p][i].reply \in Answers =>
      loads[p][i].reply.source = loads[p][i].source

(* While a question under way is not overtaken, the newest one is not, and  *)
(* asks for what is selected now; from then on the view shows the selection *)
(* or a late answer.                                                        *)
NewestWins ==
  \A p \in LogTabs :
    \/ /\ \A i \in DOMAIN loads[p] : loads[p][i].late
       /\ p \in overtaken \/ view[p].source \in {selected[p], Blank.source}
    \/ /\ loads[p] # <<>>
       /\ ~loads[p][Len(loads[p])].late
       /\ loads[p][Len(loads[p])].source = selected[p]

(* The inductive invariant of the file tabs.                                *)
TabInv == RepliesMatch /\ NewestWins

--------------------------------------------------------------------------------
(* Questions                                                                *)

(* A question and what becomes of it.                                       *)
LEMMA LoadSteps ==
  ASSUME TypeOK, NEW s \in Sources
  PROVE  /\ Load(s) \in LoadType
         /\ Load(s).source = s /\ Load(s).reply = Waiting
         /\ ~Load(s).late
         /\ \A load \in LoadType :
              /\ Replied(load) \in LoadType
              /\ Replied(load).source = load.source
              /\ Replied(load).reply \in Answers
              /\ Replied(load).reply.source = load.source
              /\ Replied(load).reply.says \in
                   {Failed, version[load.source]}
              /\ (Replied(load).late <=> load.late)
              /\ Overtaken(load) \in LoadType
              /\ Overtaken(load).source = load.source
              /\ Overtaken(load).reply = load.reply
              /\ Overtaken(load).late
<1>1. Load(s) \in LoadType /\ Load(s).source = s /\ Load(s).reply = Waiting
      /\ ~Load(s).late
  BY DEF Load, LoadType, Waiting
<1>2. ASSUME NEW load \in LoadType
      PROVE  /\ Overtaken(load) \in LoadType
             /\ Overtaken(load).source = load.source
             /\ Overtaken(load).reply = load.reply
             /\ Overtaken(load).late
  BY DEF Overtaken, LoadType
<1>3. ASSUME NEW load \in LoadType
      PROVE  /\ Replied(load) \in LoadType
             /\ Replied(load).source = load.source
             /\ Replied(load).reply \in Answers
             /\ Replied(load).reply.source = load.source
             /\ Replied(load).reply.says \in {Failed, version[load.source]}
             /\ (Replied(load).late <=> load.late)
  <2> DEFINE n == IF up THEN version[load.source] ELSE Failed
             r == [source |-> load.source, says |-> n]
  <2>1. load.source \in Sources
    BY DEF LoadType
  <2>2. n \in Failed .. MaxVersion
    BY <2>1, PanelsAssumption DEF TypeOK, Failed
  <2>3. r \in Answers /\ r.source = load.source
        /\ r.says \in {Failed, version[load.source]}
    BY <2>1, <2>2 DEF Answers
  <2>4. Replied(load) = [load EXCEPT !.reply = r]
    BY DEF Replied
  <2> HIDE DEF r
  <2> QED
    BY <2>3, <2>4 DEF LoadType
<1> QED
  BY <1>1, <1>2, <1>3

(* What is left when a question is settled.                                 *)
LEMMA SettledSteps ==
  ASSUME TypeOK, NEW p \in Panels, NEW i \in DOMAIN loads[p]
  PROVE  /\ Settled(p, i) \in Seq(LoadType)
         /\ Len(Settled(p, i)) = Len(loads[p]) - 1
         /\ \A j \in DOMAIN Settled(p, i) :
              /\ j \in 1 .. Len(loads[p]) - 1
              /\ Settled(p, i)[j] = IF j < i THEN Overtaken(loads[p][j])
                                    ELSE loads[p][j + 1]
<1> DEFINE n == Len(loads[p]) - 1
           e(j) == IF j < i THEN Overtaken(loads[p][j]) ELSE loads[p][j + 1]
<1>1. loads[p] \in Seq(LoadType) /\ n \in Nat /\ i \in 1 .. n + 1
  BY DEF TypeOK
<1>2. \A j \in 1 .. n : e(j) \in LoadType
  <2> TAKE j \in 1 .. n
  <2>1. loads[p][j] \in LoadType /\ loads[p][j + 1] \in LoadType
    BY <1>1
  <2> QED
    BY <2>1 DEF Overtaken, LoadType
<1>3. Settled(p, i) = [j \in 1 .. n |-> e(j)]
  BY DEF Settled
<1> HIDE DEF n, e
<1>4. Settled(p, i) \in Seq(LoadType) /\ Len(Settled(p, i)) = n
      /\ DOMAIN Settled(p, i) = 1 .. n
  BY <1>1, <1>2, <1>3
<1>5. \A j \in 1 .. n : Settled(p, i)[j] = e(j)
  BY <1>3
<1> QED
  BY <1>4, <1>5 DEF n, e

--------------------------------------------------------------------------------
(* Types                                                                    *)

(* A question more is under way.                                            *)
LEMMA AskTypes ==
  ASSUME TypeOK, NEW p \in LogTabs, NEW s \in Sources, PopulateLogStore(p, s)
  PROVE  /\ loads' \in [Panels -> Seq(LoadType)]
         /\ view' \in [Panels -> Answers \cup {Loading, Blank}]
<1>1. p \in Panels /\ loads[p] \in Seq(LoadType) /\ Load(s) \in LoadType
  BY LoadSteps DEF TypeOK, Panels
<1>2. Append(loads[p], Load(s)) \in Seq(LoadType)
  BY <1>1
<1> QED
  BY <1>1, <1>2 DEF TypeOK, PopulateLogStore

(* The status is asked for, or is already.                                  *)
LEMMA RefreshTypes ==
  ASSUME TypeOK, RefreshStatus
  PROVE  loads' \in [Panels -> Seq(LoadType)]
<1>1. Status \in Panels /\ Load(Status) \in LoadType
  BY LoadSteps DEF Panels, Sources
<1>2. <<Load(Status)>> \in Seq(LoadType)
  BY <1>1
<1> QED
  BY <1>1, <1>2 DEF TypeOK, RefreshStatus

(* Every step keeps the types.                                              *)
LEMMA TypeStep ==
  ASSUME TypeOK, [Next]_vars
  PROVE  TypeOK'
<1> USE DEF TypeOK
<1>1. CASE StatusTimer
  BY <1>1, RefreshTypes DEF StatusTimer
<1>2. ASSUME NEW p \in LogTabs, LogTimer(p) \/ LogTab(p)
      PROVE  TypeOK'
  <2>1. p \in Panels /\ Current \in Sources /\ Files \subseteq Sources
        /\ selected[p] \in Sources
    BY DEF Panels, Sources
  <2>2. CASE LogTimer(p)
    BY <2>1, <2>2, AskTypes DEF LogTimer
  <2>3. CASE RefreshButton(p)
    BY <2>1, <2>3, AskTypes DEF RefreshButton
  <2>4. CASE ClearButton(p)
    BY <2>1, <2>4 DEF ClearButton
  <2>5. CASE AutoRefreshToggled(p)
    BY <2>1, <2>5 DEF AutoRefreshToggled
  <2>6. CASE LogFileChanged(p)
    BY <2>1, <2>6, AskTypes DEF LogFileChanged
  <2> QED
    BY <1>2, <2>2, <2>3, <2>4, <2>5, <2>6 DEF LogTab
<1>3. ASSUME NEW p \in Panels, NEW i \in DOMAIN loads[p], ThreadEnds(p, i)
      PROVE  TypeOK'
  <2>1. loads[p] \in Seq(LoadType) /\ loads[p][i] \in LoadType
    OBVIOUS
  <2>2. Replied(loads[p][i]) \in LoadType
    BY <2>1, LoadSteps DEF Sources
  <2>3. [loads[p] EXCEPT ![i] = Replied(loads[p][i])] \in Seq(LoadType)
    BY <2>1, <2>2
  <2>4. loads' = [loads EXCEPT ![p] = [loads[p] EXCEPT ![i] =
                                         Replied(loads[p][i])]]
    BY <1>3 DEF ThreadEnds
  <2> QED
    BY <1>3, <2>3, <2>4 DEF ThreadEnds
<1>4. ASSUME NEW p \in Panels, NEW i \in DOMAIN loads[p], ShowAnswer(p, i)
      PROVE  TypeOK'
  <2>1. Settled(p, i) \in Seq(LoadType)
    BY SettledSteps
  <2> QED
    BY <1>4, <2>1 DEF ShowAnswer
<1>5. ASSUME NEW i \in DOMAIN loads[Status], StatusThreadPanics(i)
      PROVE  TypeOK'
  <2>1. Status \in Panels
    BY DEF Panels
  <2>2. Settled(Status, i) \in Seq(LoadType)
    BY <2>1, SettledSteps
  <2> QED
    BY <1>5, <2>1, <2>2 DEF StatusThreadPanics
<1>6. ASSUME NEW r \in Requests,
             RunServiceAction(r) \/ ActionTakesEffect(r) \/ ActionEnds(r)
      PROVE  TypeOK'
  <2>1. CASE RunServiceAction(r)
    BY <2>1 DEF RunServiceAction
  <2>2. CASE ActionTakesEffect(r)
    <3>1. version' \in [Sources -> 1 .. MaxVersion]
      BY <2>2, PanelsAssumption DEF ActionTakesEffect, Sources
    <3>2. up' \in BOOLEAN
      BY <2>2, Zenon DEF ActionTakesEffect
    <3>3. UNCHANGED <<selected, auto, loads, view, overtaken>>
          /\ request' \in [Requests -> {"none", "sent", "done"}]
      BY <2>2 DEF ActionTakesEffect
    <3> QED
      BY <3>1, <3>2, <3>3
  <2>3. CASE ActionEnds(r)
    BY <2>3, RefreshTypes DEF ActionEnds
  <2> QED
    BY <1>6, <2>1, <2>2, <2>3
<1>7. ASSUME NEW s \in Sources, SourceChanges(s)
      PROVE  TypeOK'
  BY <1>7, PanelsAssumption DEF SourceChanges
<1>8. CASE UNCHANGED vars
  BY <1>8 DEF vars
<1> QED
  BY <1>1, <1>2, <1>3, <1>4, <1>5, <1>6, <1>7, <1>8
  DEF Next, ThreadStep, PollStep

(* The types hold when the tabs are built.                                  *)
LEMMA TypeInit == Init => TypeOK
<1> SUFFICES ASSUME Init PROVE TypeOK
  OBVIOUS
<1> USE DEF Init
<1>1. selected \in [Panels -> Sources]
  BY DEF Sources
<1>2. version \in [Sources -> 1 .. MaxVersion]
  BY PanelsAssumption
<1>3. \A s \in Sources : Load(s) \in LoadType
  BY DEF Load, LoadType, Waiting
<1>4. \A p \in Panels : <<Load(selected[p])>> \in Seq(LoadType)
  BY <1>1, <1>3
<1> QED
  BY <1>1, <1>2, <1>4 DEF TypeOK

(* Tabs show answers or nothing, and threads bring answers to questions     *)
(* about a source, in every state.                                          *)
THEOREM PanelsTypeCorrect == Spec => []TypeOK
BY TypeInit, TypeStep, PTL DEF Spec

--------------------------------------------------------------------------------
(* The service tab                                                          *)

(* Versions are numbers.                                                    *)
LEMMA StatusNumbers ==
  ASSUME TypeOK
  PROVE  /\ Status \in Panels /\ Status \in Sources
         /\ version[Status] \in Nat /\ view[Status].says \in Nat
         /\ loads[Status] \in Seq(LoadType)
         /\ \A i \in DOMAIN loads[Status] :
              loads[Status][i].reply.says \in Nat
<1>1. Status \in Panels /\ Status \in Sources
  BY DEF Panels, Sources
<1>2. version[Status] \in Nat
  BY <1>1 DEF TypeOK
<1>3. /\ Loading.says \in Nat /\ Blank.says \in Nat /\ Waiting.says \in Nat
      /\ \A a \in Answers : a.says \in Nat
  BY PanelsAssumption DEF Answers, Loading, Blank, Waiting, Nothing, Failed
<1>4. view[Status].says \in Nat
  BY <1>1, <1>3 DEF TypeOK
<1>5. loads[Status] \in Seq(LoadType)
  BY <1>1 DEF TypeOK
<1>6. \A load \in LoadType : load.reply.says \in Nat
  BY <1>3 DEF LoadType
<1>7. \A i \in DOMAIN loads[Status] : loads[Status][i] \in LoadType
  BY <1>5
<1> QED
  BY <1>1, <1>2, <1>4, <1>5, <1>6, <1>7

(* Nothing of the service tab changes but, perhaps, that the daemon says    *)
(* something newer.                                                         *)
LEMMA StatusSame ==
  ASSUME StatusInv, TypeOK, TypeOK', loads'[Status] = loads[Status],
         view'[Status] = view[Status], version'[Status] >= version[Status]
  PROVE  StatusInv'
<1>1. version'[Status] \in Nat
  BY DEF TypeOK, Sources
<1> QED
  BY <1>1, StatusNumbers DEF StatusInv

(* refresh_status asks only when no question is under way.                  *)
LEMMA StatusAsked ==
  ASSUME StatusInv, TypeOK, RefreshStatus, UNCHANGED <<view, version>>
  PROVE  StatusInv'
<1>1. Status \in Panels /\ Status \in Sources
  BY DEF Panels, Sources
<1>2. CASE loads[Status] = <<>>
  <2>1. loads'[Status] = <<Load(Status)>>
    BY <1>1, <1>2 DEF RefreshStatus, TypeOK
  <2>2. Load(Status).source = Status /\ Load(Status).reply.says = Failed
    BY DEF Load, Waiting, Nothing
  <2>3. view[Status].says <= version[Status] /\ 0 <= version[Status]
    BY <1>1, PanelsAssumption DEF StatusInv, TypeOK
  <2> QED
    BY <1>1, <2>1, <2>2, <2>3 DEF StatusInv, Failed
<1>3. CASE loads[Status] # <<>>
  BY <1>3 DEF RefreshStatus, StatusInv
<1> QED
  BY <1>2, <1>3

(* The only question of the service tab is settled.                         *)
LEMMA StatusSettled ==
  ASSUME StatusInv, TypeOK, NEW i \in DOMAIN loads[Status],
         loads' = [loads EXCEPT ![Status] = Settled(Status, i)]
  PROVE  i = 1 /\ Len(loads'[Status]) = 0 /\ DOMAIN loads'[Status] = {}
<1>1. Status \in Panels
  BY DEF Panels
<1>2. loads'[Status] = Settled(Status, i)
  BY <1>1 DEF TypeOK
<1>3. /\ Settled(Status, i) \in Seq(LoadType)
      /\ Len(Settled(Status, i)) = Len(loads[Status]) - 1
  BY <1>1, SettledSteps
<1>4. Len(loads[Status]) = 1 /\ i = 1
  <2>1. loads[Status] \in Seq(LoadType) /\ Len(loads[Status]) <= 1
    BY StatusNumbers DEF StatusInv
  <2>2. i \in 1 .. Len(loads[Status]) /\ Len(loads[Status]) \in Nat
    BY <2>1
  <2>3. \A m \in Nat : \A k \in 1 .. m : m <= 1 => m = 1 /\ k = 1
    OBVIOUS
  <2> QED
    BY <2>1, <2>2, <2>3, Zenon
<1> QED
  BY <1>2, <1>3, <1>4

(* Every step keeps it, and none shows a status older than the one shown.   *)
LEMMA StatusStep ==
  ASSUME TypeOK, TypeOK', StatusInv, [Next]_vars
  PROVE  /\ StatusInv'
         /\ view'[Status].says # Failed =>
              view'[Status].says >= view[Status].says
<1> DEFINE Newer == view'[Status].says # Failed =>
                      view'[Status].says >= view[Status].says
<1>0. /\ Status \in Panels /\ Status \in Sources
      /\ version[Status] \in Nat /\ view[Status].says \in Nat
  BY StatusNumbers
<1>1. CASE StatusTimer
  BY <1>0, <1>1, StatusAsked DEF StatusTimer
<1>2. ASSUME NEW p \in LogTabs, LogTimer(p) \/ LogTab(p)
      PROVE  StatusInv' /\ Newer
  <2>1. p # Status
    BY PanelsAssumption
  <2>2. loads'[Status] = loads[Status] /\ view'[Status] = view[Status]
        /\ version' = version
    BY <1>0, <1>2, <2>1
    DEF LogTimer, LogTab, RefreshButton, ClearButton, AutoRefreshToggled,
        LogFileChanged, PopulateLogStore, TypeOK
  <2> QED
    BY <1>0, <2>2, StatusSame
<1>3. ASSUME NEW p \in Panels, NEW i \in DOMAIN loads[p], ThreadEnds(p, i)
      PROVE  StatusInv' /\ Newer
  <2>1. CASE p # Status
    <3>1. loads'[Status] = loads[Status] /\ UNCHANGED <<view, version>>
      BY <1>0, <1>3, <2>1 DEF ThreadEnds, TypeOK
    <3> QED
      BY <1>0, <3>1, StatusSame
  <2>2. CASE p = Status
    <3>1. loads[Status] \in Seq(LoadType) /\ loads[Status][i] \in LoadType
      BY <1>0, <2>2 DEF TypeOK
    <3>2. loads[Status][i].source = Status
      BY <2>2 DEF StatusInv
    <3>3. loads'[Status] = [loads[Status] EXCEPT ![i] =
                              Replied(loads[Status][i])]
      BY <1>0, <1>3, <2>2 DEF ThreadEnds, TypeOK
    <3>4. /\ Replied(loads[Status][i]).source = Status
          /\ Replied(loads[Status][i]).reply.says \in
               {Failed, version[Status]}
      BY <1>0, <3>1, <3>2, LoadSteps
    <3>5. UNCHANGED <<view, version>>
      BY <1>3 DEF ThreadEnds
    <3>6. /\ Len(loads'[Status]) = Len(loads[Status])
          /\ DOMAIN loads'[Status] = DOMAIN loads[Status]
      BY <3>1, <3>3
    <3>7. \A j \in DOMAIN loads[Status] :
            loads'[Status][j] = IF j = i THEN Replied(loads[Status][i])
                                ELSE loads[Status][j]
      BY <3>1, <3>3
    <3> QED
      BY <1>0, <2>2, <3>4, <3>5, <3>6, <3>7 DEF StatusInv, Failed
  <2> QED
    BY <2>1, <2>2
<1>4. ASSUME NEW p \in Panels, NEW i \in DOMAIN loads[p], ShowAnswer(p, i)
      PROVE  StatusInv' /\ Newer
  <2>1. CASE p # Status
    <3>1. loads'[Status] = loads[Status] /\ view'[Status] = view[Status]
          /\ version' = version
      BY <1>0, <1>4, <2>1 DEF ShowAnswer, TypeOK
    <3> QED
      BY <1>0, <3>1, StatusSame
  <2>2. CASE p = Status
    <3>1. DOMAIN loads'[Status] = {} /\ Len(loads'[Status]) = 0
      BY <1>4, <2>2, StatusSettled DEF ShowAnswer
    <3>2. view'[Status] = loads[Status][i].reply /\ version' = version
      BY <1>0, <1>4, <2>2 DEF ShowAnswer, TypeOK
    <3> QED
      BY <1>0, <2>2, <3>1, <3>2 DEF StatusInv
  <2> QED
    BY <2>1, <2>2
<1>5. ASSUME NEW i \in DOMAIN loads[Status], StatusThreadPanics(i)
      PROVE  StatusInv' /\ Newer
  <2>1. DOMAIN loads'[Status] = {} /\ Len(loads'[Status]) = 0
        /\ UNCHANGED <<view, version>>
    BY <1>5, StatusSettled DEF StatusThreadPanics
  <2> QED
    BY <1>0, <2>1 DEF StatusInv
<1>6. ASSUME NEW r \in Requests,
             RunServiceAction(r) \/ ActionTakesEffect(r) \/ ActionEnds(r)
      PROVE  StatusInv' /\ Newer
  <2>1. CASE RunServiceAction(r)
    BY <1>0, <2>1, StatusSame DEF RunServiceAction
  <2>2. CASE ActionTakesEffect(r)
    <3>1. version'[Status] >= version[Status] /\ UNCHANGED <<loads, view>>
      BY <1>0, <2>2 DEF ActionTakesEffect, TypeOK
    <3> QED
      BY <1>0, <3>1, StatusSame
  <2>3. CASE ActionEnds(r)
    BY <1>0, <2>3, StatusAsked DEF ActionEnds
  <2> QED
    BY <1>6, <2>1, <2>2, <2>3
<1>7. ASSUME NEW s \in Sources, SourceChanges(s)
      PROVE  StatusInv' /\ Newer
  <2>1. version'[Status] >= version[Status] /\ UNCHANGED <<loads, view>>
    BY <1>0, <1>7 DEF SourceChanges, TypeOK
  <2> QED
    BY <1>0, <2>1, StatusSame
<1>8. CASE UNCHANGED vars
  BY <1>0, <1>8, StatusSame DEF vars
<1> QED
  BY <1>1, <1>2, <1>3, <1>4, <1>5, <1>6, <1>7, <1>8
  DEF Next, ThreadStep, PollStep

(* It holds when the service tab is built.                                  *)
LEMMA StatusInit == Init => StatusInv
<1> SUFFICES ASSUME Init PROVE StatusInv
  OBVIOUS
<1>1. Status \in Panels /\ Status \in Sources
  BY DEF Panels, Sources
<1>2. loads[Status] = <<Load(Status)>> /\ view[Status] = Loading
      /\ version[Status] = 1
  BY <1>1 DEF Init
<1>3. Load(Status).source = Status /\ Load(Status).reply.says = Failed
      /\ Loading.says = Failed
  BY DEF Load, Waiting, Loading, Nothing
<1> QED
  BY <1>2, <1>3 DEF StatusInv, Failed

(* StatusNeverGoesBack: no step of any tab, thread or request replaces the  *)
(* status the service tab shows by an older one.                            *)
THEOREM StatusMovesForward == Spec => StatusNeverGoesBack
<1> DEFINE Newer == view'[Status].says # Failed =>
                      view'[Status].says >= view[Status].says
<1>1. Init => TypeOK /\ StatusInv
  BY TypeInit, StatusInit
<1>2. TypeOK /\ StatusInv /\ [Next]_vars => TypeOK' /\ StatusInv'
  BY TypeStep, StatusStep
<1>3. TypeOK /\ StatusInv /\ [Next]_vars => [Newer]_<<view[Status]>>
  BY TypeStep, StatusStep
<1> QED
  BY <1>1, <1>2, <1>3, PTL DEF Spec, StatusNeverGoesBack

--------------------------------------------------------------------------------
(* The log tabs                                                             *)

(* What the two parts of TabInv say of one tab.                             *)
TabMatches(p) ==
  \A i \in DOMAIN loads[p] :
    loads[p][i].reply \in Answers =>
      loads[p][i].reply.source = loads[p][i].source

(* Either every load is late, or the newest one is of the selection.        *)
TabNewest(p) ==
  \/ /\ \A i \in DOMAIN loads[p] : loads[p][i].late
     /\ p \in overtaken \/ view[p].source \in {selected[p], Blank.source}
  \/ /\ loads[p] # <<>>
     /\ ~loads[p][Len(loads[p])].late
     /\ loads[p][Len(loads[p])].source = selected[p]

(* A thread that has brought nothing yet has brought no answer.             *)
LEMMA WaitingIsNoAnswer == Waiting \notin Answers
<1>1. "waiting" \notin Sources
  BY PanelsAssumption DEF Sources, Status, Current
<1> QED
  BY <1>1 DEF Waiting, Nothing, Answers

(* A tab whose questions, view and selection stay keeps both.               *)
LEMMA TabSame ==
  ASSUME NEW p \in LogTabs, TabMatches(p), TabNewest(p),
         loads'[p] = loads[p], view'[p] = view[p], selected'[p] = selected[p],
         p \in overtaken <=> p \in overtaken'
  PROVE  TabMatches(p)' /\ TabNewest(p)'
BY DEF TabMatches, TabNewest

(* A question for what is selected is now the newest.                       *)
LEMMA TabAsked ==
  ASSUME TypeOK, NEW p \in LogTabs, NEW s \in Sources, TabMatches(p),
         PopulateLogStore(p, s), selected'[p] = s
  PROVE  TabMatches(p)' /\ TabNewest(p)'
<1>1. loads[p] \in Seq(LoadType) /\ loads'[p] = Append(loads[p], Load(s))
  BY DEF TypeOK, PopulateLogStore, Panels
<1>2. /\ Load(s).source = s /\ Load(s).reply \notin Answers
      /\ ~Load(s).late /\ Load(s) \in LoadType
  BY LoadSteps, WaitingIsNoAnswer
<1> DEFINE n == Len(loads[p]) + 1
<1>3. /\ loads'[p] # <<>> /\ Len(loads'[p]) = n
      /\ DOMAIN loads'[p] = 1 .. n
      /\ loads'[p][n] = Load(s)
      /\ \A i \in 1 .. n : i # n => /\ i \in DOMAIN loads[p]
                                    /\ loads'[p][i] = loads[p][i]
  BY <1>1, <1>2
<1> HIDE DEF n
<1> QED
  BY <1>2, <1>3 DEF TabMatches, TabNewest

(* The tab a step is not about.                                             *)
LEMMA TabOthers ==
  ASSUME TabInv,
         \A p \in LogTabs :
           \/ TabMatches(p)' /\ TabNewest(p)'
           \/ /\ loads'[p] = loads[p] /\ view'[p] = view[p]
              /\ selected'[p] = selected[p]
              /\ (p \in overtaken <=> p \in overtaken')
  PROVE  TabInv'
<1> SUFFICES ASSUME NEW p \in LogTabs
             PROVE  TabMatches(p)' /\ TabNewest(p)'
  BY DEF TabInv, RepliesMatch, NewestWins, TabMatches, TabNewest
<1>1. TabMatches(p) /\ TabNewest(p)
  BY DEF TabInv, RepliesMatch, NewestWins, TabMatches, TabNewest
<1> QED
  BY <1>1, TabSame

(* A thread brings its answer.                                              *)
LEMMA TabReplied ==
  ASSUME TypeOK, TabInv, NEW p \in LogTabs, NEW i \in DOMAIN loads[p],
         ThreadEnds(p, i)
  PROVE  TabMatches(p)' /\ TabNewest(p)'
<1>1. p \in Panels /\ loads[p] \in Seq(LoadType) /\ loads[p][i] \in LoadType
  BY DEF TypeOK, Panels
<1>2. loads'[p] = [loads[p] EXCEPT ![i] = Replied(loads[p][i])]
      /\ UNCHANGED <<view, selected, overtaken>>
  BY <1>1 DEF ThreadEnds, TypeOK
<1>3. /\ Replied(loads[p][i]).source = loads[p][i].source
      /\ Replied(loads[p][i]).reply.source = loads[p][i].source
      /\ (Replied(loads[p][i]).late <=> loads[p][i].late)
  BY <1>1, LoadSteps DEF Sources
<1>4. /\ Len(loads'[p]) = Len(loads[p]) /\ loads'[p] # <<>>
      /\ DOMAIN loads'[p] = DOMAIN loads[p]
      /\ \A j \in DOMAIN loads[p] :
           loads'[p][j] = IF j = i THEN Replied(loads[p][i]) ELSE loads[p][j]
  BY <1>1, <1>2
<1>5. TabMatches(p) /\ TabNewest(p)
  BY DEF TabInv, RepliesMatch, NewestWins, TabMatches, TabNewest
<1>6. TabMatches(p)'
  BY <1>3, <1>4, <1>5 DEF TabMatches
<1>7. Len(loads[p]) \in DOMAIN loads[p]
  BY <1>1
<1>8. TabNewest(p)'
  BY <1>2, <1>3, <1>4, <1>5, <1>7 DEF TabNewest
<1> QED
  BY <1>6, <1>8

(* An answer is shown: a late one leaves the tab overtaken; one in time is  *)
(* the newest or leaves a newer one under way.                              *)
LEMMA TabShows ==
  ASSUME TypeOK, TabInv, NEW p \in LogTabs, NEW i \in DOMAIN loads[p],
         ShowAnswer(p, i)
  PROVE  TabMatches(p)' /\ TabNewest(p)'
<1> DEFINE n == Len(loads[p])
<1>1. p \in Panels /\ loads[p] \in Seq(LoadType) /\ n \in Nat
      /\ i \in 1 .. n /\ \A j \in 1 .. n : loads[p][j] \in LoadType
  BY DEF TypeOK, Panels
<1>2. loads'[p] = Settled(p, i) /\ view'[p] = loads[p][i].reply
      /\ selected' = selected
      /\ (p \in overtaken' <=> loads[p][i].late)
  BY <1>1 DEF ShowAnswer, TypeOK
<1>3. /\ loads'[p] \in Seq(LoadType) /\ Len(loads'[p]) = n - 1
      /\ \A j \in DOMAIN loads'[p] :
           /\ j \in 1 .. n - 1
           /\ loads'[p][j] = IF j < i THEN Overtaken(loads[p][j])
                             ELSE loads[p][j + 1]
  BY <1>1, <1>2, SettledSteps
<1>4. \A load \in LoadType :
        /\ Overtaken(load).source = load.source
        /\ Overtaken(load).reply = load.reply
        /\ Overtaken(load).late
  BY LoadSteps DEF Sources
<1>5. TabMatches(p) /\ TabNewest(p)
  BY DEF TabInv, RepliesMatch, NewestWins, TabMatches, TabNewest
<1>6. DOMAIN loads[p] = 1 .. n /\ DOMAIN loads'[p] = 1 .. n - 1
  BY <1>1, <1>3
<1>7. TabMatches(p)'
  <2> SUFFICES ASSUME NEW j \in 1 .. n - 1, loads'[p][j].reply \in Answers
               PROVE  loads'[p][j].reply.source = loads'[p][j].source
    BY <1>6 DEF TabMatches
  <2>1. j \in 1 .. n /\ j + 1 \in 1 .. n
    BY <1>1
  <2> HIDE DEF n
  <2>2. CASE j < i
    BY <1>1, <1>3, <1>4, <1>5, <1>6, <2>1, <2>2, SMTT(30) DEF TabMatches
  <2>3. CASE ~(j < i)
    BY <1>1, <1>3, <1>5, <1>6, <2>1, <2>3 DEF TabMatches
  <2> QED
    BY <2>2, <2>3
<1>8. TabNewest(p)'
  <2>1. CASE \A j \in 1 .. n : loads[p][j].late
    <3>1. \A j \in DOMAIN loads'[p] : loads'[p][j].late
      <4> SUFFICES ASSUME NEW j \in 1 .. n - 1 PROVE loads'[p][j].late
        BY <1>6
      <4>1. j \in 1 .. n /\ j + 1 \in 1 .. n
        BY <1>1
      <4> QED
        BY <1>1, <1>3, <1>4, <1>6, <2>1, <4>1
    <3> QED
      BY <1>1, <1>2, <2>1, <3>1 DEF TabNewest
  <2>2. CASE ~ \A j \in 1 .. n : loads[p][j].late
    <3>1. ~loads[p][n].late /\ loads[p][n].source = selected[p]
      BY <1>5, <1>6, <2>2 DEF TabNewest
    <3>2. CASE i = n
      <4>1. loads[p][i].reply \in Answers
        BY DEF ShowAnswer
      <4>2. view'[p].source = selected'[p]
        BY <1>2, <1>5, <3>1, <3>2, <4>1 DEF TabMatches
      <4>3. \A j \in DOMAIN loads'[p] : loads'[p][j].late
        BY <1>1, <1>3, <1>4, <1>6, <3>2
      <4> QED
        BY <4>2, <4>3 DEF TabNewest
    <3>3. CASE i < n
      <4>1. n - 1 \in DOMAIN loads'[p] /\ ~(n - 1 < i)
        BY <1>1, <1>6, <3>3
      <4>2. loads'[p][n - 1] = loads[p][n]
        BY <1>1, <1>3, <4>1
      <4> QED
        BY <1>2, <1>3, <3>1, <4>1, <4>2 DEF TabNewest
    <3> QED
      BY <1>1, <3>2, <3>3
  <2> QED
    BY <2>1, <2>2
<1> QED
  BY <1>7, <1>8

(* Every step keeps the invariant of the log tabs.                          *)
LEMMA TabStep ==
  ASSUME TypeOK, TabInv, [Next]_vars
  PROVE  TabInv'
<1>0. Status \notin LogTabs /\ LogTabs \subseteq Panels
  BY PanelsAssumption DEF Panels
<1>1. CASE StatusTimer
  BY <1>0, <1>1, TabOthers DEF StatusTimer, RefreshStatus, TypeOK
<1>2. ASSUME NEW p \in LogTabs, LogTimer(p) \/ LogTab(p)
      PROVE  TabInv'
  <2>1. p \in Panels /\ selected[p] \in Sources /\ Current \in Sources
        /\ Files \subseteq Sources
    BY <1>0 DEF Sources, TypeOK
  <2>2. TabMatches(p) /\ TabNewest(p)
    BY DEF TabInv, RepliesMatch, NewestWins, TabMatches, TabNewest
  <2>3. ASSUME NEW s \in Sources, PopulateLogStore(p, s), selected'[p] = s,
               overtaken' = overtaken,
               \A q \in LogTabs \ {p} : selected'[q] = selected[q]
        PROVE  TabInv'
    <3>1. TabMatches(p)' /\ TabNewest(p)'
      BY <2>2, <2>3, TabAsked
    <3>2. \A q \in LogTabs \ {p} : loads'[q] = loads[q] /\ view'[q] = view[q]
      BY <1>0, <2>3 DEF PopulateLogStore, TypeOK
    <3> QED
      BY <2>3, <3>1, <3>2, TabOthers
  <2>4. CASE LogTimer(p)
    BY <2>1, <2>3, <2>4 DEF LogTimer
  <2>5. CASE RefreshButton(p)
    BY <2>1, <2>3, <2>5 DEF RefreshButton
  <2>6. CASE ClearButton(p)
    <3>1. TabMatches(p)' /\ TabNewest(p)'
      BY <2>1, <2>2, <2>6
      DEF ClearButton, TypeOK, TabMatches, TabNewest
    <3>2. \A q \in LogTabs \ {p} : view'[q] = view[q]
      BY <1>0, <2>6 DEF ClearButton, TypeOK
    <3> QED
      BY <2>6, <3>1, <3>2, TabOthers DEF ClearButton
  <2>7. CASE AutoRefreshToggled(p)
    BY <2>7, TabOthers DEF AutoRefreshToggled
  <2>8. CASE LogFileChanged(p)
    <3>1. PICK s \in {Current} \cup Files :
            /\ selected' = [selected EXCEPT ![p] = s]
            /\ PopulateLogStore(p, s) /\ overtaken' = overtaken
      BY <2>8 DEF LogFileChanged
    <3>2. /\ s \in Sources /\ selected'[p] = s
          /\ \A q \in LogTabs \ {p} : selected'[q] = selected[q]
      BY <1>0, <2>1, <3>1 DEF TypeOK
    <3> QED
      BY <2>3, <3>1, <3>2
  <2> QED
    BY <1>2, <2>4, <2>5, <2>6, <2>7, <2>8 DEF LogTab
<1>3. ASSUME NEW p \in Panels, NEW i \in DOMAIN loads[p], ThreadEnds(p, i)
      PROVE  TabInv'
  <2>1. \A q \in LogTabs \ {p} : loads'[q] = loads[q]
    BY <1>0, <1>3 DEF ThreadEnds, TypeOK
  <2>2. UNCHANGED <<view, selected, overtaken>>
    BY <1>3 DEF ThreadEnds
  <2>3. p \in LogTabs => TabMatches(p)' /\ TabNewest(p)'
    BY <1>3, TabReplied
  <2> QED
    BY <2>1, <2>2, <2>3, TabOthers
<1>4. ASSUME NEW p \in Panels, NEW i \in DOMAIN loads[p], ShowAnswer(p, i)
      PROVE  TabInv'
  <2>1. \A q \in LogTabs \ {p} :
          /\ loads'[q] = loads[q] /\ view'[q] = view[q]
          /\ (q \in overtaken' <=> q \in overtaken)
    BY <1>0, <1>4 DEF ShowAnswer, TypeOK
  <2>2. selected' = selected
    BY <1>4 DEF ShowAnswer
  <2>3. p \in LogTabs => TabMatches(p)' /\ TabNewest(p)'
    BY <1>4, TabShows
  <2> QED
    BY <2>1, <2>2, <2>3, TabOthers
<1>5. ASSUME NEW i \in DOMAIN loads[Status], StatusThreadPanics(i)
      PROVE  TabInv'
  BY <1>0, <1>5, TabOthers DEF StatusThreadPanics, TypeOK
<1>6. ASSUME NEW r \in Requests,
             RunServiceAction(r) \/ ActionTakesEffect(r) \/ ActionEnds(r)
      PROVE  TabInv'
  <2>1. UNCHANGED <<view, selected, overtaken>>
    BY <1>6 DEF RunServiceAction, ActionTakesEffect, ActionEnds
  <2>2. \A q \in LogTabs : loads'[q] = loads[q]
    BY <1>0, <1>6
    DEF RunServiceAction, ActionTakesEffect, ActionEnds, RefreshStatus, TypeOK
  <2> QED
    BY <2>1, <2>2, TabOthers
<1>7. ASSUME NEW s \in Sources, SourceChanges(s)
      PROVE  TabInv'
  BY <1>7, TabOthers DEF SourceChanges
<1>8. CASE UNCHANGED vars
  BY <1>8, TabOthers DEF vars
<1> QED
  BY <1>1, <1>2, <1>3, <1>4, <1>5, <1>6, <1>7, <1>8
  DEF Next, ThreadStep, PollStep

(* It holds when the tabs are built: each asks for the memory buffer.       *)
LEMMA TabInit == Init => TabInv
<1> SUFFICES ASSUME Init, NEW p \in LogTabs
             PROVE  TabMatches(p) /\ TabNewest(p)
  BY DEF TabInv, RepliesMatch, NewestWins, TabMatches, TabNewest
<1>1. TypeOK
  BY TypeInit
<1>2. loads[p] = <<Load(selected[p])>> /\ selected[p] \in Sources
  BY <1>1 DEF Init, Panels, TypeOK
<1>3. /\ Load(selected[p]).source = selected[p]
      /\ Load(selected[p]).reply \notin Answers
      /\ ~Load(selected[p]).late
  BY <1>1, <1>2, LoadSteps, WaitingIsNoAnswer
<1> QED
  BY <1>2, <1>3 DEF TabMatches, TabNewest

(* ViewOfSelection: when nothing is under way any more, a log tab shows     *)
(* what is selected or has been cleared, unless it was overtaken, however   *)
(* many questions, answers and changes of the selection came between.       *)
THEOREM ViewIsOfSelection == Spec => []ViewOfSelection
<1>1. Init => TypeOK /\ TabInv
  BY TypeInit, TabInit
<1>2. TypeOK /\ TabInv /\ [Next]_vars => TypeOK' /\ TabInv'
  BY TypeStep, TabStep
<1>3. TabInv => ViewOfSelection
  <2> SUFFICES ASSUME TabInv, NEW p \in LogTabs, loads[p] = <<>>,
                      p \notin overtaken
               PROVE  view[p].source \in {selected[p], Blank.source}
    BY DEF ViewOfSelection
  <2> QED
    BY DEF TabInv, NewestWins
<1> QED
  BY <1>1, <1>2, <1>3, PTL DEF Spec
================================================================================
