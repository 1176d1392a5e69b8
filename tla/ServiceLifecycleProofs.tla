------------------------ MODULE ServiceLifecycleProofs ------------------------
(***************************************************************************)
(* Proofs about ServiceLifecycle, for any set of clients and of servers,   *)
(* any requests and any faults.  The type and ownership invariants hold    *)
(* for both services; NoOrphan needs DropSignals, the FTP service.         *)
(***************************************************************************)
EXTENDS ServiceLifecycle, TLAPS

(* A handler's local holds a server exactly between start() and the slot,  *)
(* and between the slot and the end of stop().                             *)
HoldsServer ==
  \A p \in Procs :
    mine[p] # NoServer <=> pc[p] \in {"install", "signal", "wait"}

(* stop() only waits for a task it has signalled, or one that has ended.   *)
WaitsForSignalled ==
  \A p \in Procs :
    pc[p] = "wait" => signalled[mine[p]] \/ phase[mine[p]] = "closed"

(* Requests run only while main serves: boot and exit have the daemon to   *)
(* themselves.                                                             *)
MainAlone == \A c \in Clients : pc[c] # "idle" => pc[Main] = "idle"

(* The flag of a server in the slot, or on its way there, follows its task *)
FlagFollowsTask ==
  \A s \in Servers :
    (s = slot \/ \E p \in Procs : mine[p] = s /\ pc[p] = "install") =>
      (running[s] <=> phase[s] # "closed")

(* Who owns which server, as one inductive invariant.                      *)
OwnerInv == TypeOK /\ HoldsServer /\ MainAlone /\ ExclusiveOwner

-----------------------------------------------------------------------------
(* Every variable starts with its type.                                    *)
LEMMA TypeInit == Init => TypeOK
BY ServiceAssumption DEF Init, TypeOK, Procs, Phases, Steps, Ops, AllRequests

(* No step takes a variable out of its type.                               *)
LEMMA TypeStep == TypeOK /\ [Next]_vars => TypeOK'
<1> SUFFICES ASSUME TypeOK, [Next]_vars PROVE TypeOK'
  OBVIOUS
<1> USE ServiceAssumption DEF TypeOK, Procs, Phases, Steps, Ops, AllRequests,
      Goto, Return, Continue, AfterStop
<1>1. ASSUME NEW c \in Clients, StartService(c) PROVE TypeOK'
  BY <1>1 DEF StartService, Receive
<1>2. ASSUME NEW c \in Clients, StopService(c) PROVE TypeOK'
  BY <1>2 DEF StopService, Receive
<1>3. ASSUME NEW c \in Clients, RestartService(c) PROVE TypeOK'
  BY <1>3 DEF RestartService, Receive
<1>4. ASSUME NEW c \in Clients, SaveConfig(c) PROVE TypeOK'
  BY <1>4 DEF SaveConfig, Receive
<1>5. ASSUME NEW p \in Procs, ApplySnapshot(p) PROVE TypeOK'
  BY <1>5 DEF ApplySnapshot
<1>6. ASSUME NEW p \in Procs, ApplyDecide(p) PROVE TypeOK'
  BY <1>6 DEF ApplyDecide
<1>7. ASSUME NEW p \in Procs, CheckSlot(p) PROVE TypeOK'
  BY <1>7 DEF CheckSlot
<1>8. ASSUME NEW p \in Procs, StartServer(p) PROVE TypeOK'
  BY <1>8 DEF StartServer
<1>9. ASSUME NEW p \in Procs, StartFails(p) PROVE TypeOK'
  BY <1>9 DEF StartFails
<1>10. ASSUME NEW p \in Procs, Install(p) PROVE TypeOK'
  BY <1>10 DEF Install
<1>11. ASSUME NEW p \in Procs, TakeSlot(p) PROVE TypeOK'
  BY <1>11 DEF TakeSlot
<1>12. ASSUME NEW p \in Procs, SignalStop(p) PROVE TypeOK'
  BY <1>12, ZenonT(60) DEF SignalStop
<1>13. ASSUME NEW p \in Procs, WaitEnds(p) PROVE TypeOK'
  BY <1>13 DEF WaitEnds
<1>14. ASSUME NEW s \in Servers, Bind(s) PROVE TypeOK'
  BY <1>14 DEF Bind
<1>15. ASSUME NEW s \in Servers, BindFails(s) PROVE TypeOK'
  BY <1>15 DEF BindFails
<1>16. ASSUME NEW s \in Servers, ListenerStops(s) PROVE TypeOK'
  BY <1>16 DEF ListenerStops
<1>17. ASSUME NEW s \in Servers, TaskEnds(s) PROVE TypeOK'
  BY <1>17 DEF TaskEnds
<1>18. CASE Terminate
  BY <1>18 DEF Terminate
<1>19. CASE Relaunch
  BY <1>19 DEF Relaunch
<1>20. CASE UNCHANGED vars
  BY <1>20 DEF vars
<1>21. QED
  BY <1>1, <1>2, <1>3, <1>4, <1>5, <1>6, <1>7, <1>8, <1>9, <1>10, <1>11,
     <1>12, <1>13, <1>14, <1>15, <1>16, <1>17, <1>18, <1>19, <1>20 DEF Next,
     Request, HandlerStep, TaskStep

(* TypeOK is an invariant of the specification, for both services and any  *)
(* number of clients and servers.                                          *)
THEOREM TypeCorrect == Spec => []TypeOK
BY TypeInit, TypeStep, PTL DEF Spec

-----------------------------------------------------------------------------
(* Locals hold a server exactly while a start or a stop is under way.      *)
LEMMA HoldsStep == TypeOK /\ HoldsServer /\ [Next]_vars => HoldsServer'
<1> SUFFICES ASSUME TypeOK, HoldsServer, [Next]_vars PROVE HoldsServer'
  OBVIOUS
<1> USE ServiceAssumption DEF TypeOK, HoldsServer, Goto, Return, Continue,
      AfterStop
<1>1. ASSUME NEW c \in Clients, StartService(c) PROVE HoldsServer'
  BY <1>1 DEF StartService, Receive
<1>2. ASSUME NEW c \in Clients, StopService(c) PROVE HoldsServer'
  BY <1>2 DEF StopService, Receive
<1>3. ASSUME NEW c \in Clients, RestartService(c) PROVE HoldsServer'
  BY <1>3 DEF RestartService, Receive
<1>4. ASSUME NEW c \in Clients, SaveConfig(c) PROVE HoldsServer'
  BY <1>4 DEF SaveConfig, Receive
<1>5. ASSUME NEW p \in Procs, ApplySnapshot(p) PROVE HoldsServer'
  BY <1>5 DEF ApplySnapshot
<1>6. ASSUME NEW p \in Procs, ApplyDecide(p) PROVE HoldsServer'
  BY <1>6 DEF ApplyDecide
<1>7. ASSUME NEW p \in Procs, CheckSlot(p) PROVE HoldsServer'
  BY <1>7 DEF CheckSlot
<1>8. ASSUME NEW p \in Procs, StartServer(p) PROVE HoldsServer'
  BY <1>8 DEF StartServer
<1>9. ASSUME NEW p \in Procs, StartFails(p) PROVE HoldsServer'
  BY <1>9 DEF StartFails
<1>10. ASSUME NEW p \in Procs, Install(p) PROVE HoldsServer'
  BY <1>10 DEF Install
<1>11. ASSUME NEW p \in Procs, TakeSlot(p) PROVE HoldsServer'
  BY <1>11 DEF TakeSlot
<1>12. ASSUME NEW p \in Procs, SignalStop(p) PROVE HoldsServer'
  BY <1>12 DEF SignalStop
<1>13. ASSUME NEW p \in Procs, WaitEnds(p) PROVE HoldsServer'
  BY <1>13 DEF WaitEnds
<1>14. ASSUME NEW s \in Servers, Bind(s) PROVE HoldsServer'
  BY <1>14 DEF Bind
<1>15. ASSUME NEW s \in Servers, BindFails(s) PROVE HoldsServer'
  BY <1>15 DEF BindFails
<1>16. ASSUME NEW s \in Servers, ListenerStops(s) PROVE HoldsServer'
  BY <1>16 DEF ListenerStops
<1>17. ASSUME NEW s \in Servers, TaskEnds(s) PROVE HoldsServer'
  BY <1>17 DEF TaskEnds
<1>18. CASE Terminate
  BY <1>18 DEF Terminate
<1>19. CASE Relaunch
  BY <1>19 DEF Relaunch
<1>20. CASE UNCHANGED vars
  BY <1>20 DEF vars
<1>21. QED
  BY <1>1, <1>2, <1>3, <1>4, <1>5, <1>6, <1>7, <1>8, <1>9, <1>10, <1>11,
     <1>12, <1>13, <1>14, <1>15, <1>16, <1>17, <1>18, <1>19, <1>20 DEF Next,
     Request, HandlerStep, TaskStep

(* Boot and exit never overlap a request.                                  *)
LEMMA MainStep == TypeOK /\ MainAlone /\ [Next]_vars => MainAlone'
<1> SUFFICES ASSUME TypeOK, MainAlone, [Next]_vars PROVE MainAlone'
  OBVIOUS
<1> USE ServiceAssumption DEF TypeOK, MainAlone, Procs, Goto, Return, Continue,
      AfterStop
<1>1. ASSUME NEW c \in Clients, StartService(c) PROVE MainAlone'
  BY <1>1 DEF StartService, Receive, Serving
<1>2. ASSUME NEW c \in Clients, StopService(c) PROVE MainAlone'
  BY <1>2 DEF StopService, Receive, Serving
<1>3. ASSUME NEW c \in Clients, RestartService(c) PROVE MainAlone'
  BY <1>3 DEF RestartService, Receive, Serving
<1>4. ASSUME NEW c \in Clients, SaveConfig(c) PROVE MainAlone'
  BY <1>4 DEF SaveConfig, Receive, Serving
<1>5. ASSUME NEW p \in Procs, ApplySnapshot(p) PROVE MainAlone'
  BY <1>5 DEF ApplySnapshot
<1>6. ASSUME NEW p \in Procs, ApplyDecide(p) PROVE MainAlone'
  BY <1>6 DEF ApplyDecide
<1>7. ASSUME NEW p \in Procs, CheckSlot(p) PROVE MainAlone'
  BY <1>7 DEF CheckSlot
<1>8. ASSUME NEW p \in Procs, StartServer(p) PROVE MainAlone'
  BY <1>8 DEF StartServer
<1>9. ASSUME NEW p \in Procs, StartFails(p) PROVE MainAlone'
  BY <1>9 DEF StartFails
<1>10. ASSUME NEW p \in Procs, Install(p) PROVE MainAlone'
  BY <1>10 DEF Install
<1>11. ASSUME NEW p \in Procs, TakeSlot(p) PROVE MainAlone'
  BY <1>11 DEF TakeSlot
<1>12. ASSUME NEW p \in Procs, SignalStop(p) PROVE MainAlone'
  BY <1>12 DEF SignalStop
<1>13. ASSUME NEW p \in Procs, WaitEnds(p) PROVE MainAlone'
  BY <1>13 DEF WaitEnds
<1>14. ASSUME NEW s \in Servers, Bind(s) PROVE MainAlone'
  BY <1>14 DEF Bind
<1>15. ASSUME NEW s \in Servers, BindFails(s) PROVE MainAlone'
  BY <1>15 DEF BindFails
<1>16. ASSUME NEW s \in Servers, ListenerStops(s) PROVE MainAlone'
  BY <1>16 DEF ListenerStops
<1>17. ASSUME NEW s \in Servers, TaskEnds(s) PROVE MainAlone'
  BY <1>17 DEF TaskEnds
<1>18. CASE Terminate
  BY <1>18 DEF Terminate
<1>19. CASE Relaunch
  BY <1>19 DEF Relaunch
<1>20. CASE UNCHANGED vars
  BY <1>20 DEF vars
<1>21. QED
  BY <1>1, <1>2, <1>3, <1>4, <1>5, <1>6, <1>7, <1>8, <1>9, <1>10, <1>11,
     <1>12, <1>13, <1>14, <1>15, <1>16, <1>17, <1>18, <1>19, <1>20 DEF Next,
     Request, HandlerStep, TaskStep

(* No step makes a second owner for a server: a start takes one nobody     *)
(* refers to, install and take move it.                                    *)
LEMMA OwnerStep ==
  TypeOK /\ HoldsServer /\ ExclusiveOwner /\ [Next]_vars => ExclusiveOwner'
<1> SUFFICES ASSUME TypeOK, HoldsServer, ExclusiveOwner, [Next]_vars
             PROVE ExclusiveOwner'
  OBVIOUS
<1> USE ServiceAssumption DEF TypeOK, HoldsServer, ExclusiveOwner, Goto,
      Return, Continue, AfterStop
<1>1. ASSUME NEW c \in Clients, StartService(c) PROVE ExclusiveOwner'
  BY <1>1 DEF StartService, Receive
<1>2. ASSUME NEW c \in Clients, StopService(c) PROVE ExclusiveOwner'
  BY <1>2 DEF StopService, Receive
<1>3. ASSUME NEW c \in Clients, RestartService(c) PROVE ExclusiveOwner'
  BY <1>3 DEF RestartService, Receive
<1>4. ASSUME NEW c \in Clients, SaveConfig(c) PROVE ExclusiveOwner'
  BY <1>4 DEF SaveConfig, Receive
<1>5. ASSUME NEW p \in Procs, ApplySnapshot(p) PROVE ExclusiveOwner'
  BY <1>5 DEF ApplySnapshot
<1>6. ASSUME NEW p \in Procs, ApplyDecide(p) PROVE ExclusiveOwner'
  BY <1>6 DEF ApplyDecide
<1>7. ASSUME NEW p \in Procs, CheckSlot(p) PROVE ExclusiveOwner'
  BY <1>7 DEF CheckSlot
<1>8. ASSUME NEW p \in Procs, StartServer(p) PROVE ExclusiveOwner'
  BY <1>8 DEF StartServer, Fresh
<1>9. ASSUME NEW p \in Procs, StartFails(p) PROVE ExclusiveOwner'
  BY <1>9 DEF StartFails
<1>10. ASSUME NEW p \in Procs, Install(p) PROVE ExclusiveOwner'
  BY <1>10 DEF Install
<1>11. ASSUME NEW p \in Procs, TakeSlot(p) PROVE ExclusiveOwner'
  BY <1>11 DEF TakeSlot
<1>12. ASSUME NEW p \in Procs, SignalStop(p) PROVE ExclusiveOwner'
  BY <1>12 DEF SignalStop
<1>13. ASSUME NEW p \in Procs, WaitEnds(p) PROVE ExclusiveOwner'
  BY <1>13 DEF WaitEnds
<1>14. ASSUME NEW s \in Servers, Bind(s) PROVE ExclusiveOwner'
  BY <1>14 DEF Bind
<1>15. ASSUME NEW s \in Servers, BindFails(s) PROVE ExclusiveOwner'
  BY <1>15 DEF BindFails
<1>16. ASSUME NEW s \in Servers, ListenerStops(s) PROVE ExclusiveOwner'
  BY <1>16 DEF ListenerStops
<1>17. ASSUME NEW s \in Servers, TaskEnds(s) PROVE ExclusiveOwner'
  BY <1>17 DEF TaskEnds
<1>18. CASE Terminate
  BY <1>18 DEF Terminate
<1>19. CASE Relaunch
  BY <1>19 DEF Relaunch
<1>20. CASE UNCHANGED vars
  BY <1>20 DEF vars
<1>21. QED
  BY <1>1, <1>2, <1>3, <1>4, <1>5, <1>6, <1>7, <1>8, <1>9, <1>10, <1>11,
     <1>12, <1>13, <1>14, <1>15, <1>16, <1>17, <1>18, <1>19, <1>20 DEF Next,
     Request, HandlerStep, TaskStep

(* The conjunction is inductive.                                           *)
LEMMA OwnerInvariant == Spec => []OwnerInv
<1>1. Init => OwnerInv
  BY TypeInit, ServiceAssumption
     DEF Init, OwnerInv, HoldsServer, MainAlone, ExclusiveOwner, Procs
<1>2. OwnerInv /\ [Next]_vars => OwnerInv'
  BY TypeStep, HoldsStep, MainStep, OwnerStep DEF OwnerInv
<1>3. QED
  BY <1>1, <1>2, PTL DEF Spec

(* A server value never has two owners, so no stop hits the server of      *)
(* another request.                                                        *)
THEOREM OwnersExclusive == Spec => []ExclusiveOwner
<1>1. OwnerInv => ExclusiveOwner
  BY DEF OwnerInv
<1>2. QED
  BY <1>1, OwnerInvariant, PTL

-----------------------------------------------------------------------------
(* The flag of the installed server follows its own task: the flags other  *)
(* handlers lower belong to servers they own.                              *)
LEMMA FlagStep ==
  OwnerInv /\ FlagFollowsTask /\ [Next]_vars => FlagFollowsTask'
<1> SUFFICES ASSUME OwnerInv, FlagFollowsTask, [Next]_vars
             PROVE FlagFollowsTask'
  OBVIOUS
<1> USE ServiceAssumption DEF TypeOK, OwnerInv, HoldsServer, MainAlone,
      ExclusiveOwner,
      FlagFollowsTask, Procs, Phases, Goto, Return, Continue, AfterStop
<1>1. ASSUME NEW c \in Clients, StartService(c) PROVE FlagFollowsTask'
  BY <1>1 DEF StartService, Receive
<1>2. ASSUME NEW c \in Clients, StopService(c) PROVE FlagFollowsTask'
  BY <1>2 DEF StopService, Receive
<1>3. ASSUME NEW c \in Clients, RestartService(c) PROVE FlagFollowsTask'
  BY <1>3 DEF RestartService, Receive
<1>4. ASSUME NEW c \in Clients, SaveConfig(c) PROVE FlagFollowsTask'
  BY <1>4 DEF SaveConfig, Receive
<1>5. ASSUME NEW p \in Procs, ApplySnapshot(p) PROVE FlagFollowsTask'
  BY <1>5 DEF ApplySnapshot
<1>6. ASSUME NEW p \in Procs, ApplyDecide(p) PROVE FlagFollowsTask'
  BY <1>6 DEF ApplyDecide
<1>7. ASSUME NEW p \in Procs, CheckSlot(p) PROVE FlagFollowsTask'
  BY <1>7 DEF CheckSlot
<1>8. ASSUME NEW p \in Procs, StartServer(p) PROVE FlagFollowsTask'
  BY <1>8 DEF StartServer, Fresh
<1>9. ASSUME NEW p \in Procs, StartFails(p) PROVE FlagFollowsTask'
  BY <1>9 DEF StartFails
<1>10. ASSUME NEW p \in Procs, Install(p) PROVE FlagFollowsTask'
  BY <1>10 DEF Install
<1>11. ASSUME NEW p \in Procs, TakeSlot(p) PROVE FlagFollowsTask'
  BY <1>11 DEF TakeSlot
<1>12. ASSUME NEW p \in Procs, SignalStop(p) PROVE FlagFollowsTask'
  BY <1>12 DEF SignalStop
<1>13. ASSUME NEW p \in Procs, WaitEnds(p) PROVE FlagFollowsTask'
  BY <1>13 DEF WaitEnds
<1>14. ASSUME NEW s \in Servers, Bind(s) PROVE FlagFollowsTask'
  BY <1>14 DEF Bind
<1>15. ASSUME NEW s \in Servers, BindFails(s) PROVE FlagFollowsTask'
  BY <1>15 DEF BindFails
<1>16. ASSUME NEW s \in Servers, ListenerStops(s) PROVE FlagFollowsTask'
  BY <1>16 DEF ListenerStops, Live
<1>17. ASSUME NEW s \in Servers, TaskEnds(s) PROVE FlagFollowsTask'
  BY <1>17 DEF TaskEnds
<1>18. CASE Terminate
  BY <1>18 DEF Terminate
<1>19. CASE Relaunch
  BY <1>19 DEF Relaunch
<1>20. CASE UNCHANGED vars
  BY <1>20 DEF vars
<1>21. QED
  BY <1>1, <1>2, <1>3, <1>4, <1>5, <1>6, <1>7, <1>8, <1>9, <1>10, <1>11,
     <1>12, <1>13, <1>14, <1>15, <1>16, <1>17, <1>18, <1>19, <1>20 DEF Next,
     Request, HandlerStep, TaskStep

(* The status reported for the installed server is true, for both services *)
(* and whatever requests interleave, fail or time out.                     *)
THEOREM StatusIsHonest == Spec => []StatusHonest
<1>1. Init => FlagFollowsTask
  BY ServiceAssumption DEF Init, FlagFollowsTask, Procs
<1>2. OwnerInv /\ FlagFollowsTask /\ [Next]_vars => FlagFollowsTask'
  BY FlagStep
<1>3. OwnerInv /\ FlagFollowsTask => StatusHonest
  BY DEF OwnerInv, TypeOK, FlagFollowsTask, StatusHonest
<1>4. QED
  BY <1>1, <1>2, <1>3, OwnerInvariant, PTL DEF Spec

-----------------------------------------------------------------------------
(* What stop() waits for has been signalled.                               *)
LEMMA WaitStep ==
  OwnerInv /\ WaitsForSignalled /\ [Next]_vars => WaitsForSignalled'
<1> SUFFICES ASSUME OwnerInv, WaitsForSignalled, [Next]_vars
             PROVE WaitsForSignalled'
  OBVIOUS
<1> USE ServiceAssumption DEF TypeOK, OwnerInv, HoldsServer, MainAlone,
      WaitsForSignalled, Procs, Phases, Goto, Return, Continue, AfterStop
<1>1. ASSUME NEW c \in Clients, StartService(c) PROVE WaitsForSignalled'
  BY <1>1 DEF StartService, Receive
<1>2. ASSUME NEW c \in Clients, StopService(c) PROVE WaitsForSignalled'
  BY <1>2 DEF StopService, Receive
<1>3. ASSUME NEW c \in Clients, RestartService(c) PROVE WaitsForSignalled'
  BY <1>3 DEF RestartService, Receive
<1>4. ASSUME NEW c \in Clients, SaveConfig(c) PROVE WaitsForSignalled'
  BY <1>4 DEF SaveConfig, Receive
<1>5. ASSUME NEW p \in Procs, ApplySnapshot(p) PROVE WaitsForSignalled'
  BY <1>5 DEF ApplySnapshot
<1>6. ASSUME NEW p \in Procs, ApplyDecide(p) PROVE WaitsForSignalled'
  BY <1>6 DEF ApplyDecide
<1>7. ASSUME NEW p \in Procs, CheckSlot(p) PROVE WaitsForSignalled'
  BY <1>7 DEF CheckSlot
<1>8. ASSUME NEW p \in Procs, StartServer(p) PROVE WaitsForSignalled'
  BY <1>8 DEF StartServer, Fresh
<1>9. ASSUME NEW p \in Procs, StartFails(p) PROVE WaitsForSignalled'
  BY <1>9 DEF StartFails
<1>10. ASSUME NEW p \in Procs, Install(p) PROVE WaitsForSignalled'
  BY <1>10 DEF Install
<1>11. ASSUME NEW p \in Procs, TakeSlot(p) PROVE WaitsForSignalled'
  BY <1>11 DEF TakeSlot
<1>12. ASSUME NEW p \in Procs, SignalStop(p) PROVE WaitsForSignalled'
  BY <1>12 DEF SignalStop
<1>13. ASSUME NEW p \in Procs, WaitEnds(p) PROVE WaitsForSignalled'
  BY <1>13 DEF WaitEnds
<1>14. ASSUME NEW s \in Servers, Bind(s) PROVE WaitsForSignalled'
  BY <1>14 DEF Bind
<1>15. ASSUME NEW s \in Servers, BindFails(s) PROVE WaitsForSignalled'
  BY <1>15 DEF BindFails
<1>16. ASSUME NEW s \in Servers, ListenerStops(s) PROVE WaitsForSignalled'
  BY <1>16 DEF ListenerStops, Live
<1>17. ASSUME NEW s \in Servers, TaskEnds(s) PROVE WaitsForSignalled'
  BY <1>17 DEF TaskEnds
<1>18. CASE Terminate
  BY <1>18 DEF Terminate
<1>19. CASE Relaunch
  BY <1>19 DEF Relaunch
<1>20. CASE UNCHANGED vars
  BY <1>20 DEF vars
<1>21. QED
  BY <1>1, <1>2, <1>3, <1>4, <1>5, <1>6, <1>7, <1>8, <1>9, <1>10, <1>11,
     <1>12, <1>13, <1>14, <1>15, <1>16, <1>17, <1>18, <1>19, <1>20 DEF Next,
     Request, HandlerStep, TaskStep

(* With the FTP handle, whoever throws a server away signals its task.     *)
LEMMA OrphanStep ==
  DropSignals /\ OwnerInv /\ WaitsForSignalled /\ NoOrphan /\ [Next]_vars
    => NoOrphan'
<1> SUFFICES ASSUME DropSignals, OwnerInv, WaitsForSignalled, NoOrphan,
                    [Next]_vars
             PROVE NoOrphan'
  OBVIOUS
<1> USE ServiceAssumption DEF TypeOK, OwnerInv, HoldsServer, ExclusiveOwner,
      WaitsForSignalled, NoOrphan, Live, Phases, Goto, Return, Continue,
      AfterStop
<1>1. ASSUME NEW c \in Clients, StartService(c) PROVE NoOrphan'
  BY <1>1 DEF StartService, Receive
<1>2. ASSUME NEW c \in Clients, StopService(c) PROVE NoOrphan'
  BY <1>2 DEF StopService, Receive
<1>3. ASSUME NEW c \in Clients, RestartService(c) PROVE NoOrphan'
  BY <1>3 DEF RestartService, Receive
<1>4. ASSUME NEW c \in Clients, SaveConfig(c) PROVE NoOrphan'
  BY <1>4 DEF SaveConfig, Receive
<1>5. ASSUME NEW p \in Procs, ApplySnapshot(p) PROVE NoOrphan'
  BY <1>5 DEF ApplySnapshot
<1>6. ASSUME NEW p \in Procs, ApplyDecide(p) PROVE NoOrphan'
  BY <1>6 DEF ApplyDecide
<1>7. ASSUME NEW p \in Procs, CheckSlot(p) PROVE NoOrphan'
  BY <1>7 DEF CheckSlot
<1>8. ASSUME NEW p \in Procs, StartServer(p) PROVE NoOrphan'
  BY <1>8 DEF StartServer, Fresh
<1>9. ASSUME NEW p \in Procs, StartFails(p) PROVE NoOrphan'
  BY <1>9 DEF StartFails
<1>10. ASSUME NEW p \in Procs, Install(p) PROVE NoOrphan'
  BY <1>10 DEF Install
<1>11. ASSUME NEW p \in Procs, TakeSlot(p) PROVE NoOrphan'
  BY <1>11 DEF TakeSlot
<1>12. ASSUME NEW p \in Procs, SignalStop(p) PROVE NoOrphan'
  <2>1. mine[p] \in Servers
    BY <1>12 DEF SignalStop
  <2>2. SUFFICES ASSUME NEW s \in Servers, Live(s)', ~signalled'[s]
                 PROVE  \/ slot' = s
                        \/ \E q \in Procs : /\ mine'[q] = s
                                           /\ pc'[q] \in {"install", "signal"}
    BY DEF NoOrphan
  <2>3. phase[s] # "closed" /\ s # mine[p] /\ Live(s) /\ ~signalled[s]
    BY <1>12, <2>1, <2>2 DEF SignalStop
  <2>4. CASE slot = s
    BY <1>12, <2>4 DEF SignalStop
  <2>5. ASSUME NEW q \in Procs, mine[q] = s, pc[q] \in {"install", "signal"}
        PROVE  mine'[q] = s /\ pc'[q] \in {"install", "signal"}
    BY <1>12, <2>3, <2>5 DEF SignalStop
  <2>6. QED
    BY <2>3, <2>4, <2>5
<1>13. ASSUME NEW p \in Procs, WaitEnds(p) PROVE NoOrphan'
  BY <1>13 DEF WaitEnds
<1>14. ASSUME NEW s \in Servers, Bind(s) PROVE NoOrphan'
  BY <1>14 DEF Bind
<1>15. ASSUME NEW s \in Servers, BindFails(s) PROVE NoOrphan'
  BY <1>15 DEF BindFails
<1>16. ASSUME NEW s \in Servers, ListenerStops(s) PROVE NoOrphan'
  BY <1>16 DEF ListenerStops
<1>17. ASSUME NEW s \in Servers, TaskEnds(s) PROVE NoOrphan'
  BY <1>17 DEF TaskEnds
<1>18. CASE Terminate
  BY <1>18 DEF Terminate
<1>19. CASE Relaunch
  BY <1>19 DEF Relaunch
<1>20. CASE UNCHANGED vars
  BY <1>20 DEF vars
<1>21. QED
  BY <1>1, <1>2, <1>3, <1>4, <1>5, <1>6, <1>7, <1>8, <1>9, <1>10, <1>11,
     <1>12, <1>13, <1>14, <1>15, <1>16, <1>17, <1>18, <1>19, <1>20 DEF Next,
     Request, HandlerStep, TaskStep

(* No FTP listener is ever out of reach: two racing starts, a stop that    *)
(* times out and a failed bind included.                                   *)
THEOREM FtpNoOrphan == ASSUME DropSignals PROVE Spec => []NoOrphan
<1>1. Init => WaitsForSignalled /\ NoOrphan
  BY DEF Init, WaitsForSignalled, NoOrphan, Live
<1>2. OwnerInv /\ WaitsForSignalled /\ [Next]_vars => WaitsForSignalled'
  BY WaitStep
<1>3. OwnerInv /\ WaitsForSignalled /\ NoOrphan /\ [Next]_vars => NoOrphan'
  BY OrphanStep
<1>4. QED
  BY <1>1, <1>2, <1>3, OwnerInvariant, PTL DEF Spec
-----------------------------------------------------------------------------
(* The service used by one client at a time, as the GUI does: no two       *)
(* requests interleave.                                                    *)
OneClient == \A c, d \in Clients : c = d

(* A listener's server is in the slot, or a handler owns it; and a handler *)
(* creates or stops a server only while the slot is empty.  Together: at   *)
(* most one task is not closed.                                            *)
PortInv ==
  /\ \A s \in Servers :
       phase[s] # "closed" => s = slot \/ \E p \in Procs : mine[p] = s
  /\ \A p \in Procs :
       pc[p] \in {"create", "install", "signal", "wait"} => slot = NoServer

(* With one client, one handler at most is under way.                      *)
LEMMA OneHandler ==
  ASSUME OneClient, OwnerInv
  PROVE \A p, q \in Procs : pc[p] # "idle" /\ pc[q] # "idle" => p = q
BY ServiceAssumption DEF OneClient, OwnerInv, MainAlone, Procs

(* A stop that waits to the end leaves no task behind, so the next start   *)
(* finds none.                                                             *)
LEMMA PortStep ==
  ASSUME OneClient, "timeout" \notin Faults
  PROVE OwnerInv /\ PortInv /\ [Next]_vars => PortInv'
<1> SUFFICES ASSUME OwnerInv, PortInv, [Next]_vars PROVE PortInv'
  OBVIOUS
<1> USE ServiceAssumption, OneHandler DEF TypeOK, OwnerInv, HoldsServer,
      PortInv, Phases, Goto, Return, Continue, AfterStop
<1>1. ASSUME NEW c \in Clients, StartService(c) PROVE PortInv'
  BY <1>1 DEF StartService, Receive, Serving
<1>2. ASSUME NEW c \in Clients, StopService(c) PROVE PortInv'
  BY <1>2 DEF StopService, Receive, Serving
<1>3. ASSUME NEW c \in Clients, RestartService(c) PROVE PortInv'
  BY <1>3 DEF RestartService, Receive, Serving
<1>4. ASSUME NEW c \in Clients, SaveConfig(c) PROVE PortInv'
  BY <1>4 DEF SaveConfig, Receive, Serving
<1>5. ASSUME NEW p \in Procs, ApplySnapshot(p) PROVE PortInv'
  BY <1>5 DEF ApplySnapshot
<1>6. ASSUME NEW p \in Procs, ApplyDecide(p) PROVE PortInv'
  BY <1>6 DEF ApplyDecide, IsRunning
<1>7. ASSUME NEW p \in Procs, CheckSlot(p) PROVE PortInv'
  BY <1>7 DEF CheckSlot
<1>8. ASSUME NEW p \in Procs, StartServer(p) PROVE PortInv'
  BY <1>8 DEF StartServer, Fresh
<1>9. ASSUME NEW p \in Procs, StartFails(p) PROVE PortInv'
  BY <1>9 DEF StartFails
<1>10. ASSUME NEW p \in Procs, Install(p) PROVE PortInv'
  BY <1>10 DEF Install
<1>11. ASSUME NEW p \in Procs, TakeSlot(p) PROVE PortInv'
  BY <1>11 DEF TakeSlot
<1>12. ASSUME NEW p \in Procs, SignalStop(p) PROVE PortInv'
  BY <1>12 DEF SignalStop
<1>13. ASSUME NEW p \in Procs, WaitEnds(p) PROVE PortInv'
  BY <1>13 DEF WaitEnds
<1>14. ASSUME NEW s \in Servers, Bind(s) PROVE PortInv'
  BY <1>14 DEF Bind
<1>15. ASSUME NEW s \in Servers, BindFails(s) PROVE PortInv'
  BY <1>15 DEF BindFails
<1>16. ASSUME NEW s \in Servers, ListenerStops(s) PROVE PortInv'
  BY <1>16 DEF ListenerStops, Live
<1>17. ASSUME NEW s \in Servers, TaskEnds(s) PROVE PortInv'
  BY <1>17 DEF TaskEnds
<1>18. CASE Terminate
  BY <1>18 DEF Terminate
<1>19. CASE Relaunch
  BY <1>19 DEF Relaunch
<1>20. CASE UNCHANGED vars
  BY <1>20 DEF vars
<1>21. QED
  BY <1>1, <1>2, <1>3, <1>4, <1>5, <1>6, <1>7, <1>8, <1>9, <1>10, <1>11,
     <1>12, <1>13, <1>14, <1>15, <1>16, <1>17, <1>18, <1>19, <1>20 DEF Next,
     Request, HandlerStep, TaskStep

(* The two processes that hold a server are the same, and then the slot    *)
(* holds none: two open tasks have the same server.                        *)
LEMMA OneTask ==
  ASSUME OneClient, OwnerInv, PortInv, NEW s \in Servers, NEW t \in Servers,
         phase[s] # "closed", phase[t] # "closed"
  PROVE s = t
BY OneHandler, ServiceAssumption DEF OwnerInv, TypeOK, HoldsServer, PortInv

(* PortInv is an invariant of the service with one client.                 *)
LEMMA PortInvariant ==
  ASSUME OneClient, "timeout" \notin Faults
  PROVE Spec => []PortInv
<1>1. Init => PortInv
  BY ServiceAssumption DEF Init, PortInv, Procs
<1>2. OwnerInv /\ PortInv /\ [Next]_vars => PortInv'
  BY PortStep
<1>3. QED
  BY <1>1, <1>2, OwnerInvariant, PTL DEF Spec

(* With one client, and as long as no stop gives up waiting, a new         *)
(* listener never finds its predecessor on the port, for either service    *)
(* and with starts, binds and listeners that fail.                         *)
THEOREM NoConflictWithOneClient ==
  ASSUME OneClient, "timeout" \notin Faults
  PROVE Spec => []NoBindConflict
<1>1. OwnerInv /\ PortInv => NoBindConflict
  BY OneTask DEF NoBindConflict, Bound
<1>2. QED
  BY <1>1, OwnerInvariant, PortInvariant, PTL

(* FlagFollowsTask, as an invariant of its own.                            *)
LEMMA FlagInvariant == Spec => []FlagFollowsTask
<1>1. Init => FlagFollowsTask
  BY ServiceAssumption DEF Init, FlagFollowsTask, Procs
<1>2. OwnerInv /\ FlagFollowsTask /\ [Next]_vars => FlagFollowsTask'
  BY FlagStep
<1>3. QED
  BY <1>1, <1>2, OwnerInvariant, PTL DEF Spec

(* Under the same conditions get_status is right about the port whenever   *)
(* the service is at rest.                                                 *)
THEOREM StatusIsThePorts ==
  ASSUME OneClient, "timeout" \notin Faults
  PROVE Spec => []StatusMatchesPort
<1>1. OwnerInv /\ PortInv /\ FlagFollowsTask => StatusMatchesPort
  <2> SUFFICES ASSUME OwnerInv, PortInv, FlagFollowsTask, Quiescent
               PROVE IsRunning <=> Bound # {}
    BY DEF StatusMatchesPort
  <2>1. slot \in Servers \cup {NoServer} /\ phase \in [Servers -> Phases]
    BY DEF OwnerInv, TypeOK
  <2>2. \A p \in Procs : mine[p] = NoServer
    BY DEF OwnerInv, HoldsServer, Quiescent
  <2>3. ASSUME IsRunning PROVE slot \in Bound
    BY <2>1, <2>3 DEF IsRunning, FlagFollowsTask, Quiescent, Bound
  <2>4. ASSUME NEW s \in Bound PROVE IsRunning
    BY <2>1, <2>2, <2>4, ServiceAssumption
       DEF Bound, PortInv, FlagFollowsTask, IsRunning
  <2>5. QED
    BY <2>3, <2>4
<1>2. QED
  BY <1>1, OwnerInvariant, PortInvariant, FlagInvariant, PTL

-----------------------------------------------------------------------------
(* What a handler under way owes the operator, when nothing fails: the     *)
(* installed server's task is alive, only a server being waited for has    *)
(* been told to stop, a handler that stops one has no enabled service to   *)
(* leave down, and with no handler under way an enabled service is         *)
(* installed.                                                              *)
ServiceInv ==
  /\ slot # NoServer => Live(slot)
  /\ \A p \in Procs : pc[p] = "install" => Live(mine[p])
  /\ \A s \in Servers : signalled[s] \/ phase[s] = "ending" =>
       /\ phase[s] # "closed"
       /\ \E p \in Procs : mine[p] = s /\ pc[p] = "wait"
  /\ \A p \in Procs : pc[p] = "unwanted" => ~enabled
  /\ \A p \in Procs : pc[p] \in {"take", "signal", "wait"} =>
       op[p] \in {"restart", "exit"} \/ ~enabled
  /\ enabled /\ (\A p \in Procs : pc[p] = "idle") => slot # NoServer

(* No step forgets the debt.                                               *)
LEMMA ServiceStep ==
  ASSUME OneClient, Faults = {}
  PROVE OwnerInv /\ PortInv /\ ServiceInv /\ [Next]_vars => ServiceInv'
<1> SUFFICES ASSUME OwnerInv, PortInv, ServiceInv, [Next]_vars
             PROVE ServiceInv'
  OBVIOUS
<1> USE ServiceAssumption, OneHandler DEF TypeOK, OwnerInv, HoldsServer,
      PortInv, ServiceInv, Live, Phases, Goto, Return, Continue, AfterStop
<1>0. ASSUME NEW c \in Clients, Serving, pc[c] = "idle"
      PROVE \A p \in Procs : pc[p] = "idle"
  BY <1>0 DEF OneClient, Procs, Serving
<1>1. ASSUME NEW c \in Clients, StartService(c) PROVE ServiceInv'
  <2>1. /\ UNCHANGED <<slot, phase, signalled, mine>>
        /\ pc' = [pc EXCEPT ![c] = "check"]
    BY <1>1 DEF StartService
  <2>2. \A p \in Procs : pc[p] = "idle"
    BY <1>0, <1>1 DEF StartService, Receive
  <2>3. \A p \in Procs : pc'[p] = IF p = c THEN "check" ELSE "idle"
    BY <2>1, <2>2
  <2>4. c \in Procs
    BY DEF Procs
  <2>5. QED
    BY <2>1, <2>2, <2>3, <2>4
<1>2. ASSUME NEW c \in Clients, StopService(c) PROVE ServiceInv'
  BY <1>0, <1>2 DEF StopService, Receive
<1>3. ASSUME NEW c \in Clients, RestartService(c) PROVE ServiceInv'
  BY <1>0, <1>3 DEF RestartService, Receive
<1>4. ASSUME NEW c \in Clients, SaveConfig(c) PROVE ServiceInv'
  <2>1. /\ UNCHANGED <<slot, phase, signalled, mine>>
        /\ pc' = [pc EXCEPT ![c] = "apply"]
    BY <1>4 DEF SaveConfig
  <2>2. \A p \in Procs : pc[p] = "idle"
    BY <1>0, <1>4 DEF SaveConfig, Receive
  <2>3. \A p \in Procs : pc'[p] = IF p = c THEN "apply" ELSE "idle"
    BY <2>1, <2>2
  <2>4. c \in Procs
    BY DEF Procs
  <2>5. QED
    BY <2>1, <2>2, <2>3, <2>4
<1>5. ASSUME NEW p \in Procs, ApplySnapshot(p) PROVE ServiceInv'
  BY <1>5 DEF ApplySnapshot
<1>6. ASSUME NEW p \in Procs, ApplyDecide(p) PROVE ServiceInv'
  BY <1>6 DEF ApplyDecide, IsRunning
<1>7. ASSUME NEW p \in Procs, CheckSlot(p) PROVE ServiceInv'
  BY <1>7 DEF CheckSlot
<1>8. ASSUME NEW p \in Procs, StartServer(p) PROVE ServiceInv'
  BY <1>8 DEF StartServer, Fresh
<1>9. ASSUME NEW p \in Procs, StartFails(p) PROVE ServiceInv'
  BY <1>9 DEF StartFails
<1>10. ASSUME NEW p \in Procs, Install(p) PROVE ServiceInv'
  BY <1>10 DEF Install
<1>11. ASSUME NEW p \in Procs, TakeSlot(p) PROVE ServiceInv'
  BY <1>11 DEF TakeSlot
<1>12. ASSUME NEW p \in Procs, SignalStop(p) PROVE ServiceInv'
  BY <1>12 DEF SignalStop
<1>13. ASSUME NEW p \in Procs, WaitEnds(p) PROVE ServiceInv'
  BY <1>13 DEF WaitEnds
<1>14. ASSUME NEW s \in Servers, Bind(s) PROVE ServiceInv'
  BY <1>14 DEF Bind
<1>15. ASSUME NEW s \in Servers, BindFails(s) PROVE ServiceInv'
  <2>1. phase[s] = "spawned" /\ Bound # {}
    BY <1>15 DEF BindFails
  <2>2. \A u \in Servers : phase[u] # "closed" => u = s
    BY <2>1, OneTask
  <2>3. QED
    BY <2>1, <2>2 DEF Bound
<1>16. ASSUME NEW s \in Servers, ListenerStops(s) PROVE ServiceInv'
  BY <1>16 DEF ListenerStops, Live
<1>17. ASSUME NEW s \in Servers, TaskEnds(s) PROVE ServiceInv'
  BY <1>17 DEF TaskEnds
<1>18. CASE Terminate
  BY <1>18 DEF Terminate
<1>19. CASE Relaunch
  <2>1. /\ pc[Main] = "exited" /\ slot' = NoServer
        /\ phase' = [s \in Servers |-> "closed"]
        /\ signalled' = [s \in Servers |-> FALSE]
        /\ pc' = [pc EXCEPT ![Main] = "apply"]
    BY <1>19 DEF Relaunch
  <2>2. \A p \in Procs : pc'[p] = IF p = Main THEN "apply" ELSE "idle"
    BY <2>1 DEF MainAlone, Procs
  <2>3. Main \in Procs
    BY DEF Procs
  <2>4. QED
    BY <2>1, <2>2, <2>3
<1>20. CASE UNCHANGED vars
  BY <1>20 DEF vars
<1>21. QED
  BY <1>1, <1>2, <1>3, <1>4, <1>5, <1>6, <1>7, <1>8, <1>9, <1>10, <1>11,
     <1>12, <1>13, <1>14, <1>15, <1>16, <1>17, <1>18, <1>19, <1>20 DEF Next,
     Request, HandlerStep, TaskStep

(* With one client and nothing failing, what the operator enabled runs: at *)
(* rest the service is bound and reported so, after any sequence of        *)
(* starts, stops, restarts, saves and relaunches of the daemon.            *)
THEOREM WhatIsEnabledRuns ==
  ASSUME OneClient, Faults = {}
  PROVE Spec => []EnabledRuns
<1>1. Init => ServiceInv
  BY ServiceAssumption DEF Init, ServiceInv, Procs
<1>2. OwnerInv /\ PortInv /\ ServiceInv /\ [Next]_vars => ServiceInv'
  BY ServiceStep
<1>3. OwnerInv /\ FlagFollowsTask /\ ServiceInv => EnabledRuns
  BY DEF OwnerInv, TypeOK, FlagFollowsTask, ServiceInv, Live, EnabledRuns,
     Quiescent, IsRunning
<1>4. Spec => []PortInv
  BY PortInvariant
<1>5. QED
  BY <1>1, <1>2, <1>3, <1>4, OwnerInvariant, FlagInvariant, PTL DEF Spec
===============================================================================
