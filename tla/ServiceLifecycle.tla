--------------------------- MODULE ServiceLifecycle ---------------------------
(***************************************************************************)
(* The life of one protocol service (FTP or SFTP) inside the wftpd daemon. *)
(*                                                                         *)
(* BackendState keeps the service in an optional slot behind a mutex; the  *)
(* handlers of the control service start, stop and restart it, each as a   *)
(* sequence of short critical sections with awaits in between, so two      *)
(* requests interleave.  A started server runs its listener in a detached  *)
(* task.  Sources: wftpd/src/state.rs, wftpd/src/main.rs, the service RPCs *)
(* of wftpd/src/control.rs, ftp/src/server.rs and sftp/src/server.rs.      *)
(*                                                                         *)
(* One instance of the module is one service: the two services share       *)
(* nothing here but the config mutex, and a request for "All" is the two   *)
(* requests one after the other.  DropSignals says which service it is.    *)
(***************************************************************************)
EXTENDS FiniteSets

CONSTANTS
  Clients,      (* control connections that send service requests          *)
  Main,         (* the daemon's main task (boot, SIGTERM)                  *)
  Servers,      (* identities of FtpServer / SftpServer values             *)
  NoServer,     (* an empty slot, or no server in a local variable         *)
  DropSignals,  (* TRUE: FtpServer, whose handle owns the only shutdown    *)
                (* sender; FALSE: SftpServer, whose task holds a clone     *)
  Requests,     (* the requests clients may send                           *)
  Faults        (* the faults the environment may inject                   *)

AllRequests == {"start", "stop", "restart", "save"}
AllFaults   == {"start", "bind", "listen", "timeout"}

ASSUME ServiceAssumption ==
  /\ Main \notin Clients
  /\ NoServer \notin Servers
  /\ DropSignals \in BOOLEAN
  /\ Requests \subseteq AllRequests
  /\ Faults \subseteq AllFaults

VARIABLES
  enabled,    (* config.<service>.enabled in memory                        *)
  slot,       (* BackendState.<service>_server                             *)
  phase,      (* where each server's listener task is                      *)
  running,    (* the running flag each server shares with its task         *)
  signalled,  (* the task's shutdown receiver has resolved                 *)
  pc,         (* the next step of each request handler                     *)
  op,         (* the request being handled                                 *)
  mine        (* the handler's local server value                          *)

vars == <<enabled, slot, phase, running, signalled, pc, op, mine>>

Procs  == Clients \cup {Main}
Phases == {"closed", "spawned", "listening", "ending"}
Steps  == {"idle", "apply", "wanted", "unwanted", "check", "create", "install",
           "take", "signal", "wait", "exited"}
Ops    == AllRequests \cup {"none", "boot", "exit"}

TypeOK ==
  /\ enabled \in BOOLEAN
  /\ slot \in Servers \cup {NoServer}
  /\ phase \in [Servers -> Phases]
  /\ running \in [Servers -> BOOLEAN]
  /\ signalled \in [Servers -> BOOLEAN]
  /\ pc \in [Procs -> Steps]
  /\ op \in [Procs -> Ops]
  /\ mine \in [Procs -> Servers \cup {NoServer}]

Init ==
  /\ enabled \in BOOLEAN
  /\ slot = NoServer
  /\ phase = [s \in Servers |-> "closed"]
  /\ running = [s \in Servers |-> FALSE]
  /\ signalled = [s \in Servers |-> FALSE]
  /\ pc = [p \in Procs |-> IF p = Main THEN "apply" ELSE "idle"]
  /\ op = [p \in Procs |-> IF p = Main THEN "boot" ELSE "none"]
  /\ mine = [p \in Procs |-> NoServer]

-----------------------------------------------------------------------------
(* Helpers *)

Bound == {s \in Servers : phase[s] = "listening"}
Live(s) == phase[s] \in {"spawned", "listening"}

(* A server value nobody refers to any more: its identity is reused.       *)
Fresh(s) ==
  /\ phase[s] = "closed"
  /\ s # slot
  /\ \A p \in Procs : mine[p] # s

(* is_ftp_running / is_sftp_running                                        *)
IsRunning == slot # NoServer /\ running[slot]

Goto(p, step) == pc' = [pc EXCEPT ![p] = step]

(* The handler returns: the connection (or main's serve loop) waits again. *)
Return(p) ==
  /\ Goto(p, IF op[p] = "exit" THEN "exited" ELSE "idle")
  /\ op' = [op EXCEPT ![p] = "none"]

(* The handler goes on with its next step.                                 *)
Continue(p, step) == Goto(p, step) /\ UNCHANGED op

(* After a stop, restart_<service> goes on to start; every other ends.     *)
AfterStop(p) ==
  IF op[p] = "restart" THEN Continue(p, "check") ELSE Return(p)

Serving == pc[Main] = "idle"

-----------------------------------------------------------------------------
(* Requests.  The first effect of each handler is one critical section on  *)
(* the config mutex.                                                       *)

Receive(c, request) ==
  /\ request \in Requests
  /\ Serving
  /\ pc[c] = "idle"
  /\ op' = [op EXCEPT ![c] = request]

StartService(c) ==
  /\ Receive(c, "start")
  /\ enabled' = TRUE
  /\ Goto(c, "check")
  /\ UNCHANGED <<slot, phase, running, signalled, mine>>

StopService(c) ==
  /\ Receive(c, "stop")
  /\ enabled' = FALSE
  /\ Goto(c, "take")
  /\ UNCHANGED <<slot, phase, running, signalled, mine>>

RestartService(c) ==
  /\ Receive(c, "restart")
  /\ Goto(c, "take")
  /\ UNCHANGED <<enabled, slot, phase, running, signalled, mine>>

SaveConfig(c) ==
  /\ Receive(c, "save")
  /\ enabled' \in BOOLEAN
  /\ Goto(c, "apply")
  /\ UNCHANGED <<slot, phase, running, signalled, mine>>

-----------------------------------------------------------------------------
(* apply_enabled_flags: snapshot the flag, then compare it with the status. *)

ApplySnapshot(p) ==
  /\ pc[p] = "apply"
  /\ Continue(p, IF enabled THEN "wanted" ELSE "unwanted")
  /\ UNCHANGED <<enabled, slot, phase, running, signalled, mine>>

(* Faulty variant: apply_enabled_flags stops services but starts none.     *)
ApplyOnlyStops(p) ==
  /\ \/ pc[p] = "unwanted" /\ IsRunning /\ Continue(p, "take")
     \/ pc[p] = "unwanted" /\ ~IsRunning /\ Return(p)
     \/ pc[p] = "wanted" /\ Return(p)
  /\ UNCHANGED <<enabled, slot, phase, running, signalled, mine>>

ApplyDecide(p) ==
  /\ \/ pc[p] = "wanted" /\ ~IsRunning /\ Continue(p, "check")
     \/ pc[p] = "unwanted" /\ IsRunning /\ Continue(p, "take")
     \/ pc[p] = "wanted" /\ IsRunning /\ Return(p)
     \/ pc[p] = "unwanted" /\ ~IsRunning /\ Return(p)
  /\ UNCHANGED <<enabled, slot, phase, running, signalled, mine>>

-----------------------------------------------------------------------------
(* start_ftp / start_sftp                                                  *)

(* An occupied slot ends the start with Ok, running or not.                *)
CheckSlot(p) ==
  /\ pc[p] = "check"
  /\ IF slot # NoServer THEN Return(p) ELSE Continue(p, "create")
  /\ UNCHANGED <<enabled, slot, phase, running, signalled, mine>>

(* new() and start(): the running flag is raised and the task spawned;     *)
(* start() returns before the task has tried to bind.                      *)
StartServer(p) ==
  /\ pc[p] = "create"
  /\ \E s \in Servers :
       /\ Fresh(s)
       /\ phase' = [phase EXCEPT ![s] = "spawned"]
       /\ running' = [running EXCEPT ![s] = TRUE]
       /\ signalled' = [signalled EXCEPT ![s] = FALSE]
       /\ mine' = [mine EXCEPT ![p] = s]
  /\ Continue(p, "install")
  /\ UNCHANGED <<enabled, slot>>

(* start() returns Err before it spawns: the TLS builder, the config       *)
(* try_lock, the host key or the bind address.                             *)
StartFails(p) ==
  /\ "start" \in Faults
  /\ pc[p] = "create"
  /\ Return(p)
  /\ UNCHANGED <<enabled, slot, phase, running, signalled, mine>>

(* Faulty variant: the task keeps the FTP shutdown sender alive too.       *)
InstallLeaksSender(p) ==
  /\ pc[p] = "install"
  /\ slot' = mine[p]
  /\ mine' = [mine EXCEPT ![p] = NoServer]
  /\ Return(p)
  /\ UNCHANGED <<enabled, phase, running, signalled>>

(* *slot = Some(server): a server already there is dropped.  Dropping an   *)
(* FtpServer drops its shutdown sender, which resolves the task's receiver *)
(* as a signal does; an SftpServer's task keeps the sender alive.          *)
Install(p) ==
  /\ pc[p] = "install"
  /\ slot' = mine[p]
  /\ signalled' = [s \in Servers |->
                     \/ signalled[s]
                     \/ DropSignals /\ s = slot /\ phase[s] # "closed"]
  /\ mine' = [mine EXCEPT ![p] = NoServer]
  /\ Return(p)
  /\ UNCHANGED <<enabled, phase, running>>

-----------------------------------------------------------------------------
(* stop_ftp / stop_sftp                                                    *)

(* Faulty variant: stop clones the handle and leaves it in the slot.       *)
TakeClones(p) ==
  /\ pc[p] = "take"
  /\ mine' = [mine EXCEPT ![p] = slot]
  /\ IF slot = NoServer THEN AfterStop(p) ELSE Continue(p, "signal")
  /\ UNCHANGED <<enabled, slot, phase, running, signalled>>

(* Faulty variant: stop drops the handle without telling the task.         *)
TakeForgets(p) ==
  /\ pc[p] = "take"
  /\ slot' = NoServer
  /\ AfterStop(p)
  /\ UNCHANGED <<enabled, phase, running, signalled, mine>>

TakeSlot(p) ==
  /\ pc[p] = "take"
  /\ slot' = NoServer
  /\ mine' = [mine EXCEPT ![p] = slot]
  /\ IF slot = NoServer THEN AfterStop(p) ELSE Continue(p, "signal")
  /\ UNCHANGED <<enabled, phase, running, signalled>>

(* Faulty variant: stop waits without having sent the signal.              *)
StopWithoutSignal(p) ==
  /\ pc[p] = "signal"
  /\ running' = [running EXCEPT ![mine[p]] = @ /\ DropSignals]
  /\ Continue(p, "wait")
  /\ UNCHANGED <<enabled, slot, phase, signalled, mine>>

(* stop() sends the shutdown signal, which nobody receives once the task   *)
(* has ended; SftpServer lowers its flag first.                            *)
SignalStop(p) ==
  /\ pc[p] = "signal"
  /\ signalled' = [s \in Servers |->
                     signalled[s] \/ (s = mine[p] /\ phase[s] # "closed")]
  /\ running' = [running EXCEPT ![mine[p]] = @ /\ DropSignals]
  /\ Continue(p, "wait")
  /\ UNCHANGED <<enabled, slot, phase, mine>>

(* Faulty variant: stop returns without waiting for the task.              *)
StopWithoutWait(p) ==
  /\ pc[p] = "wait"
  /\ running' = [running EXCEPT ![mine[p]] = FALSE]
  /\ mine' = [mine EXCEPT ![p] = NoServer]
  /\ AfterStop(p)
  /\ UNCHANGED <<enabled, slot, phase, signalled>>

(* stop() returns, the task having closed or the wait having timed out.    *)
WaitEnds(p) ==
  /\ pc[p] = "wait"
  /\ phase[mine[p]] = "closed" \/ "timeout" \in Faults
  /\ running' = [running EXCEPT ![mine[p]] = FALSE]
  /\ mine' = [mine EXCEPT ![p] = NoServer]
  /\ AfterStop(p)
  /\ UNCHANGED <<enabled, slot, phase, signalled>>

-----------------------------------------------------------------------------
(* The listener task of server s.  The system refuses a second bind of the *)
(* port.                                                                   *)

Bind(s) ==
  /\ phase[s] = "spawned"
  /\ Bound = {}
  /\ phase' = [phase EXCEPT ![s] = "listening"]
  /\ UNCHANGED <<enabled, slot, running, signalled, pc, op, mine>>

BindFails(s) ==
  /\ phase[s] = "spawned"
  /\ Bound # {} \/ "bind" \in Faults
  /\ phase' = [phase EXCEPT ![s] = "ending"]
  /\ UNCHANGED <<enabled, slot, running, signalled, pc, op, mine>>

(* Faulty variant: the accept loop does not poll the shutdown receiver.    *)
ListenerIgnoresSignal(s) ==
  /\ phase[s] = "listening" /\ "listen" \in Faults
  /\ phase' = [phase EXCEPT ![s] = "ending"]
  /\ UNCHANGED <<enabled, slot, running, signalled, pc, op, mine>>

(* The shutdown receiver resolved, or the accept loop failed: the socket   *)
(* is released, and libunftp grants open sessions their grace period.      *)
ListenerStops(s) ==
  /\ \/ Live(s) /\ signalled[s]
     \/ phase[s] = "listening" /\ "listen" \in Faults
  /\ phase' = [phase EXCEPT ![s] = "ending"]
  /\ UNCHANGED <<enabled, slot, running, signalled, pc, op, mine>>

(* Faulty variant: the task leaves the running flag up.                    *)
TaskEndsSilently(s) ==
  /\ phase[s] = "ending"
  /\ phase' = [phase EXCEPT ![s] = "closed"]
  /\ signalled' = [signalled EXCEPT ![s] = FALSE]
  /\ UNCHANGED <<enabled, slot, running, pc, op, mine>>

(* The task's last lines: lower the flag, notify stop().                   *)
TaskEnds(s) ==
  /\ phase[s] = "ending"
  /\ phase' = [phase EXCEPT ![s] = "closed"]
  /\ running' = [running EXCEPT ![s] = FALSE]
  /\ signalled' = [signalled EXCEPT ![s] = FALSE]
  /\ UNCHANGED <<enabled, slot, pc, op, mine>>

-----------------------------------------------------------------------------
(* The daemon: SIGTERM lets requests in flight finish, then stop_all; the  *)
(* service manager launches it again, and it boots from the saved flag.    *)

Terminate ==
  /\ \A p \in Procs : pc[p] = "idle"
  /\ op' = [op EXCEPT ![Main] = "exit"]
  /\ Goto(Main, "take")
  /\ UNCHANGED <<enabled, slot, phase, running, signalled, mine>>

Relaunch ==
  /\ pc[Main] = "exited"
  /\ slot' = NoServer
  /\ phase' = [s \in Servers |-> "closed"]
  /\ running' = [s \in Servers |-> FALSE]
  /\ signalled' = [s \in Servers |-> FALSE]
  /\ op' = [op EXCEPT ![Main] = "boot"]
  /\ Goto(Main, "apply")
  /\ UNCHANGED <<enabled, mine>>

Request(c) ==
  StartService(c) \/ StopService(c) \/ RestartService(c) \/ SaveConfig(c)

HandlerStep(p) ==
  \/ ApplySnapshot(p) \/ ApplyDecide(p)
  \/ CheckSlot(p) \/ StartServer(p) \/ StartFails(p) \/ Install(p)
  \/ TakeSlot(p) \/ SignalStop(p) \/ WaitEnds(p)

TaskStep(s) == Bind(s) \/ BindFails(s) \/ ListenerStops(s) \/ TaskEnds(s)

Next ==
  \/ \E c \in Clients : Request(c)
  \/ \E p \in Procs : HandlerStep(p)
  \/ \E s \in Servers : TaskStep(s)
  \/ Terminate
  \/ Relaunch

Spec == Init /\ [][Next]_vars

(* The async runtime keeps polling handlers and listener tasks; nothing    *)
(* obliges a client to send a request or an operator to stop the daemon.   *)
Fairness ==
  /\ \A p \in Procs : WF_vars(HandlerStep(p))
  /\ \A s \in Servers : WF_vars(TaskStep(s))

FairSpec == Spec /\ Fairness

-----------------------------------------------------------------------------
(* Properties *)

(* Every listener that has not been told to stop is still reachable: it is *)
(* the one in the slot, or a handler holds it on the way into or out of    *)
(* the slot.  A listener outside this set would serve the port with no     *)
(* request able to stop it and a status that says "stopped".               *)
NoOrphan ==
  \A s \in Servers :
    Live(s) /\ ~signalled[s] =>
      \/ slot = s
      \/ \E p \in Procs : mine[p] = s /\ pc[p] \in {"install", "signal"}

(* The status get_status reports is the installed listener's: the flag is  *)
(* up exactly until that server's own task has ended, whatever other       *)
(* requests stop, replace or time out on in the meantime.                  *)
StatusHonest ==
  slot # NoServer => (running[slot] <=> phase[slot] # "closed")

(* A server value has one owner: no two handlers, and no handler and the   *)
(* slot, hold the same one, so no stop can hit another request's server.   *)
ExclusiveOwner ==
  /\ \A p \in Procs : mine[p] # NoServer => mine[p] # slot
  /\ \A p, q \in Procs : p # q /\ mine[p] = mine[q] => mine[p] = NoServer

(* No request in flight and every listener task settled.                   *)
Quiescent ==
  /\ \A p \in Procs : pc[p] = "idle"
  /\ \A s \in Servers : phase[s] \in {"closed", "listening"}

(* What the operator enabled runs: at rest, an enabled service is bound    *)
(* and reported as running.                                                *)
EnabledRuns ==
  Quiescent /\ enabled => IsRunning /\ phase[slot] = "listening"

(* At rest get_status says "running" exactly when the port is served.      *)
StatusMatchesPort == Quiescent => (IsRunning <=> Bound # {})

(* stop() waits for the port to be released so that the next start can     *)
(* bind it: a new listener never finds its predecessor on the port.        *)
NoBindConflict ==
  \A s \in Servers : phase[s] = "spawned" => Bound = {}

(* Every request and the boot are answered even if no stop ever times out: *)
(* a listener that was signalled does end.                                 *)
RequestsReturn ==
  \A p \in Procs :
    pc[p] \notin {"idle", "exited"} ~> pc[p] \in {"idle", "exited"}

(* A listener whose handle was thrown away or stopped ends, and its port   *)
(* is released for the next one.                                           *)
SignalledListenerEnds ==
  \A s \in Servers : Live(s) /\ signalled[s] ~> ~(Live(s) /\ signalled[s])
===============================================================================
