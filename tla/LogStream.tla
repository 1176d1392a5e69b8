------------------------------- MODULE LogStream -------------------------------
(***************************************************************************)
(* The daemon's live log.  Every logging thread appends its entry to a     *)
(* ring buffer under a mutex and then, outside it, broadcasts the entry.   *)
(* A WatchLogs request copies the tail of the ring, subscribes to the      *)
(* broadcast, and a task of its own forwards first the copy and then what  *)
(* it receives to the client, through a bounded channel.                   *)
(* Sources: LogBuffer of common/src/tracing_logger.rs, watch_logs of       *)
(* wftpd/src/control.rs.                                                   *)
(*                                                                         *)
(* An entry is the number of its append.                                   *)
(***************************************************************************)
EXTENDS Naturals, Sequences, FiniteSets, SequencesExt

CONSTANTS
  Pushers,    (* threads that log                                          *)
  Watchers,   (* WatchLogs requests                                        *)
  Capacity,   (* entries the ring keeps                                    *)
  Channel,    (* entries the broadcast channel keeps for slow receivers    *)
  Outbox,     (* entries the channel to a client holds                     *)
  TailCount,  (* tail_count of the request                                 *)
  MaxEntries  (* bound of the model: how many entries are logged           *)

ASSUME LogAssumption ==
  /\ IsFiniteSet(Pushers)
  /\ Capacity \in Nat \ {0}
  /\ Channel \in Nat /\ Channel >= Capacity
  /\ Outbox \in Nat \ {0}
  /\ TailCount \in Nat
  /\ MaxEntries \in Nat

VARIABLES
  appended,   (* entries appended so far                                   *)
  ring,       (* LogBufferInner.entries                                    *)
  held,       (* the entry each thread has appended and not yet broadcast  *)
  sent,       (* all entries broadcast, of which the channel keeps the last *)
  state,      (* where each WatchLogs request is                           *)
  backlog,    (* history the forwarding task has not handed on yet         *)
  next,       (* the receiver's position in sent                           *)
  hand,       (* the entry the task is sending                             *)
  out,        (* the channel to the client                                 *)
  got,        (* what the client received (history)                        *)
  hist,       (* the tail the request copied (history)                     *)
  start       (* where in sent the subscription began (history)            *)

logVars == <<appended, ring, held, sent>>
watchVars == <<state, backlog, next, hand, out, got, hist, start>>
vars == <<logVars, watchVars>>

None == 0
Entries == 1..MaxEntries

(* Positions are within what was broadcast, and nothing is carried that was *)
(* not appended.                                                           *)
TypeOK ==
  /\ appended \in 0..MaxEntries
  /\ ring \in Seq(Entries) /\ sent \in Seq(Entries)
  /\ held \in [Pushers -> Entries \cup {None}]
  /\ state \in [Watchers -> {"new", "history", "open", "left", "ended"}]
  /\ backlog \in [Watchers -> Seq(Entries)]
  /\ start \in [Watchers -> Nat \ {0}] /\ next \in [Watchers -> Nat \ {0}]
  /\ \A w \in Watchers : start[w] <= next[w] /\ next[w] <= Len(sent) + 1
  /\ hand \in [Watchers -> Entries \cup {None}]
  /\ out \in [Watchers -> Seq(Entries)] /\ got \in [Watchers -> Seq(Entries)]
  /\ hist \in [Watchers -> SUBSET Entries]

Init ==
  /\ appended = 0
  /\ ring = <<>>
  /\ held = [p \in Pushers |-> None]
  /\ sent = <<>>
  /\ state = [w \in Watchers |-> "new"]
  /\ backlog = [w \in Watchers |-> <<>>]
  /\ next = [w \in Watchers |-> 1]
  /\ hand = [w \in Watchers |-> None]
  /\ out = [w \in Watchers |-> <<>>]
  /\ got = [w \in Watchers |-> <<>>]
  /\ hist = [w \in Watchers |-> {}]
  /\ start = [w \in Watchers |-> 1]

(* The last count elements of a sequence.                                  *)
LastOf(seq, count) ==
  SubSeq(seq, IF Len(seq) > count THEN Len(seq) - count + 1 ELSE 1, Len(seq))

-----------------------------------------------------------------------------
(* LogBuffer::push *)

AppendEntry(p) ==
  /\ held[p] = None
  /\ appended < MaxEntries
  /\ appended' = appended + 1
  /\ ring' = LastOf(Append(ring, appended'), Capacity)
  /\ held' = [held EXCEPT ![p] = appended']
  /\ UNCHANGED <<sent, watchVars>>

Broadcast(p) ==
  /\ held[p] # None
  /\ sent' = Append(sent, held[p])
  /\ held' = [held EXCEPT ![p] = None]
  /\ UNCHANGED <<appended, ring, watchVars>>

-----------------------------------------------------------------------------
(* watch_logs *)

(* LogBuffer::recent                                                       *)
Recent == LastOf(ring, TailCount)

TakeHistory(w) ==
  /\ state[w] = "new"
  /\ state' = [state EXCEPT ![w] = "history"]
  /\ backlog' = [backlog EXCEPT ![w] = Recent]
  /\ hist' = [hist EXCEPT ![w] = ToSet(Recent)]
  /\ UNCHANGED <<logVars, next, hand, out, got, start>>

(* GUI logging is off: the stream ends at once.                            *)
Refuse(w) ==
  /\ state[w] = "new"
  /\ state' = [state EXCEPT ![w] = "ended"]
  /\ UNCHANGED <<logVars, backlog, next, hand, out, got, hist, start>>

(* Faulty variant: the subscription begins with what the channel holds.    *)
SubscribeFromOldest(w) ==
  /\ state[w] = "history"
  /\ state' = [state EXCEPT ![w] = "open"]
  /\ next' = [next EXCEPT ![w] =
       IF Len(sent) > Channel THEN Len(sent) - Channel + 1 ELSE 1]
  /\ start' = [start EXCEPT ![w] = next'[w]]
  /\ UNCHANGED <<logVars, backlog, hand, out, got, hist>>

(* subscribe() begins with the next entry broadcast; the task is spawned.  *)
Subscribe(w) ==
  /\ state[w] = "history"
  /\ state' = [state EXCEPT ![w] = "open"]
  /\ next' = [next EXCEPT ![w] = Len(sent) + 1]
  /\ start' = [start EXCEPT ![w] = next'[w]]
  /\ UNCHANGED <<logVars, backlog, hand, out, got, hist>>

-----------------------------------------------------------------------------
(* The forwarding task and its client                                      *)

(* The task runs until it finds, sending, that the client has gone.        *)
Forwarding(w) == state[w] \in {"open", "left"}

Replay(w) ==
  /\ Forwarding(w) /\ hand[w] = None
  /\ backlog[w] # <<>>
  /\ hand' = [hand EXCEPT ![w] = Head(backlog[w])]
  /\ backlog' = [backlog EXCEPT ![w] = Tail(@)]
  /\ UNCHANGED <<logVars, state, next, out, got, hist, start>>

Overwritten(position) == position + Channel <= Len(sent)

Receive(w) ==
  /\ Forwarding(w) /\ hand[w] = None
  /\ backlog[w] = <<>>
  /\ next[w] <= Len(sent)
  /\ ~Overwritten(next[w])
  /\ hand' = [hand EXCEPT ![w] = sent[next[w]]]
  /\ next' = [next EXCEPT ![w] = @ + 1]
  /\ UNCHANGED <<logVars, state, backlog, out, got, hist, start>>

(* Faulty variant: a receiver that lags starts again with the newest entry. *)
LagToNewest(w) ==
  /\ Forwarding(w) /\ hand[w] = None
  /\ backlog[w] = <<>>
  /\ Overwritten(next[w])
  /\ next' = [next EXCEPT ![w] = Len(sent)]
  /\ UNCHANGED <<logVars, state, backlog, hand, out, got, hist, start>>

(* Faulty variant: a receiver that lags tries again where it is.           *)
LagStays(w) ==
  /\ Forwarding(w) /\ hand[w] = None
  /\ backlog[w] = <<>>
  /\ Overwritten(next[w])
  /\ UNCHANGED vars

(* RecvError::Lagged: the receiver moves on to the oldest entry kept.      *)
Lag(w) ==
  /\ Forwarding(w) /\ hand[w] = None
  /\ backlog[w] = <<>>
  /\ Overwritten(next[w])
  /\ next' = [next EXCEPT ![w] = Len(sent) - Channel + 1]
  /\ UNCHANGED <<logVars, state, backlog, hand, out, got, hist, start>>

Send(w) ==
  /\ state[w] = "open" /\ hand[w] # None
  /\ Len(out[w]) < Outbox
  /\ out' = [out EXCEPT ![w] = Append(@, hand[w])]
  /\ hand' = [hand EXCEPT ![w] = None]
  /\ UNCHANGED <<logVars, state, backlog, next, got, hist, start>>

SendFails(w) ==
  /\ state[w] = "left" /\ hand[w] # None
  /\ state' = [state EXCEPT ![w] = "ended"]
  /\ hand' = [hand EXCEPT ![w] = None]
  /\ backlog' = [backlog EXCEPT ![w] = <<>>]
  /\ UNCHANGED <<logVars, next, out, got, hist, start>>

ClientReceives(w) ==
  /\ state[w] = "open"
  /\ out[w] # <<>>
  /\ got' = [got EXCEPT ![w] = Append(@, Head(out[w]))]
  /\ out' = [out EXCEPT ![w] = Tail(@)]
  /\ UNCHANGED <<logVars, state, backlog, next, hand, hist, start>>

(* The client drops the stream; what was on its way to it is gone.         *)
ClientLeaves(w) ==
  /\ state[w] = "open"
  /\ state' = [state EXCEPT ![w] = "left"]
  /\ out' = [out EXCEPT ![w] = <<>>]
  /\ UNCHANGED <<logVars, backlog, next, hand, got, hist, start>>

TaskStep(w) == Replay(w) \/ Receive(w) \/ Lag(w) \/ Send(w) \/ SendFails(w)

Next ==
  \/ \E p \in Pushers : AppendEntry(p) \/ Broadcast(p)
  \/ \E w \in Watchers :
       \/ TakeHistory(w) \/ Refuse(w) \/ Subscribe(w)
       \/ TaskStep(w)
       \/ ClientReceives(w) \/ ClientLeaves(w)

Spec == Init /\ [][Next]_vars

(* The runtime polls the task, and a client that stays reads its stream.   *)
Fairness ==
  \A w \in Watchers : WF_vars(TaskStep(w)) /\ WF_vars(ClientReceives(w))

FairSpec == Spec /\ Fairness

-----------------------------------------------------------------------------
(* Properties *)

(* Entries on their way to the client, or there.                           *)
Carried(w) ==
  ToSet(backlog[w]) \cup ({hand[w]} \ {None}) \cup ToSet(out[w])
    \cup ToSet(got[w])

(* While the client listens, nothing promised to it is lost but what the   *)
(* broadcast channel had to overwrite: the copied history, and every entry *)
(* broadcast since it subscribed, is on its way, or still to be received.  *)
OnlyOverwrittenLost ==
  \A w \in Watchers : state[w] = "open" =>
    /\ hist[w] \subseteq Carried(w)
    /\ \A i \in start[w]..(next[w] - 1) :
         sent[i] \in Carried(w) \/ Overwritten(i)

(* The same entry reaches a client twice only if it was being pushed when  *)
(* the history was copied: at most one per logging thread.                 *)
FewDuplicates ==
  \A w \in Watchers :
    Cardinality({e \in Entries :
        Cardinality({i \in DOMAIN got[w] : got[w][i] = e}) > 1})
      <= Cardinality(Pushers)

(* What is broadcast to a client that stays reaches it, however slow it    *)
(* is, unless the channel overwrote it meanwhile.                          *)
EntriesArrive ==
  \A w \in Watchers : \A i \in Entries :
    state[w] = "open" /\ i \in start[w]..Len(sent)
      ~> \/ state[w] # "open" \/ Overwritten(i)
         \/ i <= Len(sent) /\ sent[i] \in ToSet(got[w])
================================================================================
