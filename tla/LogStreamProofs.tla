---------------------------- MODULE LogStreamProofs ----------------------------
(****************************************************************************)
(* Proofs about LogStream: for any number of logging threads, watchers and  *)
(* entries, and any capacities of the ring, the broadcast channel and the   *)
(* channels to the clients.                                                 *)
(****************************************************************************)
EXTENDS LogStream, SequenceTheorems, FiniteSetTheorems, TLAPS

(* The entries some thread has appended and not yet broadcast.              *)
HeldEntries == {held[p] : p \in Pushers} \ {None}

(* An entry has one place: with the thread that appended it, then in the    *)
(* broadcast, once; the ring holds its entries in the order of appending.   *)
PushInv ==
  /\ \A i \in DOMAIN ring : ring[i] <= appended
  /\ \A i, j \in DOMAIN ring : i < j => ring[i] < ring[j]
  /\ \A i \in DOMAIN sent : sent[i] <= appended /\ sent[i] \notin HeldEntries
  /\ \A i, j \in DOMAIN sent : sent[i] = sent[j] => i = j
  /\ \A p \in Pushers : held[p] <= appended
  /\ \A p, q \in Pushers : held[p] = held[q] /\ held[p] # None => p = q

(* What is on its way to a client or there, in the order of its arrival.    *)
InHand(e) == IF e = None THEN <<>> ELSE <<e>>

(* What the client has, what is being sent, the entry in hand, and what is  *)
(* left of the history.                                                     *)
PipeOf(there, under, e, waiting) ==
  there \o (under \o (InHand(e) \o waiting))
Pipe(w) == PipeOf(got[w], out[w], hand[w], backlog[w])

(* The entries a watcher has received from the broadcast.                   *)
Received(w) == {sent[k] : k \in start[w] .. next[w] - 1}

(* The elements that occur more than once.                                  *)
Repeated(seq) == {e \in Entries : \E i, j \in DOMAIN seq :
                                    i # j /\ seq[i] = e /\ seq[j] = e}

(* The history and what was received pass through the pipe once each, and   *)
(* nothing else does: what is there twice is in both.                       *)
OnePass(w) ==
  /\ state[w] \in {"new", "history"} =>
       /\ got[w] = <<>> /\ out[w] = <<>> /\ hand[w] = None
       /\ start[w] = next[w]
  /\ state[w] = "new" => hist[w] = {} /\ backlog[w] = <<>>
  /\ state[w] \in {"new", "history", "open"} =>
       /\ ToSet(Pipe(w)) \subseteq hist[w] \cup Received(w)
       /\ hist[w] \subseteq ToSet(Pipe(w))
       /\ Repeated(Pipe(w)) \subseteq hist[w] \cap Received(w)
       /\ \A i \in start[w] .. next[w] - 1 :
            sent[i] \in ToSet(Pipe(w)) \/ Overwritten(i)
  /\ Repeated(got[w]) \subseteq hist[w] \cap Received(w)

(* OnePass for every watcher.                                               *)
PipeInv == \A w \in Watchers : OnePass(w)

(* Entries of the history that the broadcast may still bring, or has        *)
(* brought since the subscription began.                                    *)
Twice(w) ==
  hist[w] \cap ({sent[k] : k \in start[w] .. Len(sent)} \cup HeldEntries)

(* An entry can be both in a history and in the broadcast only while its    *)
(* pusher was between the two at the subscription: at most one for each     *)
(* pusher.                                                                  *)
TwiceInv ==
  \A w \in Watchers :
    /\ \A e \in hist[w] : e <= appended
    /\ state[w] \notin {"new", "history"} =>
         Cardinality(Twice(w)) <= Cardinality(Pushers)

(* The inductive invariant of the log stream.                               *)
LogInv == TypeOK /\ PushInv /\ PipeInv /\ TwiceInv

--------------------------------------------------------------------------------
(* Types and positions                                                      *)

(* A sequence of entries is a sequence of numbers.                          *)
LEMMA EntriesAreNumbers ==
  ASSUME NEW seq \in Seq(Entries)
  PROVE  /\ Len(seq) \in Nat /\ DOMAIN seq = 1 .. Len(seq)
         /\ DOMAIN seq \subseteq Nat
         /\ \A i \in DOMAIN seq : seq[i] \in Entries /\ seq[i] \in Nat
<1>1. Entries \subseteq Nat
  BY LogAssumption DEF Entries
<1>2. Len(seq) \in Nat /\ DOMAIN seq = 1 .. Len(seq)
  OBVIOUS
<1>3. \A i \in DOMAIN seq : seq[i] \in Entries
  OBVIOUS
<1>4. 1 .. Len(seq) \subseteq Nat
  BY <1>2
<1> QED
  BY <1>1, <1>2, <1>3, <1>4, Zenon

(* The last elements of a sequence are elements of it, in their order.      *)
LEMMA LastOfElements ==
  ASSUME NEW seq \in Seq(Entries), NEW count \in Nat
  PROVE  /\ LastOf(seq, count) \in Seq(Entries)
         /\ \E d \in Nat : \A i \in DOMAIN LastOf(seq, count) :
              i + d \in DOMAIN seq /\ LastOf(seq, count)[i] = seq[i + d]
<1> DEFINE n == Len(seq)
           m == IF n > count THEN n - count + 1 ELSE 1
           last == LastOf(seq, count)
<1>1. n \in Nat /\ m \in 1 .. n + 1 /\ m - 1 \in Nat
  BY LenProperties
<1>2. last = SubSeq(seq, m, n)
  BY DEF LastOf
<1>3. \A i \in m .. n : seq[i] \in Entries
  BY <1>1
<1> HIDE DEF n, m, last
<1>4. /\ last \in Seq(Entries)
      /\ Len(last) = (IF m <= n THEN n - m + 1 ELSE 0)
      /\ \A i \in 1 .. n - m + 1 : last[i] = seq[m + i - 1]
  BY <1>1, <1>2, <1>3, SubSeqProperties
<1>5. \A i \in DOMAIN last : i + (m - 1) \in DOMAIN seq
                            /\ last[i] = seq[i + (m - 1)]
  <2> SUFFICES ASSUME NEW i \in 1 .. Len(last)
               PROVE  i + (m - 1) \in 1 .. n /\ last[i] = seq[i + (m - 1)]
    BY <1>4, LenProperties DEF n
  <2>1. i \in 1 .. n - m + 1 /\ m + i - 1 = i + (m - 1)
    BY <1>1, <1>4
  <2>2. i + (m - 1) \in 1 .. n
    BY <1>1, <2>1
  <2>3. last[i] = seq[m + i - 1]
    BY <1>4, <2>1
  <2>4. last[i] = seq[i + (m - 1)]
    BY ONLY <2>1, <2>3
  <2> QED
    BY ONLY <2>2, <2>4
<1> QED
  BY <1>1, <1>4, <1>5 DEF last

(* A watcher's request, in turn, keeps the types.                           *)
LEMMA TypeWatch ==
  ASSUME TypeOK, NEW w \in Watchers,
         \/ TakeHistory(w) \/ Refuse(w) \/ Subscribe(w) \/ TaskStep(w)
         \/ ClientReceives(w) \/ ClientLeaves(w)
  PROVE  TypeOK'
<1> USE DEF TypeOK, logVars
<1>1. CASE TakeHistory(w)
  <2>1. Recent \in Seq(Entries)
    BY LastOfElements, LogAssumption DEF Recent
  <2>2. ToSet(Recent) \subseteq Entries
    BY <2>1 DEF ToSet
  <2> QED
    BY <1>1, <2>1, <2>2 DEF TakeHistory
<1>2. CASE Refuse(w)
  BY <1>2 DEF Refuse
<1>3. CASE Subscribe(w)
  BY <1>3 DEF Subscribe
<1>4. CASE Replay(w)
  <2>1. /\ Head(backlog[w]) \in Entries
        /\ Tail(backlog[w]) \in Seq(Entries)
    BY <1>4, HeadTailProperties DEF Replay
  <2> QED
    BY <1>4, <2>1 DEF Replay
<1>5. CASE Receive(w)
  <2>1. sent[next[w]] \in Entries /\ next[w] + 1 <= Len(sent) + 1
    BY <1>5 DEF Receive
  <2>2. next' = [next EXCEPT ![w] = @ + 1]
        /\ hand' = [hand EXCEPT ![w] = sent[next[w]]]
        /\ UNCHANGED <<logVars, state, backlog, out, got, hist, start>>
    BY <1>5 DEF Receive
  <2>3. next' \in [Watchers -> Nat \ {0}]
        /\ hand' \in [Watchers -> Entries \cup {None}]
    BY <2>1, <2>2
  <2>4. \A v \in Watchers : start[v] <= next'[v] /\ next'[v] <= Len(sent) + 1
    BY <2>1, <2>2, SMTT(30)
  <2> QED
    BY <2>2, <2>3, <2>4
<1>6. CASE Lag(w)
  <2>1. /\ next'[w] = Len(sent) - Channel + 1
        /\ \A v \in Watchers \ {w} : next'[v] = next[v]
    BY <1>6 DEF Lag
  <2>2. /\ Len(sent) - Channel + 1 \in Nat \ {0}
        /\ next[w] <= Len(sent) - Channel + 1
        /\ Len(sent) - Channel + 1 <= Len(sent) + 1
    BY <1>6, LogAssumption DEF Lag, Overwritten
  <2>3. start[w] <= Len(sent) - Channel + 1
    BY <2>2
  <2>4. next' \in [Watchers -> Nat \ {0}]
    BY <1>6, <2>2 DEF Lag
  <2> QED
    BY <1>6, <2>1, <2>2, <2>3, <2>4 DEF Lag
<1>7. CASE Send(w)
  <2>1. hand[w] \in Entries
    BY <1>7 DEF Send
  <2>2. Append(out[w], hand[w]) \in Seq(Entries)
    BY <2>1
  <2> QED
    BY <1>7, <2>2 DEF Send
<1>8. CASE SendFails(w)
  BY <1>8 DEF SendFails
<1>9. CASE ClientReceives(w)
  <2>1. /\ Head(out[w]) \in Entries
        /\ Tail(out[w]) \in Seq(Entries)
    BY <1>9, HeadTailProperties DEF ClientReceives
  <2>2. Append(got[w], Head(out[w])) \in Seq(Entries)
    BY <2>1
  <2> QED
    BY <1>9, <2>1, <2>2 DEF ClientReceives
<1>10. CASE ClientLeaves(w)
  BY <1>10 DEF ClientLeaves
<1> QED
  BY <1>1, <1>2, <1>3, <1>4, <1>5, <1>6, <1>7, <1>8, <1>9, <1>10
  DEF TaskStep

(* Logging keeps the types.                                                 *)
LEMMA TypePush ==
  ASSUME TypeOK, NEW p \in Pushers, AppendEntry(p) \/ Broadcast(p)
  PROVE  TypeOK'
<1> USE DEF TypeOK, watchVars
<1>1. CASE AppendEntry(p)
  <2>1. appended + 1 \in Entries
    BY <1>1, LogAssumption DEF AppendEntry, Entries
  <2>2. Append(ring, appended + 1) \in Seq(Entries)
    BY <2>1
  <2>3. LastOf(Append(ring, appended + 1), Capacity) \in Seq(Entries)
    BY <2>2, LastOfElements, LogAssumption
  <2> QED
    BY <1>1, <2>1, <2>3, LogAssumption DEF AppendEntry, Entries
<1>2. CASE Broadcast(p)
  <2>1. held[p] \in Entries
    BY <1>2 DEF Broadcast
  <2>2. /\ Append(sent, held[p]) \in Seq(Entries)
        /\ Len(Append(sent, held[p])) = Len(sent) + 1
    BY <2>1
  <2>3. \A w \in Watchers : next[w] <= Len(sent) + 1 + 1
    OBVIOUS
  <2> QED
    BY <1>2, <2>2, <2>3 DEF Broadcast
<1> QED
  BY <1>1, <1>2

(* Every step keeps the types.                                              *)
LEMMA TypeStep == TypeOK /\ [Next]_vars => TypeOK'
<1> SUFFICES ASSUME TypeOK, [Next]_vars PROVE TypeOK'
  OBVIOUS
<1>1. CASE UNCHANGED vars
  BY <1>1 DEF TypeOK, vars, logVars, watchVars
<1> QED
  BY <1>1, TypePush, TypeWatch DEF Next

(* The types hold at the start.                                             *)
LEMMA TypeInit == Init => TypeOK
BY LogAssumption DEF Init, TypeOK, None

(* Positions are within what was broadcast, and only appended entries are   *)
(* carried, in every state.                                                 *)
THEOREM LogTypeCorrect == Spec => []TypeOK
BY TypeInit, TypeStep, PTL DEF Spec

--------------------------------------------------------------------------------
(* What the threads push                                                    *)

(* What a step of a thread does to the entries being pushed.                *)
LEMMA HeldSteps ==
  ASSUME TypeOK, NEW p \in Pushers
  PROVE  /\ AppendEntry(p) => HeldEntries' = HeldEntries \cup {appended + 1}
         /\ Broadcast(p) /\ PushInv =>
              /\ held[p] \in HeldEntries
              /\ HeldEntries' = HeldEntries \ {held[p]}
<1>1. ASSUME AppendEntry(p)
      PROVE  HeldEntries' = HeldEntries \cup {appended + 1}
  <2>1. /\ held'[p] = appended + 1 /\ appended + 1 # None
        /\ \A q \in Pushers \ {p} : held'[q] = held[q]
        /\ held[p] = None
    BY <1>1 DEF AppendEntry, TypeOK, None
  <2> QED
    BY <2>1 DEF HeldEntries
<1>2. ASSUME Broadcast(p), PushInv
      PROVE  held[p] \in HeldEntries /\ HeldEntries' = HeldEntries \ {held[p]}
  <2>1. /\ held'[p] = None /\ held[p] # None
        /\ \A q \in Pushers \ {p} : held'[q] = held[q]
    BY <1>2 DEF Broadcast, TypeOK
  <2>2. \A q \in Pushers \ {p} : held[q] # held[p]
    BY <1>2, <2>1 DEF PushInv
  <2> QED
    BY <2>1, <2>2 DEF HeldEntries
<1> QED
  BY <1>1, <1>2

(* Every step keeps every entry in one place.                               *)
LEMMA PushStep ==
  ASSUME TypeOK, PushInv, [Next]_vars
  PROVE  PushInv'
<1>1. ASSUME NEW p \in Pushers, AppendEntry(p)
      PROVE  PushInv'
  <2> DEFINE e == appended + 1
             grown == Append(ring, e)
  <2>1. /\ appended \in Nat /\ appended' = e /\ sent' = sent
        /\ ring' = LastOf(grown, Capacity) /\ held' = [held EXCEPT ![p] = e]
        /\ e \in Entries
    BY <1>1, LogAssumption DEF AppendEntry, TypeOK, Entries
  <2>2. /\ grown \in Seq(Entries) /\ DOMAIN grown = 1 .. Len(ring) + 1
        /\ Len(ring) \in Nat /\ DOMAIN ring = 1 .. Len(ring)
        /\ grown[Len(ring) + 1] = e
        /\ \A i \in 1 .. Len(ring) : grown[i] = ring[i]
    BY <2>1 DEF TypeOK
  <2>3. \A i \in DOMAIN ring : ring[i] \in Nat
    BY EntriesAreNumbers DEF TypeOK
  <2> HIDE DEF e, grown
  <2>4. \A i \in DOMAIN grown : grown[i] <= e
    BY <2>1, <2>2, <2>3 DEF PushInv, e
  <2>5. \A i, j \in DOMAIN grown : i < j => grown[i] < grown[j]
    BY <2>1, <2>2, <2>3 DEF PushInv, e
  <2>6. PICK d \in Nat : \A i \in DOMAIN ring' :
          i + d \in DOMAIN grown /\ ring'[i] = grown[i + d]
    <3>1. Capacity \in Nat
      BY LogAssumption
    <3>2. \E d \in Nat : \A i \in DOMAIN LastOf(grown, Capacity) :
            /\ i + d \in DOMAIN grown
            /\ LastOf(grown, Capacity)[i] = grown[i + d]
      BY <2>2, <3>1, LastOfElements, Zenon
    <3> QED
      BY <2>1, <3>2, Zenon
  <2>7. DOMAIN ring' \subseteq Nat
    BY <1>1, TypePush, EntriesAreNumbers DEF TypeOK
  <2>8. \A i \in DOMAIN ring' : ring'[i] <= appended'
    BY <2>1, <2>4, <2>6
  <2>9. \A i, j \in DOMAIN ring' : i < j => ring'[i] < ring'[j]
    BY <2>5, <2>6, <2>7
  <2>10. HeldEntries' = HeldEntries \cup {e}
    BY <1>1, HeldSteps DEF e
  <2>11. \A i \in DOMAIN sent : sent[i] \in Nat
    BY EntriesAreNumbers DEF TypeOK
  <2>12. \A i \in DOMAIN sent : sent[i] <= e /\ sent[i] # e
    BY <2>1, <2>11 DEF PushInv, e
  <2>13. \A q \in Pushers : held[q] \in Nat /\ held[q] <= e /\ held[q] # e
    BY <2>1 DEF PushInv, TypeOK, Entries, None, e
  <2>14. \A q \in Pushers : held'[q] = IF q = p THEN e ELSE held[q]
    BY <2>1 DEF TypeOK
  <2>15. \A q \in Pushers : held'[q] <= e
    BY <2>1, <2>13, <2>14 DEF e
  <2>16. \A q, r \in Pushers : held'[q] = held'[r] /\ held'[q] # None => q = r
    BY <2>13, <2>14 DEF PushInv
  <2> QED
    BY <2>1, <2>8, <2>9, <2>10, <2>12, <2>15, <2>16 DEF PushInv
<1>2. ASSUME NEW p \in Pushers, Broadcast(p)
      PROVE  PushInv'
  <2> DEFINE e == held[p]
             n == Len(sent)
  <2>1. /\ sent' = Append(sent, e) /\ e \in Entries /\ sent \in Seq(Entries)
        /\ appended' = appended /\ ring' = ring
        /\ \A q \in Pushers : held'[q] = IF q = p THEN None ELSE held[q]
    BY <1>2 DEF Broadcast, TypeOK
  <2>2. /\ n \in Nat /\ DOMAIN sent = 1 .. n /\ DOMAIN sent' = 1 .. n + 1
        /\ sent'[n + 1] = e /\ \A i \in 1 .. n : sent'[i] = sent[i]
    BY <2>1
  <2>3. e \in HeldEntries /\ HeldEntries' = HeldEntries \ {e}
    BY <1>2, HeldSteps
  <2>4. e <= appended
    BY DEF PushInv
  <2> HIDE DEF e, n
  <2>5. \A i \in DOMAIN sent' : sent'[i] <= appended'
                               /\ sent'[i] \notin HeldEntries'
    BY <2>1, <2>2, <2>3, <2>4 DEF PushInv
  <2>6. \A i, j \in DOMAIN sent' : sent'[i] = sent'[j] => i = j
    BY <2>2, <2>3 DEF PushInv
  <2>7. \A q \in Pushers : held'[q] <= appended'
    <3>1. None <= appended
      BY DEF TypeOK, None
    <3> QED
      BY <2>1, <3>1 DEF PushInv
  <2> QED
    BY <2>1, <2>5, <2>6, <2>7 DEF PushInv
<1>3. CASE UNCHANGED logVars
  BY <1>3 DEF logVars, PushInv, HeldEntries
<1>4. ASSUME NEW w \in Watchers,
             \/ TakeHistory(w) \/ Refuse(w) \/ Subscribe(w) \/ TaskStep(w)
             \/ ClientReceives(w) \/ ClientLeaves(w)
      PROVE  UNCHANGED logVars
  BY <1>4 DEF TakeHistory, Refuse, Subscribe, TaskStep, Replay, Receive, Lag,
              Send, SendFails, ClientReceives, ClientLeaves
<1> QED
  BY <1>1, <1>2, <1>3, <1>4 DEF Next, vars

--------------------------------------------------------------------------------
(* The way to the client                                                    *)

(* Sequences of entries one after the other.                                *)
LEMMA Joined == \A r, s \in Seq(Entries) : r \o s \in Seq(Entries)
BY ConcatProperties

(* However they are put together.                                           *)
LEMMA JoinedThree ==
  \A r, s, t \in Seq(Entries) : (r \o s) \o t = r \o (s \o t)
BY ConcatAssociative

(* The same of four.                                                        *)
LEMMA JoinedFour ==
  \A r, s, t, u \in Seq(Entries) :
    (r \o s) \o (t \o u) = r \o ((s \o t) \o u)
<1> TAKE r, s, t, u \in Seq(Entries)
<1>1. t \o u \in Seq(Entries)
  BY Joined, Zenon
<1>2. (s \o t) \o u = s \o (t \o u)
  BY JoinedThree, Zenon
<1>3. (r \o s) \o (t \o u) = r \o (s \o (t \o u))
  BY <1>1, JoinedThree, Zenon
<1> QED
  BY <1>2, <1>3, Zenon

(* The first element of a sequence and the rest.                            *)
LEMMA HeadAndTail ==
  ASSUME NEW seq \in Seq(Entries), seq # <<>>
  PROVE  /\ Head(seq) \in Entries /\ Tail(seq) \in Seq(Entries)
         /\ <<Head(seq)>> \in Seq(Entries)
         /\ <<Head(seq)>> \o Tail(seq) = seq
<1>1. Head(seq) \in Entries /\ Tail(seq) \in Seq(Entries)
      /\ Len(Tail(seq)) = Len(seq) - 1 /\ Len(seq) \in Nat \ {0}
      /\ \A i \in 1 .. Len(Tail(seq)) : Tail(seq)[i] = seq[i + 1]
      /\ Head(seq) = seq[1]
  BY HeadTailProperties, EmptySeq
<1> DEFINE first == <<Head(seq)>>
<1>2. first \in Seq(Entries) /\ Len(first) = 1 /\ first[1] = seq[1]
  BY <1>1
<1> HIDE DEF first
<1>3. /\ first \o Tail(seq) \in Seq(Entries)
      /\ Len(first \o Tail(seq)) = Len(seq)
      /\ \A i \in 1 .. Len(seq) : (first \o Tail(seq))[i] = seq[i]
  <2> DEFINE tail == Tail(seq)
             n == Len(seq)
             joined == first \o tail
  <2>1. /\ joined \in Seq(Entries) /\ Len(joined) = Len(first) + Len(tail)
        /\ \A i \in 1 .. Len(first) + Len(tail) : joined[i] =
             IF i <= Len(first) THEN first[i] ELSE tail[i - Len(first)]
    BY <1>1, <1>2, ConcatProperties
  <2>2. /\ n \in Nat \ {0} /\ Len(first) + Len(tail) = n
        /\ \A i \in 1 .. n - 1 : tail[i] = seq[i + 1]
    BY <1>1, <1>2
  <2> HIDE DEF tail, n, joined
  <2>3. ASSUME NEW i \in 1 .. n PROVE joined[i] = seq[i]
    <3>1. CASE i = 1
      BY <1>2, <2>1, <2>2, <3>1
    <3>2. CASE i # 1
      <4>1. i - 1 \in 1 .. n - 1 /\ ~(i <= 1) /\ (i - 1) + 1 = i
        BY <2>2, <3>2
      <4>2. joined[i] = tail[i - 1]
        BY <1>2, <2>1, <2>2, <4>1
      <4> QED
        BY <2>2, <4>1, <4>2
    <3> QED
      BY <3>1, <3>2
  <2> QED
    BY <2>1, <2>2, <2>3 DEF tail, n, joined
<1>4. first \o Tail(seq) = seq
  BY <1>3, SeqEqual
<1> QED
  BY <1>1, <1>2, <1>4 DEF first

(* The entry in hand is a sequence of at most one.                          *)
LEMMA InHandIsSeq ==
  ASSUME NEW e \in Entries \cup {None}
  PROVE  InHand(e) \in Seq(Entries)
BY DEF InHand

(* The task moves an entry from the history to its hand, ...                *)
LEMMA PipeReplays ==
  ASSUME NEW g \in Seq(Entries), NEW o \in Seq(Entries),
         NEW b \in Seq(Entries), b # <<>>
  PROVE  PipeOf(g, o, Head(b), Tail(b)) = PipeOf(g, o, None, b)
<1>1. Head(b) # None /\ <<Head(b)>> \o Tail(b) = b
  BY HeadAndTail, LogAssumption DEF Entries, None
<1>2. <<>> \o b = b
  BY ConcatEmptySeq
<1> QED
  BY <1>1, <1>2 DEF PipeOf, InHand

(* ... from its hand to the channel of the client, ...                      *)
LEMMA PipeSends ==
  ASSUME NEW g \in Seq(Entries), NEW o \in Seq(Entries),
         NEW b \in Seq(Entries), NEW e \in Entries
  PROVE  PipeOf(g, Append(o, e), None, b) = PipeOf(g, o, e, b)
<1>1. e # None /\ <<e>> \in Seq(Entries)
  BY LogAssumption DEF Entries, None
<1>2. Append(o, e) = o \o <<e>>
  BY AppendIsConcat
<1>3. (o \o <<e>>) \o b = o \o (<<e>> \o b)
  BY <1>1, ConcatAssociative
<1>4. <<>> \o b = b
  BY ConcatEmptySeq
<1> QED
  BY <1>1, <1>2, <1>3, <1>4 DEF PipeOf, InHand

(* ... and the client takes it from there.                                  *)
LEMMA PipeDelivers ==
  ASSUME NEW g \in Seq(Entries), NEW o \in Seq(Entries), o # <<>>,
         NEW b \in Seq(Entries), NEW e \in Entries \cup {None}
  PROVE  PipeOf(Append(g, Head(o)), Tail(o), e, b) = PipeOf(g, o, e, b)
<1> DEFINE rest == InHand(e) \o b
           first == <<Head(o)>>
           tail == Tail(o)
<1>1. rest \in Seq(Entries)
  BY InHandIsSeq, ConcatProperties
<1>2. /\ Head(o) \in Entries /\ tail \in Seq(Entries)
      /\ first \in Seq(Entries)
  BY HeadAndTail
<1>3. first \o tail = o
  BY HeadAndTail
<1>4. Append(g, Head(o)) = g \o first
  BY <1>2, AppendIsConcat
<1> HIDE DEF rest, first, tail
<1>5. \A r, s, t \in Seq(Entries) :
        (g \o r) \o (s \o t) = g \o ((r \o s) \o t)
  BY JoinedFour, Zenon
<1>6. \A s, t \in Seq(Entries) :
        (g \o first) \o (s \o t) = g \o ((first \o s) \o t)
  BY <1>2, <1>5, Zenon
<1>7. (g \o first) \o (tail \o rest) = g \o ((first \o tail) \o rest)
  BY <1>1, <1>2, <1>6, Zenon
<1>8. (g \o first) \o (tail \o rest) = g \o (o \o rest)
  BY <1>3, <1>7, Zenon
<1> QED
  BY <1>4, <1>8, Zenon DEF PipeOf, rest, tail

(* An entry received goes to the end of the way.                            *)
LEMMA PipeTakes ==
  ASSUME NEW g \in Seq(Entries), NEW o \in Seq(Entries), NEW e \in Entries
  PROVE  PipeOf(g, o, e, <<>>) = Append(PipeOf(g, o, None, <<>>), e)
<1> DEFINE one == <<e>>
           none == <<>>
<1>1. e # None /\ one \in Seq(Entries) /\ none \in Seq(Entries)
  BY LogAssumption DEF Entries, None
<1>2. one \o none = one /\ none \o none = none /\ o \o none = o
  BY <1>1, ConcatEmptySeq
<1>3. g \o o \in Seq(Entries) /\ g \o (o \o one) = (g \o o) \o one
  BY <1>1, ConcatProperties, ConcatAssociative
<1>4. Append(g \o o, e) = (g \o o) \o one
  BY <1>3, AppendIsConcat
<1>5. PipeOf(g, o, e, none) = g \o (o \o (one \o none))
  BY <1>1 DEF PipeOf, InHand
<1>6. PipeOf(g, o, None, none) = g \o (o \o (none \o none))
  BY DEF PipeOf, InHand
<1> HIDE DEF one
<1> QED
  BY <1>2, <1>3, <1>4, <1>5, <1>6

(* What is on the way is in one of its places.                              *)
LEMMA PipePlaces ==
  ASSUME NEW g \in Seq(Entries), NEW o \in Seq(Entries),
         NEW b \in Seq(Entries), NEW e \in Entries \cup {None}
  PROVE  /\ PipeOf(g, o, e, b) \in Seq(Entries)
         /\ ToSet(PipeOf(g, o, e, b)) \subseteq
              ToSet(b) \cup ({e} \ {None}) \cup ToSet(o) \cup ToSet(g)
<1>1. ASSUME NEW s \in Seq(Entries), NEW t \in Seq(Entries)
      PROVE  s \o t \in Seq(Entries)
             /\ ToSet(s \o t) \subseteq ToSet(s) \cup ToSet(t)
  <2>1. /\ s \o t \in Seq(Entries) /\ Len(s \o t) = Len(s) + Len(t)
        /\ \A i \in 1 .. Len(s) + Len(t) :
             (s \o t)[i] = IF i <= Len(s) THEN s[i] ELSE t[i - Len(s)]
    BY ConcatProperties
  <2>2. /\ Len(s) \in Nat /\ DOMAIN s = 1 .. Len(s)
        /\ Len(t) \in Nat /\ DOMAIN t = 1 .. Len(t)
        /\ DOMAIN (s \o t) = 1 .. Len(s) + Len(t)
    BY <2>1, LenProperties
  <2>3. ASSUME NEW i \in 1 .. Len(s) + Len(t)
        PROVE  (s \o t)[i] \in ToSet(s) \cup ToSet(t)
    <3>1. CASE i <= Len(s)
      BY <2>1, <2>2, <3>1, SMTT(30) DEF ToSet
    <3>2. CASE ~(i <= Len(s))
      <4>1. i - Len(s) \in 1 .. Len(t)
        BY <2>2, <3>2
      <4> QED
        BY <2>1, <2>2, <3>2, <4>1 DEF ToSet
    <3> QED
      BY <3>1, <3>2
  <2> QED
    BY <2>1, <2>2, <2>3 DEF ToSet
<1>2. InHand(e) \in Seq(Entries) /\ ToSet(InHand(e)) \subseteq {e} \ {None}
  BY InHandIsSeq DEF InHand, ToSet
<1> DEFINE rest == InHand(e) \o b
           onward == o \o rest
<1>3. rest \in Seq(Entries)
      /\ ToSet(rest) \subseteq ({e} \ {None}) \cup ToSet(b)
  BY <1>1, <1>2
<1> HIDE DEF rest
<1>4. onward \in Seq(Entries)
      /\ ToSet(onward) \subseteq ToSet(o) \cup ToSet(rest)
  BY <1>1, <1>3
<1> HIDE DEF onward
<1>5. g \o onward \in Seq(Entries)
      /\ ToSet(g \o onward) \subseteq ToSet(g) \cup ToSet(onward)
  BY <1>1, <1>4
<1>6. PipeOf(g, o, e, b) = g \o onward
  BY DEF PipeOf, onward, rest
<1> QED
  BY <1>3, <1>4, <1>5, <1>6

(* What occurs twice in a beginning occurs twice.                           *)
LEMMA RepeatedThere ==
  ASSUME NEW g \in Seq(Entries), NEW o \in Seq(Entries),
         NEW b \in Seq(Entries), NEW e \in Entries \cup {None}
  PROVE  Repeated(g) \subseteq Repeated(PipeOf(g, o, e, b))
<1> DEFINE onward == o \o (InHand(e) \o b)
<1>1. onward \in Seq(Entries)
  BY InHandIsSeq, ConcatProperties
<1>2. PipeOf(g, o, e, b) = g \o onward
  BY DEF PipeOf
<1> HIDE DEF onward
<1>3. /\ g \o onward \in Seq(Entries)
      /\ Len(g \o onward) = Len(g) + Len(onward)
      /\ \A i \in 1 .. Len(g) + Len(onward) :
           (g \o onward)[i] = IF i <= Len(g) THEN g[i] ELSE onward[i - Len(g)]
  BY <1>1, ConcatProperties
<1>4. Len(g) \in Nat /\ Len(onward) \in Nat /\ DOMAIN g = 1 .. Len(g)
      /\ DOMAIN (g \o onward) = 1 .. Len(g) + Len(onward)
  BY <1>1, <1>3, LenProperties
<1>5. \A i \in DOMAIN g : i \in DOMAIN (g \o onward)
                         /\ (g \o onward)[i] = g[i]
  BY <1>3, <1>4
<1> QED
  BY <1>2, <1>5 DEF Repeated

(* One entry more.                                                          *)
LEMMA RepeatedAppend ==
  ASSUME NEW seq \in Seq(Entries), NEW e \in Entries
  PROVE  /\ ToSet(Append(seq, e)) = ToSet(seq) \cup {e}
         /\ Repeated(Append(seq, e)) \subseteq
              Repeated(seq) \cup ({e} \cap ToSet(seq))
<1> DEFINE n == Len(seq)
           grown == Append(seq, e)
<1>1. /\ n \in Nat /\ DOMAIN seq = 1 .. n /\ DOMAIN grown = 1 .. n + 1
      /\ grown[n + 1] = e /\ \A i \in 1 .. n : grown[i] = seq[i]
  BY AppendProperties, LenProperties
<1> HIDE DEF n, grown
<1>2. DOMAIN grown = DOMAIN seq \cup {n + 1}
  BY <1>1
<1>3. ToSet(grown) = ToSet(seq) \cup {e}
  BY <1>1, <1>2 DEF ToSet
<1>4. ASSUME NEW x \in Repeated(grown)
      PROVE  x \in Repeated(seq) \cup ({e} \cap ToSet(seq))
  <2>1. PICK i \in DOMAIN grown, j \in DOMAIN grown :
          i # j /\ grown[i] = x /\ grown[j] = x
    BY DEF Repeated
  <2>2. x \in Entries
    BY DEF Repeated
  <2>3. CASE i = n + 1
    BY <1>1, <1>2, <2>1, <2>3 DEF ToSet
  <2>4. CASE j = n + 1
    BY <1>1, <1>2, <2>1, <2>4 DEF ToSet
  <2>5. CASE i # n + 1 /\ j # n + 1
    BY <1>1, <1>2, <2>1, <2>2, <2>5 DEF Repeated
  <2> QED
    BY <2>3, <2>4, <2>5
<1> QED
  BY <1>3, <1>4 DEF grown

(* A watcher whose request a step does not move, whatever is broadcast.     *)
LEMMA PassSame ==
  ASSUME TypeOK, NEW w \in Watchers, OnePass(w),
         state'[w] = state[w], backlog'[w] = backlog[w], next'[w] = next[w],
         hand'[w] = hand[w], out'[w] = out[w], got'[w] = got[w],
         hist'[w] = hist[w], start'[w] = start[w],
         Len(sent') \in Nat, Len(sent) <= Len(sent'),
         \A i \in 1 .. Len(sent) : sent'[i] = sent[i]
  PROVE  OnePass(w)'
<1>1. Pipe(w)' = Pipe(w)
  BY DEF Pipe
<1>2. \A i \in start[w] .. next[w] - 1 : i \in 1 .. Len(sent)
  BY DEF TypeOK
<1>3. Received(w)' = Received(w)
  BY <1>2 DEF Received
<1>4. \A i \in start[w] .. next[w] - 1 : Overwritten(i) => Overwritten(i)'
  BY <1>2, LogAssumption DEF Overwritten, TypeOK
<1> HIDE DEF Received, Overwritten
<1> QED
  BY <1>1, <1>2, <1>3, <1>4 DEF OnePass

(* A step of the forwarding task or of the client that only moves entries   *)
(* along.                                                                   *)
LEMMA PassMoves ==
  ASSUME TypeOK, TypeOK', NEW w \in Watchers, OnePass(w),
         state[w] \in {"open", "left"}, state'[w] = state[w],
         hist'[w] = hist[w], start'[w] = start[w], next'[w] = next[w],
         sent' = sent, Pipe(w)' = Pipe(w),
         state[w] = "open" \/ got'[w] = got[w]
  PROVE  OnePass(w)'
<1>1. Received(w)' = Received(w) /\ \A i : Overwritten(i)' = Overwritten(i)
  BY DEF Received, Overwritten
<1>2. Repeated(got'[w]) \subseteq Repeated(Pipe(w)')
  BY RepeatedThere DEF TypeOK, Pipe
<1> HIDE DEF Received, Overwritten, Pipe
<1> QED
  BY <1>1, <1>2 DEF OnePass

(* The history is copied: the ring has each entry once.                     *)
LEMMA PassHistory ==
  ASSUME TypeOK, PushInv, NEW w \in Watchers, OnePass(w), TakeHistory(w)
  PROVE  OnePass(w)' /\ \A e \in hist'[w] : e <= appended'
<1> DEFINE r == Recent
<1>1. PICK d \in Nat : \A i \in DOMAIN r : i + d \in DOMAIN ring
                                          /\ r[i] = ring[i + d]
  BY LastOfElements, LogAssumption DEF Recent, TypeOK
<1>2. r \in Seq(Entries) /\ DOMAIN r \subseteq Nat
      /\ DOMAIN ring \subseteq Nat
      /\ \A i \in DOMAIN ring : ring[i] \in Nat
  BY LastOfElements, EntriesAreNumbers, LogAssumption DEF Recent, TypeOK
<1>3. \A i, j \in DOMAIN r : i # j => r[i] # r[j]
  <2> SUFFICES ASSUME NEW i \in DOMAIN r, NEW j \in DOMAIN r, i < j
               PROVE  r[i] # r[j]
    BY <1>2
  <2>1. i + d < j + d
    BY <1>1, <1>2
  <2> QED
    BY <1>1, <1>2, <2>1 DEF PushInv
<1>4. /\ state'[w] = "history" /\ backlog'[w] = r /\ hist'[w] = ToSet(r)
      /\ state[w] = "new"
      /\ UNCHANGED <<appended, sent, next, hand, out, got, start>>
  BY DEF TakeHistory, logVars, TypeOK
<1> HIDE DEF r
<1>5. /\ got'[w] = <<>> /\ out'[w] = <<>> /\ hand'[w] = None
      /\ start'[w] = next'[w]
  BY <1>4 DEF OnePass
<1>6. Pipe(w)' = r
  <2>1. PipeOf(<<>>, <<>>, None, r) = <<>> \o (<<>> \o (<<>> \o r))
    BY DEF PipeOf, InHand
  <2>2. <<>> \o r = r
    BY <1>2, ConcatEmptySeq
  <2> QED
    BY <1>4, <1>5, <2>1, <2>2, Zenon DEF Pipe
<1>7. Repeated(r) = {} /\ Repeated(got'[w]) = {}
  BY <1>3, <1>5 DEF Repeated
<1>8. start'[w] .. next'[w] - 1 = {}
  BY <1>4, <1>5 DEF TypeOK
<1>9. \A e \in hist'[w] : e <= appended'
  BY <1>1, <1>4 DEF PushInv, ToSet
<1> HIDE DEF Pipe
<1>10. OnePass(w)'
  BY <1>4, <1>5, <1>6, <1>7, <1>8 DEF OnePass
<1> QED
  BY <1>9, <1>10

(* An entry is received: if it was there before, it was in the history.     *)
LEMMA PassReceive ==
  ASSUME TypeOK, TypeOK', PushInv, NEW w \in Watchers, OnePass(w), Receive(w)
  PROVE  OnePass(w)'
<1> DEFINE e == sent[next[w]]
           n == next[w]
<1>1. /\ n \in DOMAIN sent /\ e \in Entries
      /\ start[w] \in Nat \ {0} /\ start[w] <= n /\ n \in Nat
      /\ state[w] \in {"open", "left"} /\ hand[w] = None /\ backlog[w] = <<>>
      /\ got[w] \in Seq(Entries) /\ out[w] \in Seq(Entries)
  BY DEF Receive, Forwarding, TypeOK
<1>2. /\ hand'[w] = e /\ next'[w] = n + 1
      /\ UNCHANGED <<sent, state, backlog, out, got, hist, start>>
  BY DEF Receive, TypeOK, logVars
<1>3. Pipe(w)' = Append(Pipe(w), e)
  <2>1. Pipe(w)' = PipeOf(got[w], out[w], e, <<>>)
        /\ Pipe(w) = PipeOf(got[w], out[w], None, <<>>)
    BY <1>1, <1>2, Zenon DEF Pipe
  <2> HIDE DEF e
  <2>2. PipeOf(got[w], out[w], e, <<>>)
          = Append(PipeOf(got[w], out[w], None, <<>>), e)
    BY <1>1, PipeTakes
  <2> QED
    BY <2>1, <2>2, Zenon
<1>4. Pipe(w) \in Seq(Entries)
  BY PipePlaces DEF Pipe, TypeOK
<1>5. start[w] .. next'[w] - 1 = (start[w] .. n - 1) \cup {n}
  BY <1>1, <1>2
<1>6. Received(w)' = Received(w) \cup {e}
  BY <1>2, <1>5 DEF Received
<1>7. e \notin Received(w)
  <2>1. \A k \in start[w] .. n - 1 : k \in DOMAIN sent /\ k # n
    <3>1. Len(sent) \in Nat /\ DOMAIN sent = 1 .. Len(sent)
      BY EntriesAreNumbers DEF TypeOK
    <3> HIDE DEF n
    <3> QED
      BY <1>1, <3>1
  <2> QED
    BY <1>1, <2>1 DEF Received, PushInv
<1>8. \A i : Overwritten(i)' = Overwritten(i)
  BY <1>2 DEF Overwritten
<1>9. /\ ToSet(Pipe(w)') = ToSet(Pipe(w)) \cup {e}
      /\ Repeated(Pipe(w)') \subseteq
           Repeated(Pipe(w)) \cup ({e} \cap ToSet(Pipe(w)))
  BY <1>1, <1>3, <1>4, RepeatedAppend
<1> HIDE DEF Pipe, Received, Overwritten, e, n
<1>10. CASE state[w] = "left"
  BY <1>2, <1>6, <1>10 DEF OnePass
<1>11. CASE state[w] = "open"
  <2>1. /\ ToSet(Pipe(w)) \subseteq hist[w] \cup Received(w)
        /\ hist[w] \subseteq ToSet(Pipe(w))
        /\ Repeated(Pipe(w)) \subseteq hist[w] \cap Received(w)
        /\ Repeated(got[w]) \subseteq hist[w] \cap Received(w)
        /\ \A i \in start[w] .. n - 1 :
             sent[i] \in ToSet(Pipe(w)) \/ Overwritten(i)
    BY <1>11 DEF OnePass, n
  <2>2. /\ ToSet(Pipe(w)') \subseteq hist[w] \cup Received(w)'
        /\ hist[w] \subseteq ToSet(Pipe(w)')
        /\ Repeated(Pipe(w)') \subseteq hist[w] \cap Received(w)'
        /\ Repeated(got[w]) \subseteq hist[w] \cap Received(w)'
    BY <1>6, <1>7, <1>9, <2>1
  <2>3. \A i \in start[w] .. next'[w] - 1 :
          sent[i] \in ToSet(Pipe(w)') \/ Overwritten(i)'
    BY <1>5, <1>8, <1>9, <2>1 DEF e, n
  <2> QED
    BY <1>2, <1>11, <2>2, <2>3 DEF OnePass
<1> QED
  BY <1>1, <1>10, <1>11

(* The receiver is moved past what the channel has overwritten.             *)
LEMMA PassLag ==
  ASSUME TypeOK, NEW w \in Watchers, OnePass(w), Lag(w)
  PROVE  OnePass(w)'
<1>1. /\ next'[w] = Len(sent) - Channel + 1
      /\ UNCHANGED <<sent, state, backlog, hand, out, got, hist, start>>
      /\ state[w] \in {"open", "left"}
  BY DEF Lag, Forwarding, TypeOK, logVars
<1>2. /\ next[w] \in Nat /\ next'[w] \in Nat /\ next[w] <= next'[w]
      /\ start[w] \in Nat
  BY <1>1, LogAssumption DEF Lag, Overwritten, TypeOK
<1>3. start[w] .. next[w] - 1 \subseteq start[w] .. next'[w] - 1
  BY <1>2
<1>4. Received(w) \subseteq Received(w)'
  BY <1>1, <1>3 DEF Received
<1>5. \A i \in start[w] .. next'[w] - 1 : Overwritten(i)'
  BY <1>1, <1>2, LogAssumption DEF Overwritten, TypeOK
<1>6. Pipe(w)' = Pipe(w)
  BY <1>1 DEF Pipe
<1> HIDE DEF Pipe, Received, Overwritten
<1> QED
  BY <1>1, <1>4, <1>5, <1>6 DEF OnePass

(* Every step keeps it.                                                     *)
LEMMA PipeStep ==
  ASSUME TypeOK, TypeOK', PushInv, PipeInv, [Next]_vars
  PROVE  PipeInv'
<1>1. ASSUME NEW p \in Pushers, AppendEntry(p) \/ Broadcast(p)
      PROVE  PipeInv'
  <2>1. UNCHANGED watchVars
    BY <1>1 DEF AppendEntry, Broadcast
  <2>2. /\ Len(sent') \in Nat /\ Len(sent) <= Len(sent')
        /\ \A i \in 1 .. Len(sent) : sent'[i] = sent[i]
    <3>1. CASE AppendEntry(p)
      BY <3>1 DEF AppendEntry, TypeOK
    <3>2. CASE Broadcast(p)
      <4>1. sent \in Seq(Entries) /\ held[p] \in Entries
            /\ sent' = Append(sent, held[p])
        BY <3>2 DEF Broadcast, TypeOK
      <4> QED
        BY <4>1
    <3> QED
      BY <1>1, <3>1, <3>2
  <2>3. ASSUME NEW w \in Watchers PROVE OnePass(w)'
    <3>1. OnePass(w)
      BY DEF PipeInv
    <3> QED
      BY <2>1, <2>2, <3>1, PassSame DEF watchVars
  <2> QED
    BY <2>3 DEF PipeInv
<1>2. ASSUME NEW w \in Watchers,
             \/ TakeHistory(w) \/ Refuse(w) \/ Subscribe(w) \/ TaskStep(w)
             \/ ClientReceives(w) \/ ClientLeaves(w)
      PROVE  PipeInv'
  <2>1. UNCHANGED logVars
    BY <1>2 DEF TakeHistory, Refuse, Subscribe, TaskStep, Replay, Receive,
                Lag, Send, SendFails, ClientReceives, ClientLeaves
  <2>2. ASSUME NEW v \in Watchers \ {w} PROVE OnePass(v)'
    <3>1. OnePass(v)
      BY DEF PipeInv
    <3>2. /\ state'[v] = state[v] /\ backlog'[v] = backlog[v]
          /\ next'[v] = next[v] /\ hand'[v] = hand[v] /\ out'[v] = out[v]
          /\ got'[v] = got[v] /\ hist'[v] = hist[v] /\ start'[v] = start[v]
      BY <1>2, ZenonT(60) DEF TakeHistory, Refuse, Subscribe, TaskStep, Replay, Receive,
                  Lag, Send, SendFails, ClientReceives, ClientLeaves, TypeOK
    <3>3. Len(sent') \in Nat /\ Len(sent) <= Len(sent') /\ sent' = sent
      BY <2>1 DEF logVars, TypeOK
    <3> QED
      BY <3>1, <3>2, <3>3, PassSame
  <2>3. OnePass(w)'
    <3>0. OnePass(w)
      BY DEF PipeInv
    <3>1. CASE TakeHistory(w)
      BY <3>0, <3>1, PassHistory
    <3>2. CASE Refuse(w)
      <4>1. /\ state[w] = "new" /\ state'[w] = "ended"
            /\ UNCHANGED <<sent, next, got, hist, start>>
        BY <3>2 DEF Refuse, logVars, TypeOK
      <4> QED
        BY <3>0, <4>1 DEF OnePass, Received
    <3>3. CASE Subscribe(w)
      <4>1. /\ state[w] = "history" /\ state'[w] = "open"
            /\ start'[w] = next'[w] /\ next'[w] \in Nat
            /\ UNCHANGED <<sent, backlog, hand, out, got, hist>>
        BY <3>3 DEF Subscribe, logVars, TypeOK
      <4>2. start[w] .. next[w] - 1 = {} /\ start'[w] .. next'[w] - 1 = {}
        BY <3>0, <4>1 DEF OnePass, TypeOK
      <4>3. Received(w) = {} /\ Received(w)' = {}
        BY <4>2 DEF Received
      <4>4. Pipe(w)' = Pipe(w)
        BY <4>1 DEF Pipe
      <4> HIDE DEF Pipe, Received
      <4> QED
        BY <3>0, <4>1, <4>2, <4>3, <4>4 DEF OnePass
    <3>4. CASE Replay(w)
      <4>1. /\ state[w] \in {"open", "left"} /\ hand[w] = None
            /\ backlog[w] # <<>>
            /\ hand'[w] = Head(backlog[w]) /\ backlog'[w] = Tail(backlog[w])
            /\ UNCHANGED <<sent, state, next, out, got, hist, start>>
        BY <3>4 DEF Replay, Forwarding, logVars, TypeOK
      <4>2. Pipe(w)' = Pipe(w)
        BY <4>1, PipeReplays DEF Pipe, TypeOK
      <4> QED
        BY <3>0, <4>1, <4>2, PassMoves
    <3>5. CASE Receive(w)
      BY <3>0, <3>5, PassReceive
    <3>6. CASE Lag(w)
      BY <3>0, <3>6, PassLag
    <3>7. CASE Send(w)
      <4>1. /\ state[w] = "open" /\ hand[w] \in Entries
            /\ out'[w] = Append(out[w], hand[w]) /\ hand'[w] = None
            /\ UNCHANGED <<sent, state, backlog, next, got, hist, start>>
        BY <3>7 DEF Send, logVars, TypeOK
      <4>2. Pipe(w)' = Pipe(w)
        BY <4>1, PipeSends DEF Pipe, TypeOK
      <4> QED
        BY <3>0, <4>1, <4>2, PassMoves
    <3>8. CASE SendFails(w)
      <4>1. /\ state'[w] = "ended"
            /\ UNCHANGED <<sent, next, got, hist, start>>
        BY <3>8 DEF SendFails, logVars, TypeOK
      <4> QED
        BY <3>0, <4>1 DEF OnePass, Received
    <3>9. CASE ClientReceives(w)
      <4>1. /\ state[w] = "open" /\ out[w] # <<>>
            /\ got'[w] = Append(got[w], Head(out[w])) /\ out'[w] = Tail(out[w])
            /\ UNCHANGED <<sent, state, backlog, next, hand, hist, start>>
        BY <3>9 DEF ClientReceives, logVars, TypeOK
      <4>2. Pipe(w)' = Pipe(w)
        BY <4>1, PipeDelivers DEF Pipe, TypeOK
      <4> QED
        BY <3>0, <4>1, <4>2, PassMoves
    <3>10. CASE ClientLeaves(w)
      <4>1. /\ state'[w] = "left"
            /\ UNCHANGED <<sent, next, got, hist, start>>
        BY <3>10 DEF ClientLeaves, logVars, TypeOK
      <4> QED
        BY <3>0, <4>1 DEF OnePass, Received
    <3> QED
      BY <1>2, <3>1, <3>2, <3>3, <3>4, <3>5, <3>6, <3>7, <3>8, <3>9, <3>10
      DEF TaskStep
  <2> QED
    BY <2>2, <2>3 DEF PipeInv
<1>3. CASE UNCHANGED vars
  <2>1. Len(sent') \in Nat /\ Len(sent) <= Len(sent') /\ sent' = sent
    BY <1>3 DEF vars, logVars, TypeOK
  <2>2. ASSUME NEW w \in Watchers PROVE OnePass(w)'
    <3>1. OnePass(w)
      BY DEF PipeInv
    <3> QED
      BY <1>3, <2>1, <3>1, PassSame DEF vars, watchVars
  <2> QED
    BY <2>2 DEF PipeInv
<1> QED
  BY <1>1, <1>2, <1>3 DEF Next

--------------------------------------------------------------------------------
(* How many entries reach a client twice                                    *)

(* The entries being pushed are at most as many as the threads.             *)
LEMMA FewHeld ==
  ASSUME TypeOK
  PROVE  /\ IsFiniteSet(HeldEntries)
         /\ Cardinality(HeldEntries) <= Cardinality(Pushers)
<1> DEFINE busy == {p \in Pushers : held[p] # None}
           f == [p \in busy |-> held[p]]
<1>1. IsFiniteSet(busy) /\ Cardinality(busy) <= Cardinality(Pushers)
  BY LogAssumption, FS_Subset
<1>2. f \in Surjection(busy, HeldEntries)
  BY DEF Surjection, HeldEntries
<1> HIDE DEF busy, f
<1>3. /\ IsFiniteSet(HeldEntries)
      /\ Cardinality(HeldEntries) <= Cardinality(busy)
  BY <1>1, <1>2, FS_Surjection
<1>4. /\ Cardinality(Pushers) \in Nat /\ Cardinality(busy) \in Nat
      /\ Cardinality(HeldEntries) \in Nat
  BY <1>1, <1>3, LogAssumption, FS_CardinalityType
<1> QED
  BY <1>1, <1>3, <1>4

(* Entries are finitely many.                                               *)
LEMMA FiniteEntries == \A S \in SUBSET Entries : IsFiniteSet(S)
<1>1. IsFiniteSet(Entries)
  BY LogAssumption, FS_Interval DEF Entries
<1> QED
  BY <1>1, FS_Subset

(* A set of entries within a bounded one is bounded.                        *)
LEMMA FewerEntries ==
  ASSUME NEW S \in SUBSET Entries, NEW T \in SUBSET S,
         Cardinality(S) <= Cardinality(Pushers)
  PROVE  Cardinality(T) <= Cardinality(Pushers)
<1>1. IsFiniteSet(S) /\ IsFiniteSet(T)
  BY FiniteEntries
<1>2. Cardinality(T) <= Cardinality(S)
  BY <1>1, FS_Subset
<1>3. /\ Cardinality(Pushers) \in Nat /\ Cardinality(S) \in Nat
      /\ Cardinality(T) \in Nat
  BY <1>1, LogAssumption, FS_CardinalityType
<1> QED
  BY <1>2, <1>3

(* No step of a thread adds to what can come twice: an entry appended now   *)
(* is in no history copied before, and one broadcast was being pushed.      *)
LEMMA TwicePush ==
  ASSUME TypeOK, PushInv, TwiceInv, NEW p \in Pushers,
         AppendEntry(p) \/ Broadcast(p), NEW w \in Watchers
  PROVE  Twice(w)' \subseteq Twice(w)
<1>1. UNCHANGED <<hist, start>>
  BY DEF AppendEntry, Broadcast, watchVars
<1>2. CASE AppendEntry(p)
  <2>1. sent' = sent /\ HeldEntries' = HeldEntries \cup {appended + 1}
    BY <1>2, HeldSteps DEF AppendEntry
  <2>2. appended + 1 \notin hist[w]
    <3>1. \A e \in hist[w] : e <= appended
      BY DEF TwiceInv
    <3>2. appended \in Nat
      BY DEF TypeOK
    <3>3. ~(appended + 1 <= appended)
      BY <3>2
    <3> QED
      BY <3>1, <3>3
  <2> QED
    BY <1>1, <2>1, <2>2 DEF Twice
<1>3. CASE Broadcast(p)
  <2> DEFINE e == held[p]
             n == Len(sent)
  <2>1. /\ sent \in Seq(Entries) /\ e \in Entries /\ sent' = Append(sent, e)
        /\ start[w] \in Nat \ {0}
    BY <1>3 DEF Broadcast, TypeOK
  <2>2. e \in HeldEntries /\ HeldEntries' = HeldEntries \ {e}
    BY <1>3, HeldSteps
  <2>3. /\ n \in Nat /\ Len(sent') = n + 1 /\ sent'[n + 1] = e
        /\ \A i \in 1 .. n : sent'[i] = sent[i]
    BY <2>1
  <2> HIDE DEF e, n
  <2>4. \A k \in start[w] .. n + 1 : k = n + 1 \/ (k \in start[w] .. n /\ k \in 1 .. n)
    BY <2>1, <2>3
  <2>5. \A k \in start[w] .. Len(sent') :
          sent'[k] \in {sent[i] : i \in start[w] .. n} \cup HeldEntries
    BY <2>2, <2>3, <2>4
  <2> QED
    BY <1>1, <2>2, <2>5 DEF Twice, n
<1> QED
  BY <1>2, <1>3

(* Every step keeps the bound.                                              *)
LEMMA TwiceStep ==
  ASSUME TypeOK, TypeOK', PushInv, PipeInv, TwiceInv, [Next]_vars
  PROVE  TwiceInv'
<1>0. /\ appended \in Nat
      /\ \A w \in Watchers : hist[w] \subseteq Entries
                            /\ Twice(w) \in SUBSET Entries
  BY SMTT(30) DEF TypeOK, Twice
<1>1. ASSUME NEW p \in Pushers, AppendEntry(p) \/ Broadcast(p),
             NEW w \in Watchers
      PROVE  /\ \A e \in hist'[w] : e <= appended'
             /\ state'[w] \notin {"new", "history"} =>
                  Cardinality(Twice(w)') <= Cardinality(Pushers)
  <2>1. state' = state /\ hist' = hist /\ appended <= appended'
        /\ appended' \in Nat
    BY <1>0, <1>1 DEF AppendEntry, Broadcast, watchVars
  <2>2. Twice(w)' \subseteq Twice(w)
    BY <1>1, TwicePush
  <2>3. \A e \in hist[w] : e <= appended'
    <3> SUFFICES ASSUME NEW e \in hist[w] PROVE e <= appended'
      OBVIOUS
    <3>1. e \in Nat /\ e <= appended
      BY <1>0, LogAssumption DEF TwiceInv, Entries
    <3> QED
      BY <1>0, <2>1, <3>1
  <2> HIDE DEF Twice
  <2>4. state[w] \notin {"new", "history"} =>
          Cardinality(Twice(w)') <= Cardinality(Pushers)
    BY <1>0, <2>2, FewerEntries DEF TwiceInv
  <2> QED
    BY <2>1, <2>3, <2>4
<1>2. ASSUME NEW w \in Watchers,
             \/ TakeHistory(w) \/ Refuse(w) \/ Subscribe(w) \/ TaskStep(w)
             \/ ClientReceives(w) \/ ClientLeaves(w),
             NEW v \in Watchers
      PROVE  /\ \A e \in hist'[v] : e <= appended'
             /\ state'[v] \notin {"new", "history"} =>
                  Cardinality(Twice(v)') <= Cardinality(Pushers)
  <2>1. UNCHANGED logVars
    BY <1>2 DEF TakeHistory, Refuse, Subscribe, TaskStep, Replay, Receive,
                Lag, Send, SendFails, ClientReceives, ClientLeaves
  <2>2. HeldEntries' = HeldEntries
    BY <2>1 DEF logVars, HeldEntries
  <2>3. CASE /\ hist'[v] = hist[v] /\ start'[v] = start[v]
             /\ state[v] \notin {"new", "history"} \/ state'[v] = state[v]
    <3>1. Twice(v)' = Twice(v)
      BY <2>1, <2>2, <2>3 DEF Twice, logVars
    <3> QED
      BY <2>1, <2>3, <3>1 DEF TwiceInv, logVars
  <2>4. CASE v = w /\ TakeHistory(w)
    <3>1. OnePass(w) /\ state'[w] = "history"
      BY <2>4 DEF PipeInv, TakeHistory, TypeOK
    <3> QED
      BY <2>4, <3>1, PassHistory
  <2>5. CASE v = w /\ Refuse(w)
    <3>1. hist[w] = {} /\ hist' = hist
      BY <2>5 DEF PipeInv, OnePass, Refuse
    <3>2. Twice(w)' = {}
      BY <3>1 DEF Twice
    <3>3. Cardinality({}) = 0 /\ Cardinality(Pushers) \in Nat
      BY LogAssumption, FS_EmptySet, FS_CardinalityType
    <3> QED
      BY <2>5, <3>1, <3>2, <3>3
  <2>6. CASE v = w /\ Subscribe(w)
    <3>1. /\ start'[w] = Len(sent) + 1 /\ hist' = hist /\ sent' = sent
          /\ appended' = appended /\ Len(sent) \in Nat
      BY <2>6 DEF Subscribe, logVars, TypeOK
    <3>2. start'[w] .. Len(sent') = {}
      BY <3>1
    <3>3. Twice(w)' \subseteq HeldEntries
      BY <2>2, <3>2 DEF Twice
    <3>4. HeldEntries \in SUBSET Entries
      BY DEF HeldEntries, TypeOK
    <3>5. Cardinality(Twice(w)') <= Cardinality(Pushers)
      BY <3>3, <3>4, FewHeld, FewerEntries
    <3> QED
      BY <2>6, <3>1, <3>5 DEF TwiceInv
  <2>7. \/ /\ hist'[v] = hist[v] /\ start'[v] = start[v]
           /\ state[v] \notin {"new", "history"} \/ state'[v] = state[v]
        \/ v = w /\ (TakeHistory(w) \/ Refuse(w) \/ Subscribe(w))
    BY <1>2 DEF TakeHistory, Refuse, Subscribe, TaskStep, Replay, Receive, Lag,
                Send, SendFails, ClientReceives, ClientLeaves, Forwarding,
                TypeOK
  <2> QED
    BY <2>3, <2>4, <2>5, <2>6, <2>7
<1>3. CASE UNCHANGED vars
  <2>1. \A w \in Watchers : Twice(w)' = Twice(w)
    BY <1>3 DEF vars, logVars, watchVars, Twice, HeldEntries
  <2> QED
    BY <1>3, <2>1 DEF TwiceInv, vars, logVars, watchVars
<1>4. CASE \E p \in Pushers : AppendEntry(p) \/ Broadcast(p)
  BY <1>1, <1>4 DEF TwiceInv
<1>5. CASE \E w \in Watchers :
             \/ TakeHistory(w) \/ Refuse(w) \/ Subscribe(w) \/ TaskStep(w)
             \/ ClientReceives(w) \/ ClientLeaves(w)
  BY <1>2, <1>5 DEF TwiceInv
<1> QED
  BY <1>3, <1>4, <1>5 DEF Next

--------------------------------------------------------------------------------
(* The promises of the stream                                               *)

(* Nothing is pushed, copied or carried at the start.                       *)
LEMMA LogInit == Init => LogInv
<1> SUFFICES ASSUME Init PROVE LogInv
  OBVIOUS
<1>1. TypeOK
  BY TypeInit
<1>2. PushInv
  <2>1. ring = <<>> /\ sent = <<>> /\ HeldEntries = {}
        /\ \A p \in Pushers : held[p] = None
    BY DEF Init, HeldEntries
  <2> QED
    BY <2>1 DEF PushInv, None, Init
<1>3. ASSUME NEW w \in Watchers PROVE OnePass(w)
  <2>1. /\ got[w] = <<>> /\ out[w] = <<>> /\ hand[w] = None
        /\ backlog[w] = <<>> /\ state[w] = "new" /\ hist[w] = {}
        /\ start[w] = 1 /\ next[w] = 1
    BY DEF Init
  <2>2. Pipe(w) = <<>>
    BY <2>1 DEF Pipe, PipeOf, InHand
  <2>3. ToSet(<<>>) = {} /\ Repeated(<<>>) = {}
    BY DEF ToSet, Repeated
  <2>4. start[w] .. next[w] - 1 = {}
    BY <2>1
  <2> HIDE DEF Pipe
  <2> QED
    BY <2>1, <2>2, <2>3, <2>4 DEF OnePass
<1>4. TwiceInv
  BY DEF Init, TwiceInv
<1> QED
  BY <1>1, <1>2, <1>3, <1>4 DEF LogInv, PipeInv

(* LogInv holds in every state.                                             *)
LEMMA LogInvariant == Spec => []LogInv
<1>1. LogInv /\ [Next]_vars => LogInv'
  <2> SUFFICES ASSUME LogInv, [Next]_vars PROVE LogInv'
    OBVIOUS
  <2>1. TypeOK'
    BY TypeStep DEF LogInv
  <2> QED
    BY <2>1, PushStep, PipeStep, TwiceStep DEF LogInv
<1> QED
  BY <1>1, LogInit, PTL DEF Spec

(* OnlyOverwrittenLost: however the threads, the task and the client        *)
(* interleave, a client that listens has been sent, or is being sent, the   *)
(* whole history it asked for and every entry broadcast since it subscribed *)
(* that the channel did not have to overwrite.                              *)
THEOREM NothingElseLost == Spec => []OnlyOverwrittenLost
<1>1. LogInv => OnlyOverwrittenLost
  <2> SUFFICES ASSUME LogInv, NEW w \in Watchers, state[w] = "open"
               PROVE  /\ hist[w] \subseteq Carried(w)
                      /\ \A i \in start[w]..(next[w] - 1) :
                           sent[i] \in Carried(w) \/ Overwritten(i)
    BY DEF OnlyOverwrittenLost
  <2>1. OnePass(w) /\ TypeOK
    BY DEF LogInv, PipeInv
  <2>2. ToSet(Pipe(w)) \subseteq Carried(w)
    BY <2>1, PipePlaces DEF TypeOK, Pipe, Carried
  <2> HIDE DEF Pipe, Carried
  <2> QED
    BY <2>1, <2>2 DEF OnePass
<1> QED
  BY <1>1, LogInvariant, PTL

(* FewDuplicates: at most one entry per logging thread reaches a client     *)
(* twice, the one that thread was pushing when the history was copied.      *)
THEOREM DuplicatesAreFew == Spec => []FewDuplicates
<1>1. LogInv => FewDuplicates
  <2> SUFFICES ASSUME LogInv, NEW w \in Watchers
               PROVE  Cardinality({e \in Entries :
                        Cardinality({i \in DOMAIN got[w] : got[w][i] = e}) > 1})
                      <= Cardinality(Pushers)
    BY DEF FewDuplicates
  <2> DEFINE D == {e \in Entries :
                     Cardinality({i \in DOMAIN got[w] : got[w][i] = e}) > 1}
  <2>1. OnePass(w) /\ TypeOK /\ TwiceInv
    BY DEF LogInv, PipeInv
  <2>2. D \subseteq Repeated(got[w])
    <3> SUFFICES ASSUME NEW e \in D PROVE e \in Repeated(got[w])
      OBVIOUS
    <3> DEFINE at == {i \in DOMAIN got[w] : got[w][i] = e}
    <3>1. Cardinality(at) > 1 /\ e \in Entries
      OBVIOUS
    <3>2. at # {}
      <4>1. Cardinality({}) = 0
        BY FS_EmptySet
      <4> QED
        BY <3>1, <4>1
    <3>3. PICK i \in at : TRUE
      BY <3>2
    <3>4. at # {i}
      <4>1. Cardinality({i}) = 1
        BY FS_Singleton
      <4> QED
        BY <3>1, <4>1
    <3>5. PICK j \in at : j # i
      BY <3>3, <3>4
    <3> QED
      BY <3>1, <3>3, <3>5 DEF Repeated
  <2>3. CASE state[w] \in {"new", "history"}
    <3>1. got[w] = <<>>
      BY <2>1, <2>3 DEF OnePass
    <3>2. D = {}
      BY <2>2, <3>1 DEF Repeated
    <3>3. Cardinality({}) = 0 /\ Cardinality(Pushers) \in Nat
      BY LogAssumption, FS_EmptySet, FS_CardinalityType
    <3> HIDE DEF D
    <3>4. Cardinality(D) <= Cardinality(Pushers)
      BY <3>2, <3>3
    <3> QED
      BY <3>4 DEF D
  <2>4. CASE state[w] \notin {"new", "history"}
    <3>1. \A k \in start[w] .. next[w] - 1 : k \in start[w] .. Len(sent)
      BY <2>1 DEF TypeOK
    <3>2. hist[w] \cap Received(w) \subseteq Twice(w)
      BY <3>1 DEF Received, Twice
    <3>3. D \in SUBSET Twice(w) /\ Twice(w) \in SUBSET Entries
      BY <2>1, <2>2, <3>2 DEF OnePass, Twice, TypeOK
    <3>4. Cardinality(Twice(w)) <= Cardinality(Pushers)
      BY <2>1, <2>4 DEF TwiceInv
    <3> HIDE DEF D, Twice
    <3>5. Cardinality(D) <= Cardinality(Pushers)
      BY <3>3, <3>4, FewerEntries
    <3> QED
      BY <3>5 DEF D
  <2> QED
    BY <2>3, <2>4
<1> QED
  BY <1>1, LogInvariant, PTL
================================================================================
