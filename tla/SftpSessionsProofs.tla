-------------------------- MODULE SftpSessionsProofs ---------------------------
(****************************************************************************)
(* Proofs about SftpSessions: for any number of connections, channels,      *)
(* users and accounts, and any speed limit.                                 *)
(****************************************************************************)
EXTENDS SftpSessions, FiniteSetTheorems, TLAPS

(* A request under way is of a user, on a connection that is not past its   *)
(* login and has an attempt left; past it, the connection has a user and a  *)
(* home that was checked.                                                   *)
AuthInv ==
  \A s \in Sessions :
    /\ conn[s].stage # "idle" =>
         /\ conn[s].who \in Users /\ ~conn[s].authenticated
         /\ conn[s].tries < MaxAttempts
    /\ conn[s].authenticated =>
         conn[s].username \in Users /\ conn[s].home_dir \in UsableHomes

(* The log mutex is free, with a reader, or with the writer of one entry.   *)
LoggerOK ==
  \/ logger = Free
  \/ \E r \in Readers : logger = <<[by |-> r]>>
  \/ \E e \in EntryType : logger = <<[by |-> e.by, entry |-> e]>>

(* What an answer leaves of the connection it is about.                     *)
Answered(s, ok) ==
  /\ conn' \in [Sessions -> HandlerType]
  /\ \A t \in Sessions \ {s} : conn'[t] = conn[t]
  /\ conn'[s].stage = "idle"
  /\ conn'[s].tries = conn[s].tries + 1
  /\ ok => /\ conn'[s].authenticated
           /\ conn'[s].username = conn[s].who
           /\ conn'[s].home_dir = conn[s].found
  /\ ~ok => /\ (conn'[s].authenticated <=> conn[s].authenticated)
            /\ conn'[s].username = conn[s].username
            /\ conn'[s].home_dir = conn[s].home_dir

-------------------------------------------------------------------------------
(* Types                                                                    *)

(* Homes include the home of no account.                                    *)
LEMMA NoneIsHome == None \in Homes
<1>1. NoAccount \in Accounts \cup {NoAccount} /\ NoAccount.home = None
  BY DEF NoAccount, None
<1> QED
  BY <1>1 DEF Homes

(* An audited entry goes to the mutex or to the missed ones.                *)
LEMMA AuditTypes ==
  ASSUME TypeOK, NEW e \in EntryType, Audit(e.by, e)
  PROVE  LoggerOK' /\ missed' \subseteq EntryType
BY DEF TypeOK, Audit, LoggerOK

(* An entry of the audit trail of the logins.                               *)
LEMMA LoginEntry ==
  ASSUME TypeOK, NEW s \in Sessions, NEW u \in Users, NEW ok \in BOOLEAN,
         conn[s].tries < MaxAttempts
  PROVE  LET e == Entry(s, "SFTP", u, conn[s].tries + 1, ok)
         IN  /\ e \in EntryType
             /\ e.by = s /\ e.op = "SFTP" /\ e.user = u
             /\ e.n = conn[s].tries + 1 /\ e.success = ok
<1>1. conn[s].tries + 1 \in 0 .. MaxAttempts
  BY SessionsAssumption DEF TypeOK, HandlerType
<1> QED
  BY <1>1 DEF Entry, EntryType, Actors

(* The connection's handler after each step of a request.                   *)
LEMMA HandlerSteps ==
  ASSUME NEW h \in HandlerType, h.tries + 1 \in 0 .. MaxAttempts
  PROVE  /\ Ended(h) \in HandlerType
         /\ Ended(h).stage = "idle" /\ Ended(h).tries = h.tries + 1
         /\ (Ended(h).authenticated <=> h.authenticated)
         /\ Ended(h).username = h.username /\ Ended(h).home_dir = h.home_dir
         /\ LoggedIn(h) \in HandlerType
         /\ LoggedIn(h).stage = "idle" /\ LoggedIn(h).tries = h.tries + 1
         /\ LoggedIn(h).authenticated
         /\ LoggedIn(h).username = h.who /\ LoggedIn(h).home_dir = h.found
         /\ Checked(h) \in HandlerType
         /\ Checked(h).stage = "checked" /\ Checked(h).who = h.who
         /\ Checked(h).tries = h.tries
         /\ (Checked(h).authenticated <=> h.authenticated)
         /\ Checked(h).username = h.username
         /\ Checked(h).home_dir = h.home_dir
<1>1. /\ Ended(h) \in HandlerType
      /\ Ended(h).stage = "idle" /\ Ended(h).tries = h.tries + 1
      /\ (Ended(h).authenticated <=> h.authenticated)
      /\ Ended(h).username = h.username /\ Ended(h).home_dir = h.home_dir
  BY NoneIsHome DEF Ended, HandlerType
<1>2. h.found \in Homes /\ h.who \in Users \cup {NoUser}
  BY DEF HandlerType
<1>3. /\ LoggedIn(h) \in HandlerType
      /\ LoggedIn(h).stage = "idle" /\ LoggedIn(h).tries = h.tries + 1
      /\ LoggedIn(h).authenticated
      /\ LoggedIn(h).username = h.who /\ LoggedIn(h).home_dir = h.found
  BY <1>1, <1>2 DEF LoggedIn, HandlerType
<1>4. /\ Checked(h) \in HandlerType
      /\ Checked(h).stage = "checked" /\ Checked(h).who = h.who
      /\ Checked(h).tries = h.tries
      /\ (Checked(h).authenticated <=> h.authenticated)
      /\ Checked(h).username = h.username
      /\ Checked(h).home_dir = h.home_dir
  BY DEF Checked, HandlerType
<1> QED
  BY <1>1, <1>3, <1>4

(* The user was found: what the look-up writes into the handler and what it *)
(* leaves as it was.                                                        *)
LEMMA HandlerResolved ==
  ASSUME TypeOK, NEW h \in HandlerType, NEW u \in Users, NEW via \in Method
  PROVE  /\ Resolved(h, u, via) \in HandlerType
         /\ Resolved(h, u, via).stage = "resolved"
         /\ Resolved(h, u, via).who = u
         /\ Resolved(h, u, via).tries = h.tries
         /\ (Resolved(h, u, via).authenticated <=> h.authenticated)
         /\ Resolved(h, u, via).username = h.username
         /\ Resolved(h, u, via).home_dir = h.home_dir
<1>1. account[u].home \in Homes
  BY DEF TypeOK, Homes
<1> QED
  BY <1>1 DEF Resolved, HandlerType

(* A refused request.                                                       *)
LEMMA RejectIs ==
  ASSUME TypeOK, NEW s \in Sessions, NEW u \in Users,
         conn[s].tries < MaxAttempts, reject(s, u)
  PROVE  Answered(s, FALSE) /\ LoggerOK' /\ missed' \subseteq EntryType
<1>1. /\ conn[s].tries + 1 \in 0 .. MaxAttempts
      /\ conn \in [Sessions -> HandlerType]
      /\ conn[s] \in HandlerType
  BY SessionsAssumption DEF TypeOK, HandlerType
<1>2. conn' = [conn EXCEPT ![s] = Ended(conn[s])]
  BY DEF reject
<1>3. Answered(s, FALSE)
  BY <1>1, <1>2, HandlerSteps DEF Answered
<1>4. LoggerOK' /\ missed' \subseteq EntryType
  BY LoginEntry, AuditTypes DEF reject
<1> QED
  BY <1>3, <1>4

(* A request that is accepted.                                              *)
LEMMA LoginIs ==
  ASSUME TypeOK, AuthInv, NEW s \in Sessions, conn[s].stage = "checked",
         conn[s].found \in UsableHomes, validate_and_set_home_dir(s)
  PROVE  Answered(s, TRUE) /\ LoggerOK' /\ missed' \subseteq EntryType
<1>1. /\ conn[s].tries + 1 \in 0 .. MaxAttempts
      /\ conn \in [Sessions -> HandlerType]
      /\ conn[s] \in HandlerType
      /\ conn[s].tries < MaxAttempts /\ conn[s].who \in Users
  BY SessionsAssumption DEF TypeOK, HandlerType, AuthInv
<1>2. conn' = [conn EXCEPT ![s] = LoggedIn(conn[s])]
  BY DEF validate_and_set_home_dir
<1>3. Answered(s, TRUE)
  BY <1>1, <1>2, HandlerSteps DEF Answered
<1> DEFINE e == Entry(s, "SFTP", conn[s].who, conn[s].tries + 1, TRUE)
<1>4. e \in EntryType /\ e.by = s
  BY <1>1, LoginEntry
<1>5. Audit(s, e)
  BY DEF validate_and_set_home_dir
<1> HIDE DEF e
<1>6. LoggerOK' /\ missed' \subseteq EntryType
  BY <1>4, <1>5, AuditTypes
<1> QED
  BY <1>3, <1>6

(* A step of a request that is not its last.                                *)
Proceeds(s) ==
  /\ conn' \in [Sessions -> HandlerType]
  /\ \A t \in Sessions \ {s} : conn'[t] = conn[t]
  /\ conn'[s].who \in Users
  /\ conn'[s].tries = conn[s].tries /\ conn[s].tries < MaxAttempts
  /\ ~conn[s].authenticated /\ ~conn'[s].authenticated
  /\ conn'[s].username = conn[s].username
  /\ UNCHANGED <<logger, missed>>

(* A connection replaced by a handler that is not authenticated and has the *)
(* same tries proceeds.                                                     *)
LEMMA ProceedsIf ==
  ASSUME TypeOK, NEW s \in Sessions, NEW h \in HandlerType,
         conn' = [conn EXCEPT ![s] = h],
         h.who \in Users, h.tries = conn[s].tries, ~h.authenticated,
         h.username = conn[s].username,
         ~conn[s].authenticated, conn[s].tries < MaxAttempts,
         UNCHANGED <<logger, missed>>
  PROVE  Proceeds(s)
<1>1. conn \in [Sessions -> HandlerType]
  BY DEF TypeOK
<1>2. conn'[s] = h /\ conn' \in [Sessions -> HandlerType]
      /\ \A t \in Sessions \ {s} : conn'[t] = conn[t]
  BY <1>1
<1> QED
  BY <1>2 DEF Proceeds

(* An answer: LOGIN, or a refusal, with its entry.                          *)
Answers(s, u, ok) ==
  /\ Answered(s, ok) /\ u \in Users
  /\ conn[s].tries < MaxAttempts /\ ~conn[s].authenticated
  /\ ok => conn[s].who = u /\ conn[s].found \in UsableHomes
  /\ Audit(s, Entry(s, "SFTP", u, conn[s].tries + 1, ok))
  /\ LoggerOK' /\ missed' \subseteq EntryType

(* Every step of an authentication is one of the two, and changes nothing   *)
(* but the connection and the audit trail.                                  *)
LEMMA AuthenticationSteps ==
  ASSUME TypeOK, AuthInv, NEW s \in Sessions, Authentication(s)
  PROVE  /\ Proceeds(s) \/ \E u \in Users, ok \in BOOLEAN : Answers(s, u, ok)
         /\ UNCHANGED <<adminVars, channel, logVars, now>>
<1>1. UNCHANGED <<adminVars, channel, logVars, now>>
  BY DEF Authentication, AuthRequest, CheckPassword, CheckKey,
     validate_and_set_home_dir
<1>2. conn \in [Sessions -> HandlerType] /\ conn[s] \in HandlerType
      /\ conn[s].tries \in Nat
  BY SessionsAssumption DEF TypeOK, HandlerType
<1>3. ASSUME NEW u \in Users, ~conn[s].authenticated,
             conn[s].tries < MaxAttempts, reject(s, u)
      PROVE  Answers(s, u, FALSE)
  BY <1>3, RejectIs DEF Answers, reject
<1>4. conn[s].tries < MaxAttempts => conn[s].tries + 1 \in 0 .. MaxAttempts
  BY <1>2, SessionsAssumption
<1>5. ASSUME NEW u \in Users, NEW via \in Method, AuthRequest(s, u, via)
      PROVE  Proceeds(s) \/ Answers(s, u, FALSE)
  <2>1. ~conn[s].authenticated /\ conn[s].tries < MaxAttempts
    BY <1>5 DEF AuthRequest, Idle
  <2>2. CASE resolve_user(u)
    <3>1. /\ conn' = [conn EXCEPT ![s] = Resolved(conn[s], u, via)]
          /\ UNCHANGED <<logger, missed>>
      BY <1>5, <2>2 DEF AuthRequest
    <3> DEFINE h == Resolved(conn[s], u, via)
    <3>2. /\ h \in HandlerType /\ h.who = u /\ h.tries = conn[s].tries
          /\ (h.authenticated <=> conn[s].authenticated)
          /\ h.username = conn[s].username
          /\ conn' = [conn EXCEPT ![s] = h]
      BY <1>2, <3>1, HandlerResolved
    <3> HIDE DEF h
    <3> QED
      BY <2>1, <3>1, <3>2, ProceedsIf
  <2> QED
    BY <1>3, <1>5, <2>1, <2>2 DEF AuthRequest
<1>6. ASSUME NEW knows \in BOOLEAN, CheckPassword(s, knows) \/ CheckKey(s, knows)
      PROVE  Proceeds(s) \/ Answers(s, conn[s].who, FALSE)
  <2>1. /\ ~conn[s].authenticated /\ conn[s].tries < MaxAttempts
        /\ conn[s].who \in Users
    BY <1>6 DEF CheckPassword, CheckKey, AuthInv
  <2>2. CASE reject(s, conn[s].who)
    BY <1>3, <2>1, <2>2
  <2>3. CASE /\ conn' = [conn EXCEPT ![s] = Checked(conn[s])]
             /\ UNCHANGED <<logger, missed>>
    <3> DEFINE h == Checked(conn[s])
    <3>1. /\ h \in HandlerType /\ h.who = conn[s].who
          /\ h.tries = conn[s].tries
          /\ (h.authenticated <=> conn[s].authenticated)
          /\ h.username = conn[s].username
          /\ conn' = [conn EXCEPT ![s] = h]
      BY <1>2, <1>4, <2>1, <2>3, HandlerSteps
    <3> HIDE DEF h
    <3> QED
      BY <2>1, <2>3, <3>1, ProceedsIf
  <2> QED
    BY <1>6, <2>2, <2>3 DEF CheckPassword, CheckKey
<1>7. ASSUME validate_and_set_home_dir(s)
      PROVE  \E ok \in BOOLEAN : Answers(s, conn[s].who, ok)
  <2>1. /\ ~conn[s].authenticated /\ conn[s].tries < MaxAttempts
        /\ conn[s].who \in Users /\ conn[s].stage = "checked"
    BY <1>7 DEF validate_and_set_home_dir, AuthInv
  <2>2. CASE conn[s].found \in UsableHomes
    <3>1. Answered(s, TRUE) /\ LoggerOK' /\ missed' \subseteq EntryType
      BY <1>7, <2>1, <2>2, LoginIs
    <3>2. Answers(s, conn[s].who, TRUE)
      BY <1>7, <2>1, <2>2, <3>1 DEF Answers, validate_and_set_home_dir
    <3> QED
      BY <3>2
  <2>3. CASE conn[s].found \notin UsableHomes
    BY <1>3, <1>7, <2>1, <2>3 DEF validate_and_set_home_dir
  <2> QED
    BY <2>2, <2>3
<1>8. Proceeds(s) \/ \E u \in Users, ok \in BOOLEAN : Answers(s, u, ok)
  <2>1. \A u \in Users : Answers(s, u, FALSE) =>
                           \E v \in Users, ok \in BOOLEAN : Answers(s, v, ok)
    OBVIOUS
  <2>2. \A ok \in BOOLEAN : Answers(s, conn[s].who, ok) => conn[s].who \in Users
    BY DEF Answers
  <2> QED
    BY <1>5, <1>6, <1>7, <2>1, <2>2 DEF Authentication
<1> QED
  BY <1>1, <1>8

-------------------------------------------------------------------------------
(* The speed limiter                                                        *)

(* What a handler has answered, and the tokens it has left, were earned     *)
(* twice at most: once as time since the handler began, and once as time    *)
(* slept, which the next call credits again.  Every call rounds its sleep   *)
(* down by less than a tick.  While a call sleeps, its own sleep makes up   *)
(* what its tokens are short of.                                            *)
Limiter(h, t) ==
  /\ h.since <= h.last_check /\ h.last_check <= t /\ h.last_check <= h.until
  /\ h.wanted = 0 =>
       /\ h.until <= t
       /\ (h.answered + h.tokens) * Second
            <= Rate * (h.last_check - h.since) + Rate * (h.until - h.since)
                 + (Rate - 1) * h.calls
  /\ h.wanted > 0 =>
       /\ h.calls > 0
       /\ (h.answered + h.tokens) * Second
            <= 2 * Rate * (h.last_check - h.since) + (Rate - 1) * (h.calls - 1)
       /\ h.tokens < h.wanted =>
            (h.wanted - h.tokens) * Second
              <= Rate * (h.until - h.last_check) + (Rate - 1)

(* The limiter of every channel that runs keeps its books.                  *)
LimiterInv ==
  \A s \in Sessions, c \in Channels :
    Runs(s, c) => Limiter(channel[s][c], now)

(* Division and products.                                                   *)
LEMMA DivBounds ==
  ASSUME NEW a \in Nat, NEW d \in Nat \ {0}
  PROVE  a \div d \in Nat /\ d * (a \div d) <= a /\ a <= d * (a \div d) + (d - 1)
BY Z3

(* A product by a natural number is monotone.                               *)
LEMMA ProductGrows ==
  ASSUME NEW k \in Nat, NEW a \in Int, NEW b \in Int, a <= b
  PROVE  k * a <= k * b
BY Z3

(* The natural numbers are closed under products.                           *)
LEMMA ProductIsNat ==
  ASSUME NEW a \in Nat, NEW b \in Nat
  PROVE  a * b \in Nat
BY Z3

(* Before a call: what was earned since the last one is at most what the    *)
(* time since then is worth.                                                *)
LEMMA EarnedWithin ==
  ASSUME NEW R \in Nat \ {0}, NEW S \in Nat \ {0},
         NEW sent \in Nat, NEW tokens \in Nat, NEW calls \in Nat,
         NEW since \in Nat, NEW last \in Nat, NEW until \in Nat, NEW t \in Nat,
         NEW earned \in Nat,
         since <= last, last <= t, until <= t,
         S * earned <= (t - last) * R,
         (sent + tokens) * S
           <= R * (last - since) + R * (until - since) + (R - 1) * calls
  PROVE  (sent + (tokens + earned)) * S
           <= 2 * R * (t - since) + (R - 1) * calls
<1>1. R * (until - since) <= R * (t - since)
  BY ProductGrows
<1>2. R * (last - since) + (t - last) * R = R * (t - since)
  BY Z3
<1>3. (sent + (tokens + earned)) * S = (sent + tokens) * S + S * earned
  BY Z3
<1>4. 2 * R * (t - since) = R * (t - since) + R * (t - since)
  BY Z3
<1> QED
  BY <1>1, <1>2, <1>3, <1>4, Z3

(* After a call that was short: its sleep is worth what it was short of,    *)
(* but for the rounding.                                                    *)
LEMMA SleptWithin ==
  ASSUME NEW R \in Nat \ {0}, NEW S \in Nat \ {0},
         NEW sent \in Nat, NEW tokens \in Nat, NEW calls \in Nat \ {0},
         NEW since \in Nat, NEW last \in Nat, NEW until \in Nat,
         NEW wanted \in Nat, tokens < wanted,
         (sent + tokens) * S <= 2 * R * (last - since) + (R - 1) * (calls - 1),
         (wanted - tokens) * S <= R * (until - last) + (R - 1)
  PROVE  (sent + wanted) * S
           <= R * (last - since) + R * (until - since) + (R - 1) * calls
<1>1. (sent + wanted) * S = (sent + tokens) * S + (wanted - tokens) * S
  BY Z3
<1>2. 2 * R * (last - since) + R * (until - last)
        = R * (last - since) + R * (until - since)
  BY Z3
<1>3. (R - 1) * (calls - 1) + (R - 1) = (R - 1) * calls
  BY Z3
<1> QED
  BY <1>1, <1>2, <1>3, Z3

(* After a call that had tokens enough.                                     *)
LEMMA PaidWithin ==
  ASSUME NEW R \in Nat \ {0}, NEW S \in Nat \ {0}, NEW x \in Nat,
         NEW calls \in Nat \ {0},
         NEW since \in Nat, NEW last \in Nat, NEW until \in Nat,
         last <= until,
         x * S <= 2 * R * (last - since) + (R - 1) * (calls - 1)
  PROVE  x * S <= R * (last - since) + R * (until - since) + (R - 1) * calls
<1>1. R * (last - since) <= R * (until - since)
  BY ProductGrows
<1>2. (R - 1) * (calls - 1) <= (R - 1) * calls
  BY ProductGrows
<1>3. 2 * R * (last - since) = R * (last - since) + R * (last - since)
  BY Z3
<1> QED
  BY <1>1, <1>2, <1>3, Z3

(* The fields no step of a handler changes.                                 *)
SameOwner(h, g) ==
  /\ g \in FileHandlerType
  /\ g.state = "runs" /\ g.user = h.user /\ g.home = h.home
  /\ g.limited = h.limited /\ g.since = h.since

(* OPEN and CLOSE.                                                          *)
LEMMA ReadingKeeps ==
  ASSUME NEW h \in FileHandlerType, NEW on \in BOOLEAN, NEW t \in Nat,
         Limiter(h, t)
  PROVE  SameOwner(h, Reading(h, on)) /\ Limiter(Reading(h, on), t)
<1>1. SameOwner(h, Reading(h, on))
  BY DEF SameOwner, Reading, FileHandlerType
<1>2. /\ Reading(h, on).last_check = h.last_check
      /\ Reading(h, on).since = h.since
      /\ Reading(h, on).until = h.until
      /\ Reading(h, on).wanted = h.wanted
      /\ Reading(h, on).answered = h.answered
      /\ Reading(h, on).tokens = h.tokens
      /\ Reading(h, on).calls = h.calls
  BY DEF Reading, FileHandlerType
<1> QED
  BY <1>1, <1>2 DEF Limiter

(* What the two halves of throttle write.                                   *)
LEMMA ThrottledFields ==
  ASSUME NEW h \in FileHandlerType, NEW n \in Chunks, now \in Nat,
         Earned(h) \in Nat, Sleep(h, n) \in Nat
  PROVE  LET g == Throttled(h, n)
         IN  /\ SameOwner(h, g)
             /\ g.last_check = now /\ g.until = now + Sleep(h, n)
             /\ g.wanted = n /\ g.answered = h.answered
             /\ g.tokens = Earned(h) /\ g.calls = h.calls + 1
<1>1. h.calls + 1 \in Nat /\ now + Sleep(h, n) \in Nat
  BY DEF FileHandlerType
<1> QED
  BY <1>1 DEF SameOwner, FileHandlerType, Throttled

(* After a sleep the tokens of the answer are gone and nothing else has     *)
(* changed.                                                                 *)
LEMMA SpentFields ==
  ASSUME NEW h \in FileHandlerType, h.wanted \in Nat
  PROVE  LET g == Spent(h)
         IN  /\ SameOwner(h, g)
             /\ g.last_check = h.last_check /\ g.until = h.until
             /\ g.wanted = 0 /\ g.answered = h.answered + h.wanted
             /\ g.tokens = IF h.tokens > h.wanted THEN h.tokens - h.wanted ELSE 0
             /\ g.calls = h.calls
<1> DEFINE left == IF h.tokens > h.wanted THEN h.tokens - h.wanted ELSE 0
<1>1. left \in Nat /\ h.answered + h.wanted \in Nat
  BY DEF FileHandlerType
<1>2. Spent(h) = [h EXCEPT !.tokens = left, !.answered = h.answered + h.wanted,
                           !.wanted = 0]
  BY DEF Spent
<1> HIDE DEF left
<1>3. /\ SameOwner(h, Spent(h))
      /\ Spent(h).last_check = h.last_check /\ Spent(h).until = h.until
      /\ Spent(h).wanted = 0 /\ Spent(h).answered = h.answered + h.wanted
      /\ Spent(h).tokens = left /\ Spent(h).calls = h.calls
  BY <1>1, <1>2 DEF SameOwner, FileHandlerType
<1> QED
  BY <1>3 DEF left

(* A call to throttle, up to its sleep.                                     *)
LEMMA ThrottledKeeps ==
  ASSUME NEW h \in FileHandlerType, NEW n \in Chunks, now \in Nat,
         h.wanted = 0, Limiter(h, now)
  PROVE  SameOwner(h, Throttled(h, n)) /\ Limiter(Throttled(h, n), now)
<1> DEFINE part == ((now - h.last_check) * Rate) \div Second
           g == Throttled(h, n)
<1>0. Rate \in Nat \ {0} /\ Second \in Nat \ {0}
  BY SessionsAssumption
<1>1. /\ h.tokens \in Nat /\ h.since \in Nat /\ h.last_check \in Nat
      /\ h.until \in Nat /\ h.answered \in Nat /\ h.calls \in Nat
      /\ n \in Nat \ {0} /\ now - h.last_check \in Nat
  BY SessionsAssumption DEF FileHandlerType, Limiter
<1>2. (now - h.last_check) * Rate \in Nat
  BY <1>0, <1>1, ProductIsNat
<1>3. part \in Nat /\ Second * part <= (now - h.last_check) * Rate
  BY <1>0, <1>2, DivBounds
<1>4. Earned(h) = h.tokens + part
  BY DEF Earned
<1> HIDE DEF part
<1>5. Earned(h) \in Nat
  BY <1>1, <1>3, <1>4
<1>6. /\ Sleep(h, n) \in Nat
      /\ Earned(h) < n =>
           (n - Earned(h)) * Second <= Rate * Sleep(h, n) + (Rate - 1)
  <2>1. CASE Earned(h) < n
    <3>1. (n - Earned(h)) * Second \in Nat
      BY <1>0, <1>1, <1>5, <2>1, ProductIsNat
    <3>2. Sleep(h, n) = ((n - Earned(h)) * Second) \div Rate
      BY <2>1 DEF Sleep
    <3> DEFINE worth == (n - Earned(h)) * Second
    <3> HIDE DEF worth
    <3>3. worth \div Rate \in Nat /\ worth <= Rate * (worth \div Rate) + (Rate - 1)
      BY <1>0, <3>1, DivBounds DEF worth
    <3> QED
      BY <3>2, <3>3 DEF worth
  <2>2. CASE ~(Earned(h) < n)
    BY <2>2 DEF Sleep
  <2> QED
    BY <2>1, <2>2
<1>7. /\ SameOwner(h, g) /\ g.since = h.since
      /\ g.last_check = now /\ g.until = now + Sleep(h, n)
      /\ g.wanted = n /\ g.answered = h.answered
      /\ g.tokens = Earned(h) /\ g.calls = h.calls + 1
  BY <1>5, <1>6, ThrottledFields DEF SameOwner
<1> HIDE DEF g
<1>8. /\ h.since <= h.last_check /\ h.last_check <= now /\ h.until <= now
      /\ (h.answered + h.tokens) * Second
           <= Rate * (h.last_check - h.since) + Rate * (h.until - h.since)
                + (Rate - 1) * h.calls
  BY DEF Limiter
<1>9. (h.answered + (h.tokens + part)) * Second
         <= 2 * Rate * (now - h.since) + (Rate - 1) * h.calls
  BY <1>0, <1>1, <1>3, <1>8, EarnedWithin
<1>10. /\ g.until - g.last_check = Sleep(h, n) /\ g.calls - 1 = h.calls
       /\ g.last_check - g.since = now - h.since
       /\ g.answered + g.tokens = h.answered + (h.tokens + part)
  BY <1>1, <1>3, <1>4, <1>6, <1>7
<1>11. (g.answered + g.tokens) * Second
         <= 2 * Rate * (g.last_check - g.since) + (Rate - 1) * (g.calls - 1)
  BY <1>9, <1>10, Zenon
<1>12. g.tokens < g.wanted =>
         (g.wanted - g.tokens) * Second
           <= Rate * (g.until - g.last_check) + (Rate - 1)
  BY <1>6, <1>7, <1>10, Zenon
<1>13. /\ g.since <= g.last_check /\ g.last_check <= now
       /\ g.last_check <= g.until /\ g.calls > 0 /\ g.wanted # 0
  BY <1>1, <1>6, <1>7, <1>8
<1>14. Limiter(g, now)
  BY <1>11, <1>12, <1>13 DEF Limiter
<1> QED
  BY <1>7, <1>14 DEF g

(* An answer has a length.                                                  *)
LEMMA WantedIsNat ==
  ASSUME NEW h \in FileHandlerType
  PROVE  h.wanted \in Nat
<1>1. h.wanted \in Chunks \cup {0}
  BY DEF FileHandlerType
<1>2. \A n \in Chunks : n \in Nat
  BY SessionsAssumption
<1> QED
  BY <1>1, <1>2

(* The sleep is over.                                                       *)
LEMMA SpentKeeps ==
  ASSUME NEW h \in FileHandlerType, now \in Nat,
         h.wanted > 0, now >= h.until, Limiter(h, now)
  PROVE  SameOwner(h, Spent(h)) /\ Limiter(Spent(h), now)
<1> DEFINE g == Spent(h)
           left == IF h.tokens > h.wanted THEN h.tokens - h.wanted ELSE 0
<1>0. Rate \in Nat \ {0} /\ Second \in Nat \ {0}
  BY SessionsAssumption
<1>1. /\ h.tokens \in Nat /\ h.since \in Nat /\ h.last_check \in Nat
      /\ h.until \in Nat /\ h.answered \in Nat /\ h.calls \in Nat \ {0}
      /\ h.wanted \in Nat \ {0}
  <2>1. h.calls > 0
    BY DEF Limiter
  <2>2. h.wanted \in Nat
    BY WantedIsNat
  <2> QED
    BY <2>1, <2>2 DEF FileHandlerType
<1>2. left \in Nat
  BY <1>1
<1>3. /\ SameOwner(h, g) /\ g.since = h.since
      /\ g.last_check = h.last_check /\ g.until = h.until
      /\ g.wanted = 0 /\ g.answered = h.answered + h.wanted /\ g.tokens = left
      /\ g.calls = h.calls
  BY <1>1, SpentFields DEF SameOwner
<1> HIDE DEF g, left
<1>5. /\ h.since <= h.last_check /\ h.last_check <= now
      /\ h.last_check <= h.until
      /\ (h.answered + h.tokens) * Second
           <= 2 * Rate * (h.last_check - h.since) + (Rate - 1) * (h.calls - 1)
      /\ h.tokens < h.wanted =>
           (h.wanted - h.tokens) * Second
             <= Rate * (h.until - h.last_check) + (Rate - 1)
  BY DEF Limiter
<1>6. (h.answered + h.wanted + left) * Second
        <= Rate * (h.last_check - h.since) + Rate * (h.until - h.since)
             + (Rate - 1) * h.calls
  <2>1. CASE h.tokens < h.wanted
    <3>1. h.answered + h.wanted + left = h.answered + h.wanted
      BY <1>1, <2>1 DEF left
    <3>2. (h.answered + h.wanted) * Second
            <= Rate * (h.last_check - h.since) + Rate * (h.until - h.since)
                 + (Rate - 1) * h.calls
      BY <1>0, <1>1, <1>5, <2>1, SleptWithin
    <3> QED
      BY <3>1, <3>2
  <2>2. CASE ~(h.tokens < h.wanted)
    <3>1. /\ h.answered + h.wanted + left = h.answered + h.tokens
          /\ h.answered + h.tokens \in Nat
      BY <1>1, <2>2 DEF left
    <3>2. (h.answered + h.tokens) * Second
            <= Rate * (h.last_check - h.since) + Rate * (h.until - h.since)
                 + (Rate - 1) * h.calls
      BY <1>0, <1>1, <1>5, <3>1, PaidWithin
    <3> QED
      BY <3>1, <3>2
  <2> QED
    BY <2>1, <2>2
<1>7. (g.answered + g.tokens) * Second
        <= Rate * (g.last_check - g.since) + Rate * (g.until - g.since)
             + (Rate - 1) * g.calls
  BY <1>3, <1>6, Zenon
<1>8. Limiter(g, now)
  BY <1>1, <1>3, <1>5, <1>7 DEF Limiter
<1> QED
  BY <1>3, <1>8 DEF g

-------------------------------------------------------------------------------
(* Types, logins and limiters, step by step                                 *)

(* The part of the inductive invariant that is about types, logins and      *)
(* limiters.                                                                *)
CoreInv == TypeOK /\ AuthInv /\ LimiterInv

(* A channel is replaced.                                                   *)
Replaced(s, c, h) ==
  /\ \A t \in Sessions, d \in Channels :
       channel'[t][d] = IF t = s /\ d = c THEN h ELSE channel[t][d]
  /\ channel' \in [Sessions -> [Channels -> FileHandlerType \cup {Closed, Open}]]

(* Replacing one channel by a handler whose limiter is sound keeps the types *)
(* and every limiter.                                                       *)
LEMMA ChannelReplaced ==
  ASSUME TypeOK, LimiterInv, NEW s \in Sessions, NEW c \in Channels,
         NEW h \in FileHandlerType \cup {Closed, Open},
         h.state = "runs" => Limiter(h, now),
         channel' = [channel EXCEPT ![s][c] = h],
         UNCHANGED <<adminVars, conn, logVars, now>>
  PROVE  /\ Replaced(s, c, h) /\ LimiterInv'
         /\ LoggerOK' /\ missed' \subseteq EntryType => TypeOK'
<1>1. Replaced(s, c, h)
  BY DEF TypeOK, Replaced
<1>2. LimiterInv'
  BY <1>1 DEF LimiterInv, Runs, Replaced
<1>3. LoggerOK' /\ missed' \subseteq EntryType => TypeOK'
  BY <1>1 DEF TypeOK, LoggerOK, Replaced, adminVars, logVars
<1> QED
  BY <1>1, <1>2, <1>3

(* A running channel has a file handler's record.                           *)
LEMMA RunsHandler ==
  ASSUME TypeOK, NEW s \in Sessions, NEW c \in Channels, Runs(s, c)
  PROVE  channel[s][c] \in FileHandlerType
<1>1. channel[s][c] \in FileHandlerType \cup {Closed, Open}
  BY DEF TypeOK
<1> QED
  BY <1>1 DEF Runs, Closed, Open

(* What a file handler's step does to its channel: it is opened, gets its   *)
(* handler, or its handler goes on for the same user and home.              *)
Starts(s, c) ==
  /\ conn[s].authenticated /\ ~Busy(s)
  /\ Replaced(s, c, NewFileHandler(conn[s].username, conn[s].home_dir))

(* A channel goes on: left as it is, back to open, or a running handler with *)
(* the same owner.                                                          *)
GoesOn(s, c) ==
  \/ channel' = channel
  \/ Replaced(s, c, Open)
  \/ /\ Runs(s, c)
     /\ \E h \in FileHandlerType : SameOwner(channel[s][c], h) /\ Replaced(s, c, h)

(* A new file handler has the user and the home it was given, and a limiter *)
(* that owes nothing.                                                       *)
LEMMA NewHandlerFields ==
  ASSUME TypeOK, NEW u \in Users, NEW home \in Homes
  PROVE  /\ NewFileHandler(u, home) \in FileHandlerType
         /\ NewFileHandler(u, home).state = "runs"
         /\ NewFileHandler(u, home).user = u
         /\ NewFileHandler(u, home).home = home
         /\ Limiter(NewFileHandler(u, home), now)
<1> DEFINE g == NewFileHandler(u, home)
<1>1. now \in Nat
  BY DEF TypeOK
<1>2. /\ g \in FileHandlerType /\ g.state = "runs"
      /\ g.user = u /\ g.home = home
      /\ g.since = now /\ g.last_check = now /\ g.until = now
      /\ g.tokens = 0 /\ g.wanted = 0 /\ g.answered = 0 /\ g.calls = 0
  BY <1>1 DEF NewFileHandler, FileHandlerType
<1> HIDE DEF g
<1>3. /\ now - now = 0 /\ (0 + 0) * Second = 0 /\ now <= now
      /\ Rate * 0 + Rate * 0 + (Rate - 1) * 0 = 0
  BY <1>1, SessionsAssumption
<1>4. (g.answered + g.tokens) * Second
        <= Rate * (g.last_check - g.since) + Rate * (g.until - g.since)
             + (Rate - 1) * g.calls
  <2>1. 0 <= 0
    OBVIOUS
  <2> QED
    BY <1>2, <1>3, <2>1, Zenon
<1>5. Limiter(g, now)
  BY <1>1, <1>2, <1>4 DEF Limiter
<1> QED
  BY <1>2, <1>5 DEF g

(* An operation on files may leave one entry that is not about a login.     *)
FileEntry ==
  \/ UNCHANGED <<logger, missed>>
  \/ \E e \in EntryType : e.op # "SFTP" /\ Audit(e.by, e)

(* An entry for a file operation keeps the types of the log mutex.          *)
LEMMA FileEntryTypes ==
  ASSUME TypeOK, FileEntry
  PROVE  LoggerOK' /\ missed' \subseteq EntryType
<1>1. CASE UNCHANGED <<logger, missed>>
  BY <1>1 DEF TypeOK, LoggerOK
<1> QED
  BY <1>1, AuditTypes DEF FileEntry

(* Every step of a file handler, with what it keeps.                        *)
LEMMA FileHandlerSteps ==
  ASSUME CoreInv, NEW s \in Sessions, NEW c \in Channels, FileHandler(s, c)
  PROVE  /\ Starts(s, c) \/ GoesOn(s, c)
         /\ FileEntry
         /\ UNCHANGED <<adminVars, conn, logVars, now>>
         /\ TypeOK' /\ LimiterInv'
<1>1. TypeOK /\ AuthInv /\ LimiterInv /\ now \in Nat
  BY DEF CoreInv, TypeOK
<1>2. UNCHANGED <<adminVars, conn, logVars, now>>
  BY DEF FileHandler, channel_open_session, subsystem_request, OpenFile,
     CloseFile, Transfer, TransferEnds
<1>3. FileEntry
  <2>1. CASE OpenFile(s, c) /\ ~permissions(channel[s][c].user)
    <3> DEFINE e == Entry(<<s, c>>, "OPEN", channel[s][c].user, 0, FALSE)
    <3>1. channel[s][c] \in FileHandlerType
      BY <1>1, <2>1, RunsHandler DEF OpenFile, Listens
    <3>2. channel[s][c].user \in Users /\ 0 \in 0 .. MaxAttempts
      BY <3>1, SessionsAssumption DEF FileHandlerType
    <3>3. e \in EntryType /\ e.by = <<s, c>> /\ e.op = "OPEN"
      BY <3>2 DEF Entry, EntryType, Actors
    <3>4. Audit(<<s, c>>, e)
      BY <2>1 DEF OpenFile
    <3> HIDE DEF e
    <3> QED
      BY <3>3, <3>4 DEF FileEntry
  <2>2. CASE ~(OpenFile(s, c) /\ ~permissions(channel[s][c].user))
    BY <2>2 DEF FileHandler, channel_open_session, subsystem_request, OpenFile,
       CloseFile, Transfer, TransferEnds, FileEntry
  <2> QED
    BY <2>1, <2>2
<1>4. LoggerOK' /\ missed' \subseteq EntryType
  BY <1>1, <1>3, FileEntryTypes
<1>5. ASSUME NEW h \in FileHandlerType, Runs(s, c),
             SameOwner(channel[s][c], h), Limiter(h, now),
             channel' = [channel EXCEPT ![s][c] = h]
      PROVE  GoesOn(s, c) /\ TypeOK' /\ LimiterInv'
  BY <1>1, <1>2, <1>4, <1>5, ChannelReplaced DEF GoesOn
<1>6. ASSUME Runs(s, c)
      PROVE  channel[s][c] \in FileHandlerType /\ Limiter(channel[s][c], now)
  BY <1>1, <1>6, RunsHandler DEF LimiterInv
<1>7. CASE channel_open_session(s, c)
  <2>1. channel' = [channel EXCEPT ![s][c] = Open]
    BY <1>7 DEF channel_open_session
  <2>2. Open.state # "runs" /\ Open \in FileHandlerType \cup {Closed, Open}
    BY DEF Open
  <2> QED
    BY <1>1, <1>2, <1>3, <1>4, <2>1, <2>2, ChannelReplaced DEF GoesOn
<1>8. CASE subsystem_request(s, c)
  <2> DEFINE g == NewFileHandler(conn[s].username, conn[s].home_dir)
  <2>1. conn[s].authenticated /\ ~Busy(s) /\ channel' = [channel EXCEPT ![s][c] = g]
    BY <1>8 DEF subsystem_request
  <2>2. conn[s].username \in Users /\ conn[s].home_dir \in Homes
    BY <1>1, <2>1 DEF AuthInv, Homes
  <2>3. g \in FileHandlerType /\ Limiter(g, now)
    BY <1>1, <2>2, NewHandlerFields
  <2> HIDE DEF g
  <2>4. Replaced(s, c, g) /\ TypeOK' /\ LimiterInv'
    BY <1>1, <1>2, <1>4, <2>1, <2>3, ChannelReplaced
  <2> QED
    BY <1>2, <1>3, <2>1, <2>4 DEF Starts, g
<1>9. CASE OpenFile(s, c) \/ CloseFile(s, c)
  <2>1. Runs(s, c)
    BY <1>9 DEF OpenFile, CloseFile, Listens
  <2>2. ASSUME NEW on \in BOOLEAN,
               channel' = [channel EXCEPT ![s][c] = Reading(channel[s][c], on)]
        PROVE  GoesOn(s, c) /\ TypeOK' /\ LimiterInv'
    <3> DEFINE h == Reading(channel[s][c], on)
    <3>1. /\ SameOwner(channel[s][c], h) /\ Limiter(h, now)
          /\ channel' = [channel EXCEPT ![s][c] = h]
      BY <1>1, <1>6, <2>1, <2>2, ReadingKeeps
    <3> HIDE DEF h
    <3>2. h \in FileHandlerType
      BY <3>1 DEF SameOwner
    <3> QED
      BY <1>5, <2>1, <3>1, <3>2
  <2>3. CASE channel' = channel
    <3>1. TypeOK' /\ LimiterInv'
      BY <1>1, <1>2, <1>4, <2>3 DEF TypeOK, LoggerOK, LimiterInv, Runs,
         adminVars, logVars
    <3> QED
      BY <1>2, <1>3, <2>3, <3>1 DEF GoesOn
  <2>4. \/ channel' = channel
        \/ channel' = [channel EXCEPT ![s][c] = Reading(channel[s][c], TRUE)]
        \/ channel' = [channel EXCEPT ![s][c] = Reading(channel[s][c], FALSE)]
    BY <1>9 DEF OpenFile, CloseFile
  <2> QED
    BY <1>2, <1>3, <2>2, <2>3, <2>4
<1>10. ASSUME NEW n \in Chunks, Transfer(s, c, n)
       PROVE  GoesOn(s, c) /\ TypeOK' /\ LimiterInv'
  <2> DEFINE h == Throttled(channel[s][c], n)
  <2>1. /\ Runs(s, c) /\ channel[s][c].wanted = 0
        /\ channel' = [channel EXCEPT ![s][c] = h]
    BY <1>10 DEF Transfer, Listens
  <2>2. SameOwner(channel[s][c], h) /\ Limiter(h, now)
    BY <1>1, <1>6, <2>1, ThrottledKeeps
  <2> HIDE DEF h
  <2>3. h \in FileHandlerType
    BY <2>2 DEF SameOwner
  <2> QED
    BY <1>5, <2>1, <2>2, <2>3
<1>11. CASE TransferEnds(s, c)
  <2> DEFINE h == Spent(channel[s][c])
  <2>1. /\ Runs(s, c) /\ channel[s][c].wanted > 0
        /\ now >= channel[s][c].until
        /\ channel' = [channel EXCEPT ![s][c] = h]
    BY <1>11 DEF TransferEnds
  <2>2. SameOwner(channel[s][c], h) /\ Limiter(h, now)
    BY <1>1, <1>6, <2>1, SpentKeeps
  <2> HIDE DEF h
  <2>3. h \in FileHandlerType
    BY <2>2 DEF SameOwner
  <2>4. GoesOn(s, c) /\ TypeOK' /\ LimiterInv'
    BY <1>5, <2>1, <2>2, <2>3
  <2> QED
    BY <1>2, <1>3, <2>4
<1> QED
  BY <1>2, <1>3, <1>7, <1>8, <1>9, <1>10, <1>11 DEF FileHandler

(* The steps that are no connection's.                                      *)
LEMMA FtpGetEntry ==
  ASSUME TypeOK, NEW u \in FtpUsers, NEW opened \in BOOLEAN, FtpGet(u, opened)
  PROVE  FileEntry
<1> DEFINE e == Entry(u, "DOWNLOAD", u, 0, opened)
<1>1. 0 \in 0 .. MaxAttempts /\ u \in Users
  BY SessionsAssumption
<1>2. e \in EntryType /\ e.by = u /\ e.op = "DOWNLOAD"
  BY <1>1 DEF Entry, EntryType, Actors
<1>3. Audit(u, e)
  BY DEF FtpGet
<1> HIDE DEF e
<1> QED
  BY <1>2, <1>3 DEF FileEntry

(* What LogEntry finds in the mutex.                                        *)
LEMMA HeldEntry ==
  ASSUME TypeOK, LogEntry
  PROVE  logger[1].entry \in EntryType /\ logger[1].by = logger[1].entry.by
<1>1. ~ \E r \in Readers : logger = <<[by |-> r]>>
  BY DEF LogEntry
<1>2. PICK e \in EntryType : logger = <<[by |-> e.by, entry |-> e]>>
  BY <1>1 DEF TypeOK, LogEntry
<1> QED
  BY <1>2

(* Writing the entry held keeps the types of the log.                       *)
LEMMA LogEntryTypes ==
  ASSUME TypeOK, LogEntry
  PROVE  TypeOK'
<1> DEFINE e == logger[1].entry
<1>1. e \in EntryType
  BY HeldEntry
<1>2. /\ ring' = Push(ring, e)
      /\ queue' = IF LineKept THEN Append(queue, e) ELSE queue
      /\ entries' = Append(entries, [entry |-> e, line |-> LineKept])
      /\ logger' = Free
      /\ UNCHANGED <<adminVars, conn, channel, file, now, missed>>
  BY DEF LogEntry
<1> HIDE DEF e
<1>3. ring \in Seq(EntryType) /\ Len(ring) <= Capacity /\ Capacity \in Nat \ {0}
      /\ queue \in Seq(EntryType) /\ LineKept \in BOOLEAN
      /\ entries \in Seq([entry : EntryType, line : BOOLEAN])
  BY SessionsAssumption DEF TypeOK, LineKept
<1>4. ring' \in Seq(EntryType) /\ Len(ring') <= Capacity
  <2>1. CASE Len(ring) >= Capacity
    <3>1. ring' = Append(Tail(ring), e)
      BY <1>2, <2>1 DEF Push
    <3>2. Tail(ring) \in Seq(EntryType) /\ Len(Tail(ring)) = Len(ring) - 1
      BY <1>3, <2>1
    <3> QED
      BY <1>1, <1>3, <3>1, <3>2
  <2>2. CASE ~(Len(ring) >= Capacity)
    <3>1. ring' = Append(ring, e)
      BY <1>2, <2>2 DEF Push
    <3> QED
      BY <1>1, <1>3, <2>2, <3>1
  <2> QED
    BY <2>1, <2>2
<1>5. queue' \in Seq(EntryType)
  BY <1>1, <1>2, <1>3
<1>6. [entry |-> e, line |-> LineKept] \in [entry : EntryType, line : BOOLEAN]
  BY <1>1, <1>3
<1>7. entries' \in Seq([entry : EntryType, line : BOOLEAN])
  BY <1>2, <1>3, <1>6
<1> QED
  BY <1>2, <1>4, <1>5, <1>7 DEF TypeOK, adminVars

(* An answer keeps the types and the logins.                                *)
LEMMA AnswersKeeps ==
  ASSUME TypeOK, AuthInv, NEW s \in Sessions, NEW u \in Users,
         NEW ok \in BOOLEAN, Answers(s, u, ok),
         UNCHANGED <<adminVars, channel, logVars, now>>
  PROVE  TypeOK' /\ AuthInv'
<1>1. AuthInv'
  <2> SUFFICES ASSUME NEW t \in Sessions
               PROVE  /\ conn'[t].stage # "idle" =>
                           /\ conn'[t].who \in Users /\ ~conn'[t].authenticated
                           /\ conn'[t].tries < MaxAttempts
                      /\ conn'[t].authenticated =>
                           /\ conn'[t].username \in Users
                           /\ conn'[t].home_dir \in UsableHomes
    BY DEF AuthInv
  <2>1. CASE t = s
    BY <2>1 DEF Answers, Answered, AuthInv
  <2>2. CASE t # s
    BY <2>2 DEF Answers, Answered, AuthInv
  <2> QED
    BY <2>1, <2>2
<1>2. conn' \in [Sessions -> HandlerType] /\ LoggerOK' /\ missed' \subseteq EntryType
  BY DEF Answers, Answered
<1>3. \A t \in Sessions : conn'[t].authenticated => conn'[t].username \in Users
  BY <1>1 DEF AuthInv
<1> QED
  BY <1>1, <1>2, <1>3 DEF TypeOK, LoggerOK, adminVars, logVars

(* A connection that proceeds keeps types and logins.                       *)
LEMMA ProceedsKeeps ==
  ASSUME TypeOK, AuthInv, NEW s \in Sessions, Proceeds(s),
         UNCHANGED <<adminVars, channel, logVars, now>>
  PROVE  TypeOK' /\ AuthInv'
<1>1. AuthInv'
  <2> SUFFICES ASSUME NEW t \in Sessions
               PROVE  /\ conn'[t].stage # "idle" =>
                           /\ conn'[t].who \in Users /\ ~conn'[t].authenticated
                           /\ conn'[t].tries < MaxAttempts
                      /\ conn'[t].authenticated =>
                           /\ conn'[t].username \in Users
                           /\ conn'[t].home_dir \in UsableHomes
    BY DEF AuthInv
  <2>1. CASE t = s
    BY <2>1 DEF Proceeds
  <2>2. CASE t # s
    BY <2>2 DEF Proceeds, AuthInv
  <2> QED
    BY <2>1, <2>2
<1>2. conn' \in [Sessions -> HandlerType] /\ UNCHANGED <<logger, missed>>
  BY DEF Proceeds
<1>3. \A t \in Sessions : conn'[t].authenticated => conn'[t].username \in Users
  BY <1>1 DEF AuthInv
<1> QED
  BY <1>1, <1>2, <1>3 DEF TypeOK, LoggerOK, adminVars, logVars

(* Every action keeps types, logins and limiters.                           *)
LEMMA CoreStep ==
  ASSUME CoreInv, [Next]_vars
  PROVE  CoreInv'
<1>0. TypeOK /\ AuthInv /\ LimiterInv
  BY DEF CoreInv
<1>1. ASSUME NEW s \in Sessions, Authentication(s) PROVE CoreInv'
  <2>1. UNCHANGED <<adminVars, channel, logVars, now>>
    BY <1>0, <1>1, AuthenticationSteps
  <2>2. TypeOK' /\ AuthInv'
    BY <1>0, <1>1, <2>1, AuthenticationSteps, AnswersKeeps, ProceedsKeeps
  <2>3. LimiterInv'
    BY <1>0, <2>1 DEF LimiterInv, Runs
  <2> QED
    BY <2>2, <2>3 DEF CoreInv
<1>2. ASSUME NEW s \in Sessions, NEW c \in Channels, FileHandler(s, c)
      PROVE  CoreInv'
  <2>1. TypeOK' /\ LimiterInv' /\ conn' = conn
    BY <1>2, FileHandlerSteps
  <2> QED
    BY <1>0, <2>1 DEF CoreInv, AuthInv
<1>3. ASSUME NEW u \in FtpUsers, NEW opened \in BOOLEAN, FtpGet(u, opened)
      PROVE  CoreInv'
  <2>1. LoggerOK' /\ missed' \subseteq EntryType
    BY <1>0, <1>3, FtpGetEntry, FileEntryTypes
  <2>2. UNCHANGED <<adminVars, conn, channel, logVars, now>>
    BY <1>3 DEF FtpGet
  <2>3. TypeOK'
    BY <1>0, <2>1, <2>2 DEF TypeOK, LoggerOK, adminVars, logVars
  <2> QED
    BY <1>0, <2>2, <2>3 DEF CoreInv, AuthInv, LimiterInv, Runs
<1>4. ASSUME NEW r \in Readers, ReaderLocks(r) \/ ReaderAnswers(r)
      PROVE  CoreInv'
  <2>1. UNCHANGED <<adminVars, conn, channel, logVars, now, missed>>
    BY <1>4 DEF ReaderLocks, ReaderAnswers
  <2>2. LoggerOK'
    BY <1>4 DEF ReaderLocks, ReaderAnswers, LoggerOK
  <2>3. TypeOK'
    BY <1>0, <2>1, <2>2 DEF TypeOK, LoggerOK, adminVars, logVars
  <2> QED
    BY <1>0, <2>1, <2>3 DEF CoreInv, AuthInv, LimiterInv, Runs
<1>5. ASSUME NEW u \in Users, NEW a \in Accounts \cup {NoAccount},
             SaveAccount(u, a)
      PROVE  CoreInv'
  <2>1. TypeOK'
    BY <1>0, <1>5 DEF SaveAccount, TypeOK, logVars
  <2> QED
    BY <1>0, <1>5, <2>1 DEF SaveAccount, CoreInv, AuthInv, LimiterInv, Runs
<1>6. CASE LogEntry
  BY <1>0, <1>6, LogEntryTypes DEF LogEntry, CoreInv, AuthInv, LimiterInv, Runs
<1>7. CASE WriterThread
  <2>1. file' \in Seq(EntryType) /\ queue' \in Seq(EntryType)
    BY <1>0, <1>7 DEF WriterThread, TypeOK
  <2>2. TypeOK'
    BY <1>0, <1>7, <2>1 DEF WriterThread, TypeOK, adminVars
  <2> QED
    BY <1>0, <1>7, <2>2 DEF WriterThread, CoreInv, AuthInv, LimiterInv, Runs
<1>8. CASE SetLogLevel
  <2>1. TypeOK'
    BY <1>0, <1>8 DEF SetLogLevel, TypeOK, logVars
  <2> QED
    BY <1>0, <1>8, <2>1 DEF SetLogLevel, CoreInv, AuthInv, LimiterInv, Runs
<1>9. CASE Tick
  <2>1. TypeOK' /\ AuthInv'
    BY <1>0, <1>9 DEF Tick, TypeOK, AuthInv, adminVars, logVars
  <2>2. ASSUME NEW h \in FileHandlerType, Limiter(h, now)
        PROVE  Limiter(h, now + 1)
    <3>1. h.last_check \in Nat /\ h.until \in Nat /\ now \in Nat
      BY <1>0 DEF FileHandlerType, TypeOK
    <3>2. /\ h.last_check <= now => h.last_check <= now + 1
          /\ h.until <= now => h.until <= now + 1
      BY <3>1
    <3> QED
      BY <2>2, <3>2 DEF Limiter
  <2>3. now' = now + 1 /\ channel' = channel
    BY <1>9 DEF Tick
  <2>4. LimiterInv'
    BY <1>0, <2>2, <2>3, RunsHandler DEF LimiterInv, Runs
  <2> QED
    BY <2>1, <2>4 DEF CoreInv
<1>10. CASE UNCHANGED vars
  BY <1>0, <1>10 DEF vars, CoreInv, TypeOK, AuthInv, LimiterInv, Runs
<1> QED
  BY <1>1, <1>2, <1>3, <1>4, <1>5, <1>6, <1>7, <1>8, <1>9, <1>10 DEF Next

(* The initial state: no connection is authenticated, no channel open.      *)
LEMMA CoreInit == Init => CoreInv
<1> SUFFICES ASSUME Init PROVE CoreInv
  OBVIOUS
<1>1. NewHandler \in HandlerType /\ NewHandler.stage = "idle"
      /\ ~NewHandler.authenticated
  BY NoneIsHome, SessionsAssumption DEF NewHandler, HandlerType
<1>2. conn = [s \in Sessions |-> NewHandler]
      /\ channel = [s \in Sessions |-> [c \in Channels |-> Closed]]
  BY DEF Init
<1>3. conn \in [Sessions -> HandlerType]
      /\ \A s \in Sessions : conn[s].stage = "idle" /\ ~conn[s].authenticated
  BY <1>1, <1>2
<1>4. channel \in [Sessions -> [Channels -> FileHandlerType \cup {Closed, Open}]]
  BY <1>2
<1>5. \A s \in Sessions, c \in Channels : ~Runs(s, c)
  BY <1>2 DEF Runs, Closed
<1>6. TypeOK
  <2>1. <<>> \in Seq(EntryType) /\ Len(<<>>) = 0
        /\ <<>> \in Seq([entry : EntryType, line : BOOLEAN])
    OBVIOUS
  <2>2. Capacity \in Nat /\ Initial \in [Users -> Accounts \cup {NoAccount}]
    BY SessionsAssumption
  <2>3. ring \in Seq(EntryType) /\ Len(ring) <= Capacity
        /\ queue \in Seq(EntryType) /\ file \in Seq(EntryType)
        /\ entries \in Seq([entry : EntryType, line : BOOLEAN])
    BY <2>1, <2>2 DEF Init
  <2>4. missed \subseteq EntryType /\ logger = Free /\ quiet \in BOOLEAN
        /\ now \in Nat /\ changes \in Nat
        /\ account \in [Users -> Accounts \cup {NoAccount}]
    BY <2>2 DEF Init
  <2>5. \A s \in Sessions : conn[s].authenticated => conn[s].username \in Users
    BY <1>3
  <2> QED
    BY <1>3, <1>4, <2>3, <2>4, <2>5 DEF TypeOK
<1> QED
  BY <1>3, <1>5, <1>6 DEF CoreInv, AuthInv, LimiterInv

(* Types, logins and limiters hold at all times.                            *)
LEMMA CoreInvariant == Spec => []CoreInv
<1>1. CoreInv /\ [Next]_vars => CoreInv'
  BY CoreStep
<1> QED
  BY <1>1, CoreInit, PTL DEF Spec

(* Connections, file handlers, the log and its mutex keep their types: the  *)
(* ring of the file logger never holds more than Capacity entries, and a    *)
(* file handler has a user and a home of the library.                       *)
THEOREM SessionsTypeCorrect == Spec => []TypeOK
<1>1. CoreInv => TypeOK
  BY DEF CoreInv
<1> QED
  BY <1>1, CoreInvariant, PTL

(* What Limiter says of the data answered.                                  *)
LEMMA AnsweredWithin ==
  ASSUME NEW h \in FileHandlerType, now \in Nat, Limiter(h, now)
  PROVE  h.answered * Second
           <= 2 * Rate * (now - h.since) + (Rate - 1) * h.calls
<1>0. Rate \in Nat \ {0} /\ Second \in Nat \ {0} /\ Rate - 1 \in Nat
  BY SessionsAssumption
<1>1. /\ h.tokens \in Nat /\ h.since \in Nat /\ h.last_check \in Nat
      /\ h.until \in Nat /\ h.answered \in Nat /\ h.calls \in Nat
  BY DEF FileHandlerType
<1>2. h.wanted \in Nat
  BY WantedIsNat
<1>3. h.answered * Second <= (h.answered + h.tokens) * Second
  BY <1>0, <1>1, Z3
<1>4. h.since <= h.last_check /\ h.last_check <= now
  BY DEF Limiter
<1>5. Rate * (h.last_check - h.since) <= Rate * (now - h.since)
  BY <1>0, <1>1, <1>4, ProductGrows
<1>6. 2 * Rate * (now - h.since)
        = Rate * (now - h.since) + Rate * (now - h.since)
  BY <1>0, <1>1, Z3
<1>7. CASE h.wanted = 0
  <2>1. /\ h.until <= now
        /\ (h.answered + h.tokens) * Second
             <= Rate * (h.last_check - h.since) + Rate * (h.until - h.since)
                  + (Rate - 1) * h.calls
    BY <1>7 DEF Limiter
  <2>2. Rate * (h.until - h.since) <= Rate * (now - h.since)
    BY <1>0, <1>1, <2>1, ProductGrows
  <2>3. /\ h.answered * Second \in Int
        /\ (h.answered + h.tokens) * Second \in Int
        /\ Rate * (h.last_check - h.since) \in Int
        /\ Rate * (h.until - h.since) \in Int
        /\ Rate * (now - h.since) \in Int
        /\ (Rate - 1) * h.calls \in Int
    BY <1>0, <1>1
  <2>4. \A a, b, x, y, z, m \in Int :
          a <= b /\ b <= x + y + z /\ x <= m /\ y <= m => a <= m + m + z
    OBVIOUS
  <2>5. h.answered * Second
          <= Rate * (now - h.since) + Rate * (now - h.since)
               + (Rate - 1) * h.calls
    BY <1>3, <1>5, <2>1, <2>2, <2>3, <2>4, Zenon
  <2> QED
    BY <1>6, <2>5, Zenon
<1>8. CASE h.wanted > 0
  <2>1. /\ h.calls > 0
        /\ (h.answered + h.tokens) * Second
             <= 2 * Rate * (h.last_check - h.since) + (Rate - 1) * (h.calls - 1)
    BY <1>8 DEF Limiter
  <2>2. 2 * Rate * (h.last_check - h.since)
          = Rate * (h.last_check - h.since) + Rate * (h.last_check - h.since)
    BY <1>0, <1>1, Z3
  <2>3. (Rate - 1) * (h.calls - 1) <= (Rate - 1) * h.calls
    BY <1>0, <1>1, ProductGrows
  <2> QED
    BY <1>0, <1>1, <1>3, <1>5, <1>6, <2>1, <2>2, <2>3, Z3
<1> QED
  BY <1>2, <1>7, <1>8

(* A limited channel never answers more than twice its limit, plus the      *)
(* rounding of its calls: for every limit, every length of a tick, every    *)
(* sequence of sizes and every delay between the calls.                     *)
THEOREM TwiceTheRateAtMost == Spec => []SentWithinTwiceRate
<1>1. CoreInv => SentWithinTwiceRate
  <2> SUFFICES ASSUME CoreInv, NEW s \in Sessions, NEW c \in Channels, Limited(s, c)
               PROVE  channel[s][c].answered * Second
                        <= 2 * Rate * (now - channel[s][c].since)
                             + (Rate - 1) * channel[s][c].calls
    BY DEF SentWithinTwiceRate
  <2>1. channel[s][c] \in FileHandlerType /\ Limiter(channel[s][c], now)
        /\ now \in Nat
    BY RunsHandler DEF CoreInv, LimiterInv, Limited, TypeOK
  <2> QED
    BY <2>1, AnsweredWithin
<1> QED
  BY <1>1, CoreInvariant, PTL

-------------------------------------------------------------------------------
(* The audit trail                                                          *)

(* The trail with the entry its writer has the mutex for.                   *)
HeldEntries ==
  IF logger # Free /\ logger[1].by \notin Readers THEN {logger[1].entry} ELSE {}

(* The written trail and the entry on its way, and a session's attempts in  *)
(* it.                                                                      *)
FullTrail == Trail \cup HeldEntries
AllAttempts(s) == {e \in FullTrail : e.op = "SFTP" /\ e.by = s}

(* TrailHonest of the full trail, which holds while an entry is on its way  *)
(* as well.                                                                 *)
HonestFor(s) ==
  /\ \A e \in AllAttempts(s) : e.n \in 1 .. conn[s].tries
  /\ \A k \in 1 .. conn[s].tries : \E e \in AllAttempts(s) : e.n = k
  /\ IsFiniteSet(AllAttempts(s))
  /\ Cardinality(AllAttempts(s)) = conn[s].tries
  /\ \A e \in AllAttempts(s) :
       e.success <=> conn[s].authenticated /\ e.n = conn[s].tries
                     /\ e.user = conn[s].username
  /\ conn[s].authenticated => \E e \in AllAttempts(s) : e.success

(* The inductive invariant of the audit trail.                              *)
TrailInv == (\A s \in Sessions : HonestFor(s)) /\ RunsAsVerified

(* What the mutex is held for.                                              *)
LEMMA HeldIs ==
  ASSUME TypeOK
  PROVE  \/ HeldEntries = {} /\ (logger = Free \/ logger[1].by \in Readers)
         \/ \E e \in EntryType : /\ HeldEntries = {e} /\ logger # Free
                                 /\ logger[1].by = e.by /\ logger[1].entry = e
<1>1. CASE logger = Free
  BY <1>1 DEF HeldEntries
<1>2. ASSUME NEW r \in Readers, logger = <<[by |-> r]>>
      PROVE  HeldEntries = {} /\ logger[1].by \in Readers
  BY <1>2 DEF HeldEntries
<1>3. ASSUME NEW e \in EntryType, logger = <<[by |-> e.by, entry |-> e]>>
      PROVE  /\ HeldEntries = {e} /\ logger # Free
             /\ logger[1].by = e.by /\ logger[1].entry = e
  <2>1. e.by \notin Readers
    BY ReadersAssumption DEF EntryType
  <2> QED
    BY <1>3, <2>1 DEF HeldEntries, Free
<1> QED
  BY <1>1, <1>2, <1>3 DEF TypeOK

(* An entry audited joins the full trail, at once.                          *)
LEMMA AuditJoins ==
  ASSUME TypeOK, NEW e \in EntryType, Audit(e.by, e), entries' = entries
  PROVE  FullTrail' = FullTrail \cup {e} /\ Trail \subseteq Trail'
<1>1. e.by \notin Readers
  BY ReadersAssumption DEF EntryType
<1>2. CASE logger = Free
  <2>1. logger' = <<[by |-> e.by, entry |-> e]>> /\ missed' = missed
    BY <1>2 DEF Audit
  <2>2. HeldEntries = {} /\ HeldEntries' = {e}
    BY <1>1, <1>2, <2>1 DEF HeldEntries, Free
  <2>3. Trail' = Trail
    BY <2>1 DEF Trail
  <2> QED
    BY <2>2, <2>3 DEF FullTrail
<1>3. CASE logger # Free
  <2>1. logger' = logger /\ missed' = missed \cup {e}
    BY <1>3 DEF Audit
  <2>2. HeldEntries' = HeldEntries
    BY <2>1 DEF HeldEntries
  <2>3. Trail' = Trail \cup {e}
    BY <2>1 DEF Trail
  <2> QED
    BY <2>2, <2>3 DEF FullTrail
<1> QED
  BY <1>2, <1>3

(* Its writer only moves it.                                                *)
LEMMA LogEntryMoves ==
  ASSUME TypeOK, LogEntry
  PROVE  FullTrail' = FullTrail /\ Trail \subseteq Trail'
<1> DEFINE e == logger[1].entry
<1>1. logger # Free /\ logger[1].by \notin Readers
  BY DEF LogEntry
<1>2. HeldEntries = {e}
  BY <1>1 DEF HeldEntries
<1>3. HeldEntries' = {}
  BY DEF LogEntry, HeldEntries
<1>4. /\ entries' = Append(entries, [entry |-> e, line |-> LineKept])
      /\ missed' = missed
  BY DEF LogEntry
<1>5. entries \in Seq([entry : EntryType, line : BOOLEAN])
  BY DEF TypeOK
<1> HIDE DEF e
<1>6. /\ Len(entries') = Len(entries) + 1 /\ Len(entries) \in Nat
      /\ \A i \in 1 .. Len(entries) : entries'[i] = entries[i]
      /\ entries'[Len(entries) + 1] = [entry |-> e, line |-> LineKept]
  BY <1>4, <1>5
<1>7. {entries'[i].entry : i \in 1 .. Len(entries')}
        = {entries[i].entry : i \in 1 .. Len(entries)} \cup {e}
  <2>1. \A i \in 1 .. Len(entries') : i \in 1 .. Len(entries) \/ i = Len(entries) + 1
    BY <1>6
  <2>2. 1 .. Len(entries) \subseteq 1 .. Len(entries')
        /\ Len(entries) + 1 \in 1 .. Len(entries')
    BY <1>6
  <2>3. \A i \in 1 .. Len(entries) : entries'[i].entry = entries[i].entry
    BY <1>6
  <2>4. entries'[Len(entries) + 1].entry = e
    BY <1>6
  <2> QED
    BY <2>1, <2>2, <2>3, <2>4
<1>8. Trail' = Trail \cup {e}
  BY <1>4, <1>7 DEF Trail
<1> QED
  BY <1>2, <1>3, <1>8 DEF FullTrail

(* Readers take the mutex and give it back, and log nothing.                *)
LEMMA ReadersLogNothing ==
  ASSUME TypeOK, NEW r \in Readers, ReaderLocks(r) \/ ReaderAnswers(r)
  PROVE  FullTrail' = FullTrail /\ Trail' = Trail
<1>1. HeldEntries = {}
  <2>1. CASE ReaderLocks(r)
    BY <2>1 DEF ReaderLocks, HeldEntries
  <2>2. CASE ReaderAnswers(r)
    BY <2>2 DEF ReaderAnswers, Busy, HeldEntries
  <2> QED
    BY <2>1, <2>2
<1>2. HeldEntries' = {}
  BY DEF ReaderLocks, ReaderAnswers, HeldEntries
<1>3. Trail' = Trail
  BY DEF ReaderLocks, ReaderAnswers, logVars, Trail
<1> QED
  BY <1>1, <1>2, <1>3 DEF FullTrail

(* With no entry of its own on the way, a connection finds all of them in   *)
(* the trail.                                                               *)
LEMMA NotBusyLogged ==
  ASSUME TypeOK, NEW s \in Sessions, ~Busy(s)
  PROVE  Attempts(s) = AllAttempts(s)
<1>1. \A e \in HeldEntries : e.by # s
  BY HeldIs DEF Busy
<1> QED
  BY <1>1 DEF Attempts, AllAttempts, FullTrail

(* A connection whose answers and entries stay the same.                    *)
LEMMA HonestStays ==
  ASSUME NEW s \in Sessions, HonestFor(s),
         AllAttempts(s)' = AllAttempts(s),
         conn'[s].tries = conn[s].tries,
         conn'[s].authenticated <=> conn[s].authenticated,
         conn'[s].username = conn[s].username
  PROVE  HonestFor(s)'
BY DEF HonestFor

(* An entry that is not about a login of this connection is none of its     *)
(* attempts.                                                                *)
LEMMA OthersEntry ==
  ASSUME NEW s \in Sessions, NEW e, FullTrail' = FullTrail \cup {e},
         e.op # "SFTP" \/ e.by # s
  PROVE  AllAttempts(s)' = AllAttempts(s)
BY DEF AllAttempts

(* One more answer, and one more entry, which says what was answered.       *)
LEMMA AnswerHonest ==
  ASSUME TypeOK, NEW s \in Sessions, NEW u \in Users, NEW ok \in BOOLEAN,
         HonestFor(s), Answers(s, u, ok), entries' = entries
  PROVE  HonestFor(s)'
<1> DEFINE e == Entry(s, "SFTP", u, conn[s].tries + 1, ok)
<1>1. conn[s].tries \in Nat /\ conn[s].tries < MaxAttempts
  BY SessionsAssumption DEF TypeOK, HandlerType, Answers
<1>2. /\ e \in EntryType /\ e.by = s /\ e.op = "SFTP" /\ e.user = u
      /\ e.n = conn[s].tries + 1 /\ e.success = ok
  BY <1>1, LoginEntry
<1>3. Audit(s, e)
  BY DEF Answers
<1> HIDE DEF e
<1>4. FullTrail' = FullTrail \cup {e}
  BY <1>2, <1>3, AuditJoins
<1>5. AllAttempts(s)' = AllAttempts(s) \cup {e}
  BY <1>2, <1>4 DEF AllAttempts
<1>6. \A d \in AllAttempts(s) : d.n \in 1 .. conn[s].tries
  BY DEF HonestFor
<1>7. e \notin AllAttempts(s)
  BY <1>1, <1>2, <1>6
<1>8. conn'[s].tries = conn[s].tries + 1 /\ ~conn[s].authenticated
  BY DEF Answers, Answered
<1>9. \A d \in AllAttempts(s) : ~d.success
  BY <1>8 DEF HonestFor
<1>10. \A d \in AllAttempts(s)' : d.n \in 1 .. conn'[s].tries
  BY <1>1, <1>2, <1>5, <1>6, <1>8
<1>11. \A k \in 1 .. conn'[s].tries : \E d \in AllAttempts(s)' : d.n = k
  <2>1. \A k \in 1 .. conn[s].tries : \E d \in AllAttempts(s) : d.n = k
    BY DEF HonestFor
  <2>2. \A k \in 1 .. conn'[s].tries :
          k \in 1 .. conn[s].tries \/ k = conn[s].tries + 1
    BY <1>1, <1>8
  <2> QED
    BY <1>2, <1>5, <2>1, <2>2
<1>12. IsFiniteSet(AllAttempts(s)') /\ Cardinality(AllAttempts(s)') = conn'[s].tries
  <2>1. IsFiniteSet(AllAttempts(s)) /\ Cardinality(AllAttempts(s)) = conn[s].tries
    BY DEF HonestFor
  <2>2. /\ IsFiniteSet(AllAttempts(s) \cup {e})
        /\ Cardinality(AllAttempts(s) \cup {e}) = Cardinality(AllAttempts(s)) + 1
    BY <1>7, <2>1, FS_AddElement
  <2> QED
    BY <1>5, <1>8, <2>1, <2>2
<1>13. \A d \in AllAttempts(s)' :
         d.success <=> conn'[s].authenticated /\ d.n = conn'[s].tries
                       /\ d.user = conn'[s].username
  <2>1. ASSUME NEW d \in AllAttempts(s)
        PROVE  d.success <=> conn'[s].authenticated /\ d.n = conn'[s].tries
                             /\ d.user = conn'[s].username
    <3>1. d.n # conn'[s].tries
      BY <1>1, <1>6, <1>8
    <3> QED
      BY <1>9, <3>1
  <2>2. CASE ok
    <3>1. conn'[s].authenticated /\ conn'[s].username = u /\ e.success
      BY <1>2, <2>2 DEF Answers, Answered
    <3> QED
      BY <1>2, <1>5, <1>8, <2>1, <3>1
  <2>3. CASE ~ok
    <3>1. ~conn'[s].authenticated /\ ~e.success
      BY <1>2, <1>8, <2>3 DEF Answers, Answered
    <3> QED
      BY <1>5, <2>1, <3>1
  <2> QED
    BY <2>2, <2>3
<1>14. conn'[s].authenticated => \E d \in AllAttempts(s)' : d.success
  <2>1. CASE ok
    BY <1>2, <1>5, <2>1
  <2>2. CASE ~ok
    BY <1>8, <2>2 DEF Answers, Answered
  <2> QED
    BY <2>1, <2>2
<1> QED
  BY <1>10, <1>11, <1>12, <1>13, <1>14 DEF HonestFor

(* A handler that runs keeps its user, its home and the LOGIN in the trail. *)
LEMMA VerifiedStays ==
  ASSUME RunsAsVerified, Trail \subseteq Trail', NEW s \in Sessions,
         NEW c \in Channels, Runs(s, c),
         channel'[s][c].user = channel[s][c].user,
         channel'[s][c].home = channel[s][c].home
  PROVE  /\ channel'[s][c].home \in UsableHomes
         /\ \E e \in Attempts(s)' : e.success /\ e.user = channel'[s][c].user
<1>1. /\ channel[s][c].home \in UsableHomes
      /\ \E e \in Attempts(s) : e.success /\ e.user = channel[s][c].user
  BY DEF RunsAsVerified
<1>2. Attempts(s) \subseteq Attempts(s)'
  BY DEF Attempts
<1> QED
  BY <1>1, <1>2

(* A longer trail still shows the login that each running handler rests on. *)
LEMMA VerifiedKept ==
  ASSUME RunsAsVerified, Trail \subseteq Trail', channel' = channel
  PROVE  RunsAsVerified'
BY VerifiedStays DEF RunsAsVerified, Runs

(* A step that leaves connections, channels and the full trail alone.       *)
LEMMA TrailStays ==
  ASSUME TrailInv, FullTrail' = FullTrail, Trail \subseteq Trail',
         conn' = conn, channel' = channel
  PROVE  TrailInv'
<1>1. \A s \in Sessions : AllAttempts(s)' = AllAttempts(s)
  BY DEF AllAttempts
<1>2. \A s \in Sessions : HonestFor(s)'
  BY <1>1, HonestStays DEF TrailInv
<1>3. RunsAsVerified'
  BY VerifiedKept DEF TrailInv
<1> QED
  BY <1>2, <1>3 DEF TrailInv

(* An entry about files is nobody's attempt.                                *)
LEMMA FileEntryHonest ==
  ASSUME TypeOK, TrailInv, FileEntry, UNCHANGED <<conn, logVars>>
  PROVE  (\A s \in Sessions : HonestFor(s)') /\ Trail \subseteq Trail'
<1>1. CASE UNCHANGED <<logger, missed>>
  <2>1. FullTrail' = FullTrail /\ Trail' = Trail
    BY <1>1 DEF FullTrail, Trail, HeldEntries, logVars
  <2>2. \A s \in Sessions : AllAttempts(s)' = AllAttempts(s)
    BY <2>1 DEF AllAttempts
  <2> QED
    BY <2>1, <2>2, HonestStays DEF TrailInv
<1>2. ASSUME NEW e \in EntryType, e.op # "SFTP", Audit(e.by, e)
      PROVE  (\A s \in Sessions : HonestFor(s)') /\ Trail \subseteq Trail'
  <2>1. FullTrail' = FullTrail \cup {e} /\ Trail \subseteq Trail'
    BY <1>2, AuditJoins DEF logVars
  <2>2. \A s \in Sessions : AllAttempts(s)' = AllAttempts(s)
    BY <1>2, <2>1, OthersEntry
  <2> QED
    BY <2>1, <2>2, HonestStays DEF TrailInv
<1> QED
  BY <1>1, <1>2 DEF FileEntry

(* A file handler starts for the user and the home of the LOGIN.            *)
LEMMA StartsVerified ==
  ASSUME TypeOK, AuthInv, TrailInv, NEW s \in Sessions, NEW c \in Channels,
         Starts(s, c), Trail \subseteq Trail'
  PROVE  RunsAsVerified'
<1> DEFINE g == NewFileHandler(conn[s].username, conn[s].home_dir)
<1>1. /\ conn[s].username \in Users /\ conn[s].home_dir \in UsableHomes
      /\ conn[s].home_dir \in Homes /\ conn[s].authenticated /\ ~Busy(s)
  BY DEF Starts, AuthInv, Homes
<1>2. g.user = conn[s].username /\ g.home = conn[s].home_dir
  BY <1>1, NewHandlerFields
<1>3. \A t \in Sessions, d \in Channels :
        channel'[t][d] = IF t = s /\ d = c THEN g ELSE channel[t][d]
  BY DEF Starts, Replaced
<1> HIDE DEF g
<1>4. \E e \in AllAttempts(s) : e.success /\ e.user = conn[s].username
  BY <1>1 DEF TrailInv, HonestFor
<1>5. \E e \in Attempts(s) : e.success /\ e.user = conn[s].username
  BY <1>1, <1>4, NotBusyLogged
<1>6. \E e \in Attempts(s)' : e.success /\ e.user = conn[s].username
  BY <1>5 DEF Attempts
<1> SUFFICES ASSUME NEW t \in Sessions, NEW d \in Channels,
                    channel'[t][d].state = "runs"
             PROVE  /\ channel'[t][d].home \in UsableHomes
                    /\ \E e \in Attempts(t)' :
                         e.success /\ e.user = channel'[t][d].user
  BY DEF RunsAsVerified, Runs
<1>7. CASE t = s /\ d = c
  BY <1>1, <1>2, <1>3, <1>6, <1>7
<1>8. CASE ~(t = s /\ d = c)
  <2>1. channel'[t][d] = channel[t][d] /\ Runs(t, d)
    BY <1>3, <1>8 DEF Runs
  <2> QED
    BY <2>1, VerifiedStays DEF TrailInv
<1> QED
  BY <1>7, <1>8

(* It goes on for the same user and home.                                   *)
LEMMA GoesOnVerified ==
  ASSUME TypeOK, TrailInv, NEW s \in Sessions, NEW c \in Channels,
         GoesOn(s, c), Trail \subseteq Trail'
  PROVE  RunsAsVerified'
<1> SUFFICES ASSUME NEW t \in Sessions, NEW d \in Channels,
                    channel'[t][d].state = "runs"
             PROVE  /\ channel'[t][d].home \in UsableHomes
                    /\ \E e \in Attempts(t)' :
                         e.success /\ e.user = channel'[t][d].user
  BY DEF RunsAsVerified, Runs
<1>1. CASE channel' = channel
  BY <1>1, VerifiedStays DEF TrailInv, Runs
<1>2. CASE Replaced(s, c, Open)
  <2>1. channel'[t][d] = channel[t][d]
    BY <1>2 DEF Replaced, Open
  <2> QED
    BY <2>1, VerifiedStays DEF TrailInv, Runs
<1>3. ASSUME Runs(s, c), NEW h \in FileHandlerType,
             SameOwner(channel[s][c], h), Replaced(s, c, h)
      PROVE  /\ channel'[t][d].home \in UsableHomes
             /\ \E e \in Attempts(t)' :
                  e.success /\ e.user = channel'[t][d].user
  <2>1. CASE t = s /\ d = c
    <3>1. /\ channel'[s][c].user = channel[s][c].user
          /\ channel'[s][c].home = channel[s][c].home
      BY <1>3 DEF Replaced, SameOwner
    <3> QED
      BY <1>3, <2>1, <3>1, VerifiedStays DEF TrailInv
  <2>2. CASE ~(t = s /\ d = c)
    <3>1. channel'[t][d] = channel[t][d] /\ Runs(t, d)
      BY <1>3, <2>2 DEF Replaced, Runs
    <3> QED
      BY <3>1, VerifiedStays DEF TrailInv
  <2> QED
    BY <2>1, <2>2
<1> QED
  BY <1>1, <1>2, <1>3 DEF GoesOn

(* A step of an authentication: one more answer, or none.                   *)
LEMMA AuthenticationHonest ==
  ASSUME TypeOK, AuthInv, TrailInv, NEW s \in Sessions, Authentication(s)
  PROVE  TrailInv'
<1>1. UNCHANGED <<adminVars, channel, logVars, now>>
  BY AuthenticationSteps
<1>2. CASE Proceeds(s)
  <2>1. FullTrail' = FullTrail /\ Trail' = Trail
    BY <1>1, <1>2 DEF Proceeds, FullTrail, Trail, HeldEntries, logVars
  <2>2. \A t \in Sessions : AllAttempts(t)' = AllAttempts(t)
    BY <2>1 DEF AllAttempts
  <2>3. \A t \in Sessions : /\ conn'[t].tries = conn[t].tries
                            /\ conn'[t].authenticated <=> conn[t].authenticated
                            /\ conn'[t].username = conn[t].username
    BY <1>2 DEF Proceeds
  <2>4. \A t \in Sessions : HonestFor(t)'
    BY <2>2, <2>3, HonestStays DEF TrailInv
  <2> QED
    BY <1>1, <2>1, <2>4, VerifiedKept DEF TrailInv
<1>3. ASSUME NEW u \in Users, NEW ok \in BOOLEAN, Answers(s, u, ok)
      PROVE  TrailInv'
  <2> DEFINE e == Entry(s, "SFTP", u, conn[s].tries + 1, ok)
  <2>1. e \in EntryType /\ e.by = s
    BY <1>3, LoginEntry DEF Answers
  <2>2. Audit(s, e)
    BY <1>3 DEF Answers
  <2> HIDE DEF e
  <2>3. FullTrail' = FullTrail \cup {e} /\ Trail \subseteq Trail'
    BY <1>1, <2>1, <2>2, AuditJoins DEF logVars
  <2>4. HonestFor(s)'
    BY <1>1, <1>3, AnswerHonest DEF TrailInv, logVars
  <2>5. ASSUME NEW t \in Sessions \ {s} PROVE HonestFor(t)'
    <3>1. AllAttempts(t)' = AllAttempts(t)
      BY <2>1, <2>3, OthersEntry
    <3>2. conn'[t] = conn[t]
      BY <1>3 DEF Answers, Answered
    <3> QED
      BY <3>1, <3>2, HonestStays DEF TrailInv
  <2> QED
    BY <1>1, <2>3, <2>4, <2>5, VerifiedKept DEF TrailInv
<1> QED
  BY <1>2, <1>3, AuthenticationSteps

(* No step of a session, a reader or the log makes the trail lie.           *)
LEMMA TrailStep ==
  ASSUME CoreInv, TrailInv, [Next]_vars
  PROVE  TrailInv'
<1>0. TypeOK /\ AuthInv
  BY DEF CoreInv
<1>1. ASSUME NEW s \in Sessions, Authentication(s) PROVE TrailInv'
  BY <1>0, <1>1, AuthenticationHonest
<1>2. ASSUME NEW s \in Sessions, NEW c \in Channels, FileHandler(s, c)
      PROVE  TrailInv'
  <2>1. /\ Starts(s, c) \/ GoesOn(s, c)
        /\ FileEntry /\ UNCHANGED <<adminVars, conn, logVars, now>>
    BY <1>2, FileHandlerSteps
  <2>2. (\A t \in Sessions : HonestFor(t)') /\ Trail \subseteq Trail'
    BY <1>0, <2>1, FileEntryHonest
  <2>3. RunsAsVerified'
    BY <1>0, <2>1, <2>2, StartsVerified, GoesOnVerified
  <2> QED
    BY <2>2, <2>3 DEF TrailInv
<1>3. ASSUME NEW u \in FtpUsers, NEW opened \in BOOLEAN, FtpGet(u, opened)
      PROVE  TrailInv'
  <2>1. FileEntry /\ UNCHANGED <<adminVars, conn, channel, logVars, now>>
    BY <1>0, <1>3, FtpGetEntry DEF FtpGet
  <2>2. (\A t \in Sessions : HonestFor(t)') /\ Trail \subseteq Trail'
    BY <1>0, <2>1, FileEntryHonest
  <2> QED
    BY <2>1, <2>2, VerifiedKept DEF TrailInv
<1>4. ASSUME NEW r \in Readers, ReaderLocks(r) \/ ReaderAnswers(r)
      PROVE  TrailInv'
  <2>1. FullTrail' = FullTrail /\ Trail' = Trail
    BY <1>0, <1>4, ReadersLogNothing
  <2>2. conn' = conn /\ channel' = channel
    BY <1>4 DEF ReaderLocks, ReaderAnswers
  <2> QED
    BY <2>1, <2>2, TrailStays
<1>5. CASE LogEntry
  <2>1. conn' = conn /\ channel' = channel
    BY <1>5 DEF LogEntry
  <2> QED
    BY <1>0, <1>5, <2>1, LogEntryMoves, TrailStays
<1>6. ASSUME UNCHANGED <<conn, channel, logger, entries, missed>>
      PROVE  TrailInv'
  <2>1. FullTrail' = FullTrail /\ Trail' = Trail
    BY <1>6 DEF FullTrail, Trail, HeldEntries
  <2> QED
    BY <1>6, <2>1, TrailStays
<1>7. ASSUME NEW u \in Users, NEW a \in Accounts \cup {NoAccount},
             SaveAccount(u, a)
      PROVE  TrailInv'
  BY <1>6, <1>7 DEF SaveAccount, logVars
<1>8. CASE WriterThread \/ SetLogLevel \/ Tick
  BY <1>6, <1>8 DEF WriterThread, SetLogLevel, Tick, logVars
<1>9. CASE UNCHANGED vars
  BY <1>6, <1>9 DEF vars
<1> QED
  BY <1>1, <1>2, <1>3, <1>4, <1>5, <1>7, <1>8, <1>9 DEF Next

(* The trail, complete with the entry on its way, is honest at all times.   *)
LEMMA TrailInvariant == Spec => [](CoreInv /\ TrailInv)
<1>1. Init => TrailInv
  <2> SUFFICES ASSUME Init PROVE TrailInv
    OBVIOUS
  <2>1. FullTrail = {}
    BY DEF Init, FullTrail, Trail, HeldEntries
  <2>2. \A s \in Sessions : AllAttempts(s) = {}
    BY <2>1 DEF AllAttempts
  <2>3. \A s \in Sessions : conn[s].tries = 0 /\ ~conn[s].authenticated
    BY DEF Init, NewHandler
  <2>4. \A s \in Sessions : HonestFor(s)
    BY <2>2, <2>3, FS_EmptySet DEF HonestFor
  <2>5. \A s \in Sessions, c \in Channels : ~Runs(s, c)
    BY DEF Init, Runs, Closed
  <2> QED
    BY <2>4, <2>5 DEF TrailInv, RunsAsVerified
<1>2. CoreInv /\ TrailInv /\ [Next]_vars => TrailInv'
  BY TrailStep
<1> QED
  BY <1>1, <1>2, CoreInvariant, PTL DEF Spec

(* Once a request is answered, the entries of the audit trail about logins  *)
(* of its connection, the ones dropped on a taken mutex included, are       *)
(* exactly one per answer, and only the answer that accepted it says LOGIN, *)
(* for the user the connection goes on with: for any number of connections  *)
(* that share the mutex with the file handlers, the FTP sessions and the    *)
(* GUI.                                                                     *)
THEOREM TrailIsHonest == Spec => []TrailHonest
<1>1. CoreInv /\ TrailInv => TrailHonest
  <2> SUFFICES ASSUME CoreInv, TrailInv, NEW s \in Sessions, ~Busy(s)
               PROVE  /\ {e.n : e \in Attempts(s)} = 1 .. conn[s].tries
                      /\ Cardinality(Attempts(s)) = conn[s].tries
                      /\ \A e \in Attempts(s) :
                           e.success <=>
                             conn[s].authenticated /\ e.n = conn[s].tries
                             /\ e.user = conn[s].username
    BY DEF TrailHonest
  <2>1. HonestFor(s) /\ Attempts(s) = AllAttempts(s)
    BY NotBusyLogged DEF CoreInv, TrailInv
  <2>2. {e.n : e \in AllAttempts(s)} = 1 .. conn[s].tries
    BY <2>1 DEF HonestFor
  <2> QED
    BY <2>1, <2>2 DEF HonestFor
<1> QED
  BY <1>1, TrailInvariant, PTL

(* A file handler serves the user of a LOGIN of its own connection, and a   *)
(* home that was checked then, whatever the administrator did to the        *)
(* account since.                                                           *)
THEOREM HandlersRunAsVerified == Spec => []RunsAsVerified
<1>1. TrailInv => RunsAsVerified
  BY DEF TrailInv
<1> QED
  BY <1>1, TrailInvariant, PTL

-------------------------------------------------------------------------------
(* The ring of the file logger                                              *)

(* The ring is the end of what was logged, Capacity entries of it.          *)
RingInv ==
  /\ Len(ring) = Smaller(Capacity, Len(entries))
  /\ \A i \in 1 .. Len(ring) :
       ring[i] = entries[Len(entries) - Len(ring) + i].entry

(* Only the writer that has the mutex touches the ring.                     *)
LEMMA RingStep ==
  ASSUME TypeOK, RingInv, [Next]_vars
  PROVE  RingInv'
<1>1. CASE LogEntry
  <2> DEFINE e == logger[1].entry
  <2>1. /\ ring' = Push(ring, e)
        /\ entries' = Append(entries, [entry |-> e, line |-> LineKept])
    BY <1>1 DEF LogEntry
  <2>2. e \in EntryType
    BY <1>1, HeldEntry
  <2>3. /\ ring \in Seq(EntryType) /\ Capacity \in Nat \ {0}
        /\ entries \in Seq([entry : EntryType, line : BOOLEAN])
    BY SessionsAssumption DEF TypeOK
  <2> HIDE DEF e
  <2>4. /\ Len(entries) \in Nat /\ Len(entries') = Len(entries) + 1
        /\ \A i \in 1 .. Len(entries) : entries'[i] = entries[i]
        /\ entries'[Len(entries) + 1].entry = e
    BY <2>1, <2>3
  <2>5. /\ Len(ring) \in Nat
        /\ Len(ring) = IF Capacity < Len(entries) THEN Capacity ELSE Len(entries)
    BY <2>3 DEF RingInv, Smaller
  <2>6. \A i \in 1 .. Len(ring) :
          ring[i] = entries[Len(entries) - Len(ring) + i].entry
    BY DEF RingInv
  <2>7. CASE Len(ring) >= Capacity
    <3>1. ring' = Append(Tail(ring), e)
      BY <2>1, <2>7 DEF Push
    <3>2. /\ Tail(ring) \in Seq(EntryType) /\ Len(Tail(ring)) = Len(ring) - 1
          /\ \A i \in 1 .. Len(ring) - 1 : Tail(ring)[i] = ring[i + 1]
      BY <2>3, <2>7
    <3>3. /\ Len(ring') = Len(ring) /\ ring'[Len(ring)] = e
          /\ \A i \in 1 .. Len(ring) - 1 : ring'[i] = ring[i + 1]
      BY <2>5, <3>1, <3>2
    <3>4. Len(ring') = Capacity /\ Capacity < Len(entries')
          /\ Len(ring) = Capacity /\ Capacity <= Len(entries)
      BY <2>3, <2>4, <2>5, <2>7, <3>3
    <3>5. ASSUME NEW i \in 1 .. Len(ring')
          PROVE  ring'[i] = entries'[Len(entries') - Len(ring') + i].entry
      <4>1. CASE i = Len(ring)
        <5>1. Len(entries') - Len(ring') + i = Len(entries) + 1
          BY <2>4, <2>5, <3>3, <4>1
        <5> QED
          BY <2>4, <3>3, <4>1, <5>1
      <4>2. CASE i # Len(ring)
        <5>1. i \in 1 .. Len(ring) - 1 /\ i + 1 \in 1 .. Len(ring)
          BY <2>5, <3>3, <4>2
        <5>2. Len(entries') - Len(ring') + i = Len(entries) - Len(ring) + (i + 1)
          BY <2>4, <2>5, <3>3, <5>1
        <5>3. Len(entries) - Len(ring) + (i + 1) \in 1 .. Len(entries)
          BY <2>4, <2>5, <3>4, <5>1
        <5> QED
          BY <2>4, <2>6, <3>3, <5>1, <5>2, <5>3
      <4> QED
        BY <4>1, <4>2
    <3> QED
      BY <3>4, <3>5 DEF RingInv, Smaller
  <2>8. CASE ~(Len(ring) >= Capacity)
    <3>1. ring' = Append(ring, e)
      BY <2>1, <2>8 DEF Push
    <3>2. /\ Len(ring') = Len(ring) + 1 /\ ring'[Len(ring) + 1] = e
          /\ \A i \in 1 .. Len(ring) : ring'[i] = ring[i]
      BY <2>3, <3>1
    <3>3. Len(ring) = Len(entries)
          /\ Len(ring') = Smaller(Capacity, Len(entries'))
      BY <2>3, <2>4, <2>5, <2>8, <3>2 DEF Smaller
    <3>4. ASSUME NEW i \in 1 .. Len(ring')
          PROVE  ring'[i] = entries'[Len(entries') - Len(ring') + i].entry
      <4>1. Len(entries') - Len(ring') + i = i /\ Len(entries) - Len(ring) + i = i
        BY <2>4, <2>5, <3>2, <3>3
      <4>2. CASE i = Len(ring) + 1
        BY <2>4, <3>2, <3>3, <4>1, <4>2
      <4>3. CASE i # Len(ring) + 1
        <5>1. i \in 1 .. Len(ring) /\ i \in 1 .. Len(entries)
          BY <2>5, <3>2, <3>3, <4>3
        <5> QED
          BY <2>4, <2>6, <3>2, <4>1, <5>1
      <4> QED
        BY <4>2, <4>3
    <3> QED
      BY <3>3, <3>4 DEF RingInv
  <2> QED
    BY <2>7, <2>8
<1>2. CASE UNCHANGED <<ring, entries>>
  BY <1>2 DEF RingInv
<1>3. ASSUME NEW s \in Sessions, Authentication(s)
      PROVE  UNCHANGED <<ring, entries>>
  BY <1>3 DEF logVars, Authentication, AuthRequest, CheckPassword, CheckKey,
     validate_and_set_home_dir
<1>4. ASSUME NEW s \in Sessions, NEW c \in Channels, FileHandler(s, c)
      PROVE  UNCHANGED <<ring, entries>>
  BY <1>4 DEF logVars, FileHandler, channel_open_session, subsystem_request,
     OpenFile, CloseFile, Transfer, TransferEnds
<1>5. ASSUME NEW u \in FtpUsers, NEW opened \in BOOLEAN, FtpGet(u, opened)
      PROVE  UNCHANGED <<ring, entries>>
  BY <1>5 DEF logVars, FtpGet
<1>6. ASSUME NEW r \in Readers, ReaderLocks(r) \/ ReaderAnswers(r)
      PROVE  UNCHANGED <<ring, entries>>
  BY <1>6 DEF logVars, ReaderLocks, ReaderAnswers
<1>7. ASSUME NEW u \in Users, NEW a \in Accounts \cup {NoAccount},
             SaveAccount(u, a)
      PROVE  UNCHANGED <<ring, entries>>
  BY <1>7 DEF logVars, SaveAccount
<1>8. CASE WriterThread \/ SetLogLevel \/ Tick \/ UNCHANGED vars
  <2>1. UNCHANGED <<ring, entries>>
    BY <1>8 DEF logVars, WriterThread, SetLogLevel, Tick, vars
  <2> QED
    BY <1>2, <2>1
<1> QED
  BY <1>1, <1>2, <1>3, <1>4, <1>5, <1>6, <1>7, <1>8 DEF Next

(* GetFileOpLogContent of the current log answers with the newest entries   *)
(* that were logged, newest first: min(n, Capacity, all) of them, for every *)
(* capacity and every number asked for.                                     *)
LEMMA CurrentLogNewest == Spec => [](\A n \in Counts : CurrentNewest(n))
<1>1. Init => RingInv
  BY SessionsAssumption DEF Init, RingInv, Smaller
<1>2. TypeOK /\ RingInv /\ [Next]_vars => RingInv'
  BY RingStep
<1>3. TypeOK /\ RingInv => \A n \in Counts : CurrentNewest(n)
  <2> SUFFICES ASSUME TypeOK, RingInv, NEW n \in Counts
               PROVE  /\ Len(get_recent_logs(n))
                           = Smaller(n, Smaller(Capacity, Len(entries)))
                      /\ \A i \in 1 .. Len(get_recent_logs(n)) :
                           get_recent_logs(n)[i]
                             = entries[Len(entries) + 1 - i].entry
    BY DEF CurrentNewest
  <2> DEFINE rev == Reverse(ring)
             k == Smaller(n, Len(ring))
  <2>1. /\ n \in Nat /\ Len(ring) \in Nat /\ Len(entries) \in Nat
        /\ ring \in Seq(EntryType)
    BY SessionsAssumption DEF TypeOK
  <2>2. /\ rev \in Seq(EntryType) /\ Len(rev) = Len(ring)
        /\ \A i \in 1 .. Len(ring) : rev[i] = ring[(Len(ring) - i) + 1]
    BY <2>1 DEF Reverse
  <2>3. k \in 0 .. Len(ring)
    BY <2>1 DEF Smaller
  <2>4. get_recent_logs(n) = SubSeq(rev, 1, k)
    BY DEF get_recent_logs
  <2> HIDE DEF rev, k
  <2>5. /\ Len(SubSeq(rev, 1, k)) = k
        /\ \A i \in 1 .. k : SubSeq(rev, 1, k)[i] = rev[i]
    BY <2>1, <2>2, <2>3
  <2>6. ASSUME NEW i \in 1 .. k
        PROVE  rev[i] = entries[Len(entries) + 1 - i].entry
    <3>1. i \in 1 .. Len(ring) /\ (Len(ring) - i) + 1 \in 1 .. Len(ring)
      BY <2>1, <2>3
    <3>2. Len(entries) - Len(ring) + ((Len(ring) - i) + 1) = Len(entries) + 1 - i
      BY <2>1, <3>1
    <3> QED
      BY <2>2, <3>1, <3>2 DEF RingInv
  <2>7. k = Smaller(n, Smaller(Capacity, Len(entries)))
    BY DEF k, RingInv
  <2> QED
    BY <2>4, <2>5, <2>6, <2>7
<1> QED
  BY <1>1, <1>2, <1>3, SessionsTypeCorrect, PTL DEF Spec

-------------------------------------------------------------------------------
(* The log file                                                             *)

(* Among natural numbers there is a least one.                              *)
LEMMA LeastNatural ==
  ASSUME NEW T, T \subseteq Nat, T # {}
  PROVE  \E x \in T : \A y \in T : x <= y
<1>1. PICK x \in T : \A y \in T : ~(<<y, x>> \in OpToRel(<, Nat))
  BY NatLessThanWellFounded, WFMin, Zenon
<1>2. \A y \in T : <<y, x>> \in OpToRel(<, Nat) <=> y < x
  BY DEF OpToRel
<1>3. \A y \in T : ~(y < x)
  BY <1>1, <1>2, Zenon
<1> QED
  BY <1>3

(* Induction, for a set of numbers.                                         *)
LEMMA Induction ==
  ASSUME NEW T, T \subseteq Nat, 0 \in T, \A n \in T : n + 1 \in T
  PROVE  T = Nat
<1> SUFFICES ASSUME Nat \ T # {} PROVE FALSE
  OBVIOUS
<1>1. PICK x \in Nat \ T : \A y \in Nat \ T : x <= y
  BY LeastNatural
<1>2. x - 1 \in Nat /\ x - 1 \in T
  BY <1>1
<1> QED
  BY <1>1, <1>2

(* The last n elements of a sequence.                                       *)
LEMMA LastOfElements ==
  ASSUME NEW X, NEW s \in Seq(X), NEW n \in Nat
  PROVE  /\ LastOf(s, n) \in Seq(X)
         /\ Len(LastOf(s, n)) = Smaller(n, Len(s))
         /\ \A i \in 1 .. Len(LastOf(s, n)) :
              LastOf(s, n)[i] = s[Len(s) - Smaller(n, Len(s)) + i]
<1> DEFINE k == Smaller(n, Len(s))
           l == Len(s)
<1>1. l \in Nat /\ k \in 0 .. l
  BY DEF Smaller
<1> HIDE DEF k, l
<1>2. LastOf(s, n) = SubSeq(s, l - k + 1, l)
  BY DEF LastOf, k, l
<1>3. l - k + 1 \in 1 .. l + 1 /\ l = Len(s)
  BY <1>1 DEF l
<1>4. /\ SubSeq(s, l - k + 1, l) \in Seq(X)
      /\ Len(SubSeq(s, l - k + 1, l)) = k
      /\ \A i \in 1 .. k : SubSeq(s, l - k + 1, l)[i] = s[l - k + i]
  BY <1>1, <1>3
<1> QED
  BY <1>2, <1>4 DEF k, l

(* kept is what tail_lines keeps of lines, line by line.                    *)
Keeps(n, lines, kept) ==
  kept = [i \in 0 .. Len(lines) |->
            IF i = 0 THEN <<>> ELSE KeepTail(n, kept[i - 1], lines[i])]

(* One more line is kept, and at least the last n.                          *)
LEMMA KeepTailElements ==
  ASSUME NEW n \in Nat, NEW s \in Seq(EntryType), NEW e \in EntryType
  PROVE  /\ KeepTail(n, s, e) \in Seq(EntryType)
         /\ Len(KeepTail(n, s, e)) \in {n, Len(s) + 1}
         /\ Len(KeepTail(n, s, e)) <= Len(s) + 1
         /\ \A i \in 1 .. Len(KeepTail(n, s, e)) :
              KeepTail(n, s, e)[i]
                = Append(s, e)[Len(s) + 1 - Len(KeepTail(n, s, e)) + i]
<1> DEFINE grown == Append(s, e)
<1>1. grown \in Seq(EntryType) /\ Len(grown) = Len(s) + 1 /\ Len(s) \in Nat
  OBVIOUS
<1>2. KeepTail(n, s, e) = IF Len(grown) > n * 2 THEN LastOf(grown, n) ELSE grown
  BY DEF KeepTail
<1> HIDE DEF grown
<1>3. CASE Len(grown) > n * 2
  <2>1. Smaller(n, Len(grown)) = n /\ n <= Len(s) + 1
    BY <1>1, <1>3 DEF Smaller
  <2>2. /\ LastOf(grown, n) \in Seq(EntryType) /\ Len(LastOf(grown, n)) = n
        /\ \A i \in 1 .. n : LastOf(grown, n)[i] = grown[Len(s) + 1 - n + i]
    <3>1. /\ LastOf(grown, n) \in Seq(EntryType)
          /\ Len(LastOf(grown, n)) = Smaller(n, Len(grown))
          /\ \A i \in 1 .. Len(LastOf(grown, n)) :
               LastOf(grown, n)[i] = grown[Len(grown) - Smaller(n, Len(grown)) + i]
      BY <1>1, LastOfElements
    <3>2. /\ Len(LastOf(grown, n)) = n
          /\ \A i \in 1 .. n : LastOf(grown, n)[i] = grown[Len(grown) - n + i]
      BY <2>1, <3>1, Zenon
    <3>3. Len(grown) - n = Len(s) + 1 - n
      BY <1>1
    <3> QED
      BY <3>1, <3>2, <3>3, Zenon
  <2>3. KeepTail(n, s, e) = LastOf(grown, n)
    BY <1>2, <1>3
  <2> QED
    BY <2>1, <2>2, <2>3 DEF grown
<1>4. CASE ~(Len(grown) > n * 2)
  <2>1. KeepTail(n, s, e) = grown
    BY <1>2, <1>4
  <2>2. \A i \in 1 .. Len(grown) : Len(s) + 1 - Len(grown) + i = i
    BY <1>1
  <2> QED
    BY <1>1, <2>1, <2>2 DEF grown
<1> QED
  BY <1>3, <1>4

(* The first l steps of what tail_lines keeps.                              *)
KeepsUpto(n, lines, l, kept) ==
  /\ kept \in [0 .. l -> Seq(EntryType)]
  /\ kept[0] = <<>>
  /\ \A i \in 1 .. l : kept[i] = KeepTail(n, kept[i - 1], lines[i])

(* One step more.                                                           *)
LEMMA KeepsOneMore ==
  ASSUME NEW n \in Nat, NEW lines \in Seq(EntryType), NEW l \in Nat,
         l + 1 <= Len(lines), NEW kept, KeepsUpto(n, lines, l, kept)
  PROVE  \E longer : KeepsUpto(n, lines, l + 1, longer)
<1>1. lines[l + 1] \in EntryType
  OBVIOUS
<1>2. kept \in [0 .. l -> Seq(EntryType)] /\ kept[l] \in Seq(EntryType)
  BY DEF KeepsUpto
<1> DEFINE last == KeepTail(n, kept[l], lines[l + 1])
           longer == [i \in 0 .. l + 1 |-> IF i <= l THEN kept[i] ELSE last]
<1>3. last \in Seq(EntryType)
  BY <1>1, <1>2, KeepTailElements
<1> HIDE DEF last
<1>4. /\ longer \in [0 .. l + 1 -> Seq(EntryType)]
      /\ \A i \in 0 .. l : longer[i] = kept[i]
      /\ longer[l + 1] = last
  BY <1>2, <1>3
<1> HIDE DEF longer
<1>5. longer[0] = <<>>
  BY <1>4 DEF KeepsUpto
<1>6. ASSUME NEW i \in 1 .. l + 1
      PROVE  longer[i] = KeepTail(n, longer[i - 1], lines[i])
  <2>1. i - 1 \in 0 .. l /\ longer[i - 1] = kept[i - 1]
    BY <1>4
  <2>2. CASE i \in 1 .. l
    <3>1. longer[i] = kept[i]
      BY <1>4, <2>2
    <3>2. kept[i] = KeepTail(n, kept[i - 1], lines[i])
      BY <2>2 DEF KeepsUpto
    <3> QED
      BY <2>1, <3>1, <3>2
  <2>3. CASE i = l + 1
    <3>1. i - 1 = l
      BY <2>3
    <3> QED
      BY <1>4, <2>1, <2>3, <3>1 DEF last
  <2> QED
    BY <2>2, <2>3
<1>7. KeepsUpto(n, lines, l + 1, longer)
  BY <1>4, <1>5, <1>6 DEF KeepsUpto
<1> QED
  BY <1>7

(* The recursion that defines what is kept has a solution.                  *)
LEMMA KeptExists ==
  ASSUME NEW n \in Nat, NEW lines \in Seq(EntryType)
  PROVE  \E kept : Keeps(n, lines, kept)
<1> DEFINE Upto(l) == \E kept : KeepsUpto(n, lines, l, kept)
           T == {l \in Nat : l <= Len(lines) => Upto(l)}
<1>0. Len(lines) \in Nat
  OBVIOUS
<1>1. Upto(0)
  <2> DEFINE none == [i \in 0 .. 0 |-> <<>>]
  <2>1. none \in [0 .. 0 -> Seq(EntryType)] /\ none[0] = <<>>
    OBVIOUS
  <2> HIDE DEF none
  <2>2. KeepsUpto(n, lines, 0, none)
    BY <2>1 DEF KeepsUpto
  <2> QED
    BY <2>2
<1>2. ASSUME NEW l \in Nat, l + 1 <= Len(lines), Upto(l) PROVE Upto(l + 1)
  BY <1>2, KeepsOneMore, Zenon
<1> HIDE DEF Upto
<1>3. T = Nat
  <2>1. T \subseteq Nat /\ 0 \in T
    BY <1>1
  <2>2. ASSUME NEW l \in T PROVE l + 1 \in T
    <3>1. l \in Nat /\ l + 1 \in Nat /\ (l <= Len(lines) => Upto(l))
      OBVIOUS
    <3>2. l + 1 <= Len(lines) => l <= Len(lines)
      BY <1>0, <3>1
    <3> QED
      BY <1>2, <3>1, <3>2
  <2> HIDE DEF T
  <2> QED
    BY <2>1, <2>2, Induction
<1>4. Upto(Len(lines))
  <2>1. Len(lines) \in T
    BY <1>0, <1>3
  <2> QED
    BY <1>0, <2>1
<1>5. PICK kept : KeepsUpto(n, lines, Len(lines), kept)
  BY <1>4 DEF Upto
<1>6. \A i \in 0 .. Len(lines) :
        kept[i] = IF i = 0 THEN <<>> ELSE KeepTail(n, kept[i - 1], lines[i])
  BY <1>0, <1>5 DEF KeepsUpto
<1>7. kept \in [0 .. Len(lines) -> Seq(EntryType)]
  BY <1>5 DEF KeepsUpto
<1>8. Keeps(n, lines, kept)
  BY <1>6, <1>7 DEF Keeps
<1> QED
  BY <1>8

(* s is the end of the first i of lines, at least n of them if there are.   *)
IsEnd(n, lines, i, s) ==
  /\ s \in Seq(EntryType)
  /\ Smaller(n, i) <= Len(s) /\ Len(s) <= i
  /\ \A j \in 1 .. Len(s) : s[j] = lines[i - Len(s) + j]

(* Keeping one more line leaves the end of one more line.                   *)
LEMMA EndGrows ==
  ASSUME NEW n \in Nat, NEW lines \in Seq(EntryType), NEW i \in Nat,
         i + 1 <= Len(lines), NEW s, IsEnd(n, lines, i, s)
  PROVE  IsEnd(n, lines, i + 1, KeepTail(n, s, lines[i + 1]))
<1> DEFINE e == lines[i + 1]
           t == KeepTail(n, s, e)
           a == Append(s, e)
           k == Len(s)
           m == Len(t)
<1>1. e \in EntryType
  OBVIOUS
<1>2. /\ s \in Seq(EntryType) /\ k \in Nat
      /\ Smaller(n, i) <= k /\ k <= i
      /\ \A j \in 1 .. k : s[j] = lines[i - k + j]
  BY DEF IsEnd
<1> HIDE DEF e
<1>3. /\ t \in Seq(EntryType) /\ m \in {n, k + 1}
      /\ m <= k + 1
      /\ \A j \in 1 .. m : t[j] = a[k + 1 - m + j]
  BY <1>1, <1>2, KeepTailElements
<1> HIDE DEF t
<1>4. m \in Nat
  BY <1>3
<1>5. a[k + 1] = e /\ \A j \in 1 .. k : a[j] = s[j]
  BY <1>1, <1>2
<1> HIDE DEF a, k, m
<1>6. Smaller(n, i + 1) <= m /\ m <= i + 1
  BY <1>2, <1>3, <1>4 DEF Smaller
<1>7. ASSUME NEW j \in 1 .. m PROVE t[j] = lines[(i + 1) - m + j]
  <2> DEFINE q == k + 1 - m + j
  <2>1. q \in 1 .. k + 1 /\ q \in Nat /\ t[j] = a[q]
    BY <1>2, <1>3, <1>4
  <2>2. (i + 1) - m + j = i - k + q
    BY <1>2, <1>4
  <2> HIDE DEF q
  <2>3. CASE q = k + 1
    <3>1. i - k + q = i + 1
      BY <1>2, <2>3
    <3> QED
      BY <1>5, <2>1, <2>2, <2>3, <3>1 DEF e
  <2>4. CASE q # k + 1
    <3>1. q \in 1 .. k
      BY <1>2, <2>1, <2>4
    <3> QED
      BY <1>2, <1>5, <2>1, <2>2, <3>1
  <2> QED
    BY <2>3, <2>4
<1>8. IsEnd(n, lines, i + 1, t)
  BY <1>3, <1>6, <1>7 DEF IsEnd, m
<1> QED
  BY <1>8 DEF t, e

(* What is kept of lines is their end, at least n of them if there are.     *)
LEMMA KeptIsTheEnd ==
  ASSUME NEW n \in Nat, NEW lines \in Seq(EntryType)
  PROVE  IsEnd(n, lines, Len(lines), KeptLines(n, lines))
<1> DEFINE kept == CHOOSE k : Keeps(n, lines, k)
           End(i) == IsEnd(n, lines, i, kept[i])
           T == {i \in Nat : i <= Len(lines) => End(i)}
<1>0. Len(lines) \in Nat
  OBVIOUS
<1>1. Keeps(n, lines, kept)
  BY KeptExists
<1>2. KeptLines(n, lines) = kept[Len(lines)]
  BY DEF KeptLines, Keeps
<1> HIDE DEF kept
<1>3. kept[0] = <<>> /\ \A i \in 1 .. Len(lines) :
                          kept[i] = KeepTail(n, kept[i - 1], lines[i])
  BY <1>0, <1>1 DEF Keeps
<1>4. End(0)
  <2>1. kept[0] \in Seq(EntryType) /\ Len(kept[0]) = 0
    BY <1>3
  <2> QED
    BY <2>1 DEF Smaller, IsEnd
<1>5. ASSUME NEW i \in Nat, i + 1 <= Len(lines), End(i) PROVE End(i + 1)
  <2>1. i + 1 \in 1 .. Len(lines) /\ (i + 1) - 1 = i
    BY <1>0, <1>5
  <2>2. kept[i + 1] = KeepTail(n, kept[i], lines[i + 1])
    BY <1>3, <2>1
  <2>3. IsEnd(n, lines, i + 1, KeepTail(n, kept[i], lines[i + 1]))
    BY <1>5, EndGrows
  <2> QED
    BY <2>2, <2>3
<1> HIDE DEF End
<1>6. T = Nat
  <2>1. T \subseteq Nat /\ 0 \in T
    BY <1>4
  <2>2. ASSUME NEW i \in T PROVE i + 1 \in T
    <3>1. i \in Nat /\ i + 1 \in Nat /\ (i <= Len(lines) => End(i))
      OBVIOUS
    <3>2. i + 1 <= Len(lines) => i <= Len(lines)
      BY <1>0, <3>1
    <3> QED
      BY <1>5, <3>1, <3>2
  <2> HIDE DEF T
  <2> QED
    BY <2>1, <2>2, Induction
<1>7. End(Len(lines))
  <2>1. Len(lines) \in T
    BY <1>0, <1>6
  <2> QED
    BY <1>0, <2>1
<1> QED
  BY <1>2, <1>7 DEF End

(* tail_lines answers with the last n lines of the file.                    *)
LEMMA TailLinesElements ==
  ASSUME NEW n \in Nat, file \in Seq(EntryType)
  PROVE  /\ Len(tail_lines(n)) = Smaller(n, Len(file))
         /\ \A i \in 1 .. Len(tail_lines(n)) :
              tail_lines(n)[i] = file[Len(file) - Len(tail_lines(n)) + i]
<1> DEFINE kept == KeptLines(n, file)
           c == Smaller(n, Len(kept))
<1>1. /\ kept \in Seq(EntryType) /\ Len(kept) \in Nat /\ Len(file) \in Nat
      /\ Smaller(n, Len(file)) <= Len(kept) /\ Len(kept) <= Len(file)
      /\ \A j \in 1 .. Len(kept) : kept[j] = file[Len(file) - Len(kept) + j]
  BY KeptIsTheEnd DEF IsEnd
<1>2. tail_lines(n) = LastOf(kept, n)
  BY DEF tail_lines
<1> HIDE DEF kept
<1>3. c = Smaller(n, Len(file)) /\ c \in 0 .. Len(kept)
  BY <1>1 DEF Smaller
<1>4. /\ Len(LastOf(kept, n)) = c
      /\ \A i \in 1 .. c : LastOf(kept, n)[i] = kept[Len(kept) - c + i]
  BY <1>1, LastOfElements, ZenonT(30)
<1> HIDE DEF c
<1>5. ASSUME NEW i \in 1 .. c
      PROVE  LastOf(kept, n)[i] = file[Len(file) - c + i]
  <2>1. /\ Len(kept) - c + i \in 1 .. Len(kept)
        /\ Len(file) - Len(kept) + (Len(kept) - c + i) = Len(file) - c + i
    BY <1>1, <1>3
  <2> QED
    BY <1>1, <1>4, <2>1
<1> QED
  BY <1>2, <1>3, <1>4, <1>5

(* The lines of the file and those on their way to it are the entries that  *)
(* the level let through, each at its place and none left out.              *)
FileInv ==
  /\ Len(file) + Len(queue) = LineNumber(Len(entries))
  /\ \A p \in 1 .. Len(file) + Len(queue) :
       \E k \in 1 .. Len(entries) :
         /\ entries[k].line /\ LineNumber(k) = p
         /\ (file \o queue)[p] = entries[k].entry

(* The writer thread moves a line; the lines stay the same.                 *)
LEMMA HeadMoves ==
  ASSUME NEW X, NEW f \in Seq(X), NEW q \in Seq(X), q # <<>>
  PROVE  /\ Append(f, Head(q)) \o Tail(q) = f \o q
         /\ Len(Append(f, Head(q))) + Len(Tail(q)) = Len(f) + Len(q)
<1> DEFINE a == Append(f, Head(q))
           b == Tail(q)
<1>1. /\ a \in Seq(X) /\ b \in Seq(X) /\ Len(f) \in Nat /\ Len(q) \in Nat
      /\ Len(a) = Len(f) + 1 /\ Len(b) = Len(q) - 1 /\ Len(q) > 0
      /\ \A i \in 1 .. Len(f) : a[i] = f[i]
      /\ a[Len(f) + 1] = q[1]
      /\ \A i \in 1 .. Len(q) - 1 : b[i] = q[i + 1]
  OBVIOUS
<1> HIDE DEF a, b
<1>2. /\ a \o b \in Seq(X) /\ Len(a \o b) = Len(f) + Len(q)
      /\ f \o q \in Seq(X) /\ Len(f \o q) = Len(f) + Len(q)
  <2>1. a \in Seq(X) /\ b \in Seq(X) /\ Len(a) + Len(b) = Len(f) + Len(q)
    BY <1>1
  <2>2. a \o b \in Seq(X) /\ Len(a \o b) = Len(a) + Len(b)
    BY <2>1
  <2>3. f \o q \in Seq(X) /\ Len(f \o q) = Len(f) + Len(q)
    OBVIOUS
  <2> QED
    BY <2>1, <2>2, <2>3
<1>3. ASSUME NEW i \in 1 .. Len(f) + Len(q) PROVE (a \o b)[i] = (f \o q)[i]
  <2>1. CASE i <= Len(f)
    BY <1>1, <2>1
  <2>2. CASE i = Len(f) + 1
    BY <1>1, <2>2
  <2>3. CASE i > Len(f) + 1
    <3>1. i - Len(a) \in 1 .. Len(b) /\ (i - Len(a)) + 1 = i - Len(f)
      BY <1>1, <2>3
    <3>2. (a \o b)[i] = b[i - Len(a)] /\ (f \o q)[i] = q[i - Len(f)]
      BY <1>1, <2>3
    <3> QED
      BY <1>1, <3>1, <3>2
  <2> QED
    BY <1>1, <2>1, <2>2, <2>3
<1>4. a \o b = f \o q
  <2> DEFINE x == a \o b
             y == f \o q
  <2>1. /\ x \in Seq(X) /\ y \in Seq(X) /\ Len(x) = Len(y) /\ Len(y) \in Nat
        /\ \A i \in 1 .. Len(y) : x[i] = y[i]
    BY <1>1, <1>2, <1>3
  <2> HIDE DEF x, y
  <2>2. x = y
    BY <2>1, SMTT(30)
  <2> QED
    BY <2>2 DEF x, y
<1>5. Len(a) + Len(b) = Len(f) + Len(q)
  BY <1>1
<1> QED
  BY <1>4, <1>5 DEF a, b

(* A line that is queued comes after the others.                            *)
LEMMA LineQueued ==
  ASSUME NEW X, NEW f \in Seq(X), NEW q \in Seq(X), NEW e \in X
  PROVE  /\ Len(f) + Len(Append(q, e)) = Len(f) + Len(q) + 1
         /\ (f \o Append(q, e))[Len(f) + Len(q) + 1] = e
         /\ \A i \in 1 .. Len(f) + Len(q) :
              (f \o Append(q, e))[i] = (f \o q)[i]
<1> DEFINE b == Append(q, e)
<1>1. /\ b \in Seq(X) /\ Len(f) \in Nat /\ Len(q) \in Nat
      /\ Len(b) = Len(q) + 1 /\ b[Len(q) + 1] = e
      /\ \A i \in 1 .. Len(q) : b[i] = q[i]
  OBVIOUS
<1> HIDE DEF b
<1>2. Len(f) + Len(b) = Len(f) + Len(q) + 1
  BY <1>1
<1>3. (f \o b)[Len(f) + Len(q) + 1] = e
  <2>1. (f \o b)[Len(f) + Len(q) + 1] = b[(Len(f) + Len(q) + 1) - Len(f)]
    BY <1>1
  <2>2. (Len(f) + Len(q) + 1) - Len(f) = Len(q) + 1
    BY <1>1
  <2> QED
    BY <1>1, <2>1, <2>2
<1>4. ASSUME NEW i \in 1 .. Len(f) + Len(q) PROVE (f \o b)[i] = (f \o q)[i]
  <2>1. CASE i <= Len(f)
    BY <1>1, <2>1
  <2>2. CASE ~(i <= Len(f))
    <3>1. i - Len(f) \in 1 .. Len(q)
      BY <1>1, <2>2
    <3>2. (f \o b)[i] = b[i - Len(f)] /\ (f \o q)[i] = q[i - Len(f)]
      BY <1>1, <2>2
    <3> QED
      BY <1>1, <3>1, <3>2
  <2> QED
    BY <2>1, <2>2
<1> QED
  BY <1>2, <1>3, <1>4 DEF b

(* A new entry leaves the numbers of the lines before it, and is one more   *)
(* line if it is one.                                                       *)
LEMMA LinesNumbered ==
  ASSUME TypeOK, NEW e, NEW line \in BOOLEAN,
         entries' = Append(entries, [entry |-> e, line |-> line])
  PROVE  /\ Len(entries') = Len(entries) + 1 /\ Len(entries) \in Nat
         /\ entries'[Len(entries) + 1] = [entry |-> e, line |-> line]
         /\ \A k \in 1 .. Len(entries) : entries'[k] = entries[k]
         /\ \A k \in 0 .. Len(entries) : LineNumber(k)' = LineNumber(k)
         /\ LineNumber(Len(entries)) \in Nat
         /\ LineNumber(Len(entries))'
              = LineNumber(Len(entries)) + (IF line THEN 1 ELSE 0)
<1> DEFINE l == Len(entries)
           Upto(k) == {j \in 1 .. k : entries[j].line}
<1>1. /\ l \in Nat /\ Len(entries') = l + 1
      /\ entries'[l + 1] = [entry |-> e, line |-> line]
      /\ \A k \in 1 .. l : entries'[k] = entries[k]
  BY DEF TypeOK
<1> HIDE DEF l
<1>2. ASSUME NEW k \in 0 .. l
      PROVE  {j \in 1 .. k : entries'[j].line} = Upto(k)
  BY <1>1
<1>3. {j \in 1 .. l + 1 : entries'[j].line}
        = IF line THEN Upto(l) \cup {l + 1} ELSE Upto(l)
  <2>1. entries'[l + 1].line = line
    BY <1>1
  <2>2. 1 .. l + 1 = (1 .. l) \cup {l + 1}
    BY <1>1
  <2>3. \A j \in 1 .. l : entries'[j].line = entries[j].line
    BY <1>1
  <2> QED
    BY <2>1, <2>2, <2>3
<1>4. IsFiniteSet(Upto(l)) /\ Cardinality(Upto(l)) \in Nat /\ ~(l + 1 \in Upto(l))
  <2>1. IsFiniteSet(1 .. l)
    BY <1>1, FS_Interval
  <2>2. Upto(l) \in SUBSET (1 .. l) /\ ~(l + 1 \in 1 .. l)
    BY <1>1
  <2> HIDE DEF Upto
  <2>3. IsFiniteSet(Upto(l))
    BY <2>1, <2>2, FS_Subset
  <2> QED
    BY <2>2, <2>3, FS_CardinalityType
<1>5. Cardinality(Upto(l) \cup {l + 1}) = Cardinality(Upto(l)) + 1
  <2> HIDE DEF Upto
  <2> QED
    BY <1>4, FS_AddElement
<1>6. \A k : LineNumber(k) = Cardinality(Upto(k))
  BY DEF LineNumber
<1>7. \A k : LineNumber(k)' = Cardinality({j \in 1 .. k : entries'[j].line})
  BY DEF LineNumber
<1> HIDE DEF Upto
<1>8. \A k \in 0 .. l : LineNumber(k)' = LineNumber(k)
  BY <1>2, <1>6, <1>7
<1>9. LineNumber(Len(entries))' = LineNumber(l) + (IF line THEN 1 ELSE 0)
      /\ LineNumber(l) \in Nat
  <2>1. LineNumber(Len(entries))'
          = Cardinality({j \in 1 .. l + 1 : entries'[j].line})
    BY <1>1 DEF LineNumber
  <2>2. LineNumber(l) = Cardinality(Upto(l))
    BY <1>6
  <2>3. LineNumber(Len(entries))'
          = Cardinality(IF line THEN Upto(l) \cup {l + 1} ELSE Upto(l))
    BY <1>3, <2>1
  <2>4. CASE line
    BY <1>4, <1>5, <2>2, <2>3, <2>4
  <2>5. CASE ~line
    BY <1>4, <2>2, <2>3, <2>5
  <2> QED
    BY <2>4, <2>5
<1> QED
  BY <1>1, <1>8, <1>9 DEF l

(* Entries reach the queue and lines the file in the order they were made.  *)
LEMMA FileStep ==
  ASSUME TypeOK, FileInv, [Next]_vars
  PROVE  FileInv'
<1>0. /\ file \in Seq(EntryType) /\ queue \in Seq(EntryType)
      /\ Len(file) \in Nat /\ Len(queue) \in Nat
  BY DEF TypeOK
<1>1. CASE LogEntry
  <2> DEFINE e == logger[1].entry
             l == Len(entries)
             m == Len(file) + Len(queue)
             lines == file \o queue
             lines1 == file' \o queue'
             m1 == Len(file') + Len(queue')
  <2>1. /\ queue' = IF LineKept THEN Append(queue, e) ELSE queue
        /\ entries' = Append(entries, [entry |-> e, line |-> LineKept])
        /\ file' = file
    BY <1>1 DEF LogEntry
  <2>2. e \in EntryType /\ LineKept \in BOOLEAN
    BY <1>1, HeldEntry DEF LineKept
  <2> HIDE DEF e
  <2>3. /\ Len(entries') = l + 1 /\ l \in Nat
        /\ entries'[l + 1] = [entry |-> e, line |-> LineKept]
        /\ \A k \in 1 .. l : entries'[k] = entries[k]
        /\ \A k \in 0 .. l : LineNumber(k)' = LineNumber(k)
        /\ LineNumber(l) \in Nat
        /\ LineNumber(Len(entries))'
             = LineNumber(l) + (IF LineKept THEN 1 ELSE 0)
    BY <2>1, <2>2, LinesNumbered
  <2>4. /\ m = LineNumber(l)
        /\ \A p \in 1 .. m : \E k \in 1 .. l :
             entries[k].line /\ LineNumber(k) = p /\ lines[p] = entries[k].entry
    BY DEF FileInv
  <2>5. /\ m \in Nat /\ m1 = m + (IF LineKept THEN 1 ELSE 0)
        /\ \A p \in 1 .. m : lines1[p] = lines[p]
        /\ LineKept => lines1[m + 1] = e
    <3>1. CASE ~LineKept
      <4>1. file' = file /\ queue' = queue
        BY <2>1, <3>1
      <4> QED
        BY <1>0, <3>1, <4>1
    <3>2. CASE LineKept
      <4>1. file' = file /\ queue' = Append(queue, e)
        BY <2>1, <3>2
      <4>2. /\ Len(file) + Len(Append(queue, e)) = m + 1
            /\ (file \o Append(queue, e))[m + 1] = e
            /\ \A p \in 1 .. m : (file \o Append(queue, e))[p] = lines[p]
        BY <1>0, <2>2, LineQueued
      <4> QED
        BY <1>0, <3>2, <4>1, <4>2
    <3> QED
      BY <3>1, <3>2
  <2> HIDE DEF l, m, lines, lines1, m1
  <2>6. m1 = LineNumber(Len(entries))'
    BY <2>3, <2>4, <2>5
  <2>7. ASSUME NEW p \in 1 .. m1
        PROVE  \E k \in 1 .. Len(entries') :
                 /\ entries'[k].line /\ LineNumber(k)' = p
                 /\ lines1[p] = entries'[k].entry
    <3>1. CASE p \in 1 .. m
      <4>1. PICK k \in 1 .. l :
              /\ entries[k].line /\ LineNumber(k) = p
              /\ lines[p] = entries[k].entry
        BY <2>4, <3>1
      <4>2. k \in 0 .. l /\ k \in 1 .. Len(entries')
        BY <2>3
      <4>3. entries'[k] = entries[k] /\ LineNumber(k)' = LineNumber(k)
        BY <2>3, <4>2
      <4>4. lines1[p] = lines[p]
        BY <2>5, <3>1
      <4>5. /\ entries'[k].line /\ LineNumber(k)' = p
            /\ lines1[p] = entries'[k].entry
        BY <4>1, <4>3, <4>4
      <4> QED
        BY <4>2, <4>5
    <3>2. CASE ~(p \in 1 .. m)
      <4>1. LineKept /\ p = m + 1 /\ m1 = m + 1
        BY <2>5, <3>2
      <4>2. PICK k \in 1 .. Len(entries') : k = Len(entries')
        BY <2>3
      <4>3. LineNumber(k)' = LineNumber(Len(entries))'
        BY <4>2 DEF LineNumber
      <4>4. entries'[k] = [entry |-> e, line |-> LineKept]
        BY <2>3, <4>2
      <4>5. entries'[k].line /\ entries'[k].entry = e
        <5>1. /\ [entry |-> e, line |-> LineKept].line = LineKept
              /\ [entry |-> e, line |-> LineKept].entry = e
          OBVIOUS
        <5> QED
          BY <4>1, <4>4, <5>1, Zenon
      <4>6. LineNumber(k)' = p /\ lines1[p] = e
        BY <2>5, <2>6, <4>1, <4>3
      <4> QED
        BY <4>5, <4>6
    <3> QED
      BY <3>1, <3>2
  <2> QED
    BY <2>6, <2>7 DEF FileInv, m1, lines1
<1>2. CASE WriterThread
  <2>1. /\ queue # <<>> /\ file' = Append(file, Head(queue))
        /\ queue' = Tail(queue) /\ entries' = entries
    BY <1>2 DEF WriterThread
  <2>2. /\ file' \o queue' = file \o queue
        /\ Len(file') + Len(queue') = Len(file) + Len(queue)
    BY <1>0, <2>1, HeadMoves
  <2>3. /\ LineNumber(Len(entries))' = LineNumber(Len(entries))
        /\ \A k : LineNumber(k)' = LineNumber(k)
    BY <2>1 DEF LineNumber
  <2> QED
    BY <2>1, <2>2, <2>3, ZenonT(30) DEF FileInv
<1>3. CASE UNCHANGED <<file, queue, entries>>
  <2>1. /\ LineNumber(Len(entries))' = LineNumber(Len(entries))
        /\ \A k : LineNumber(k)' = LineNumber(k)
    BY <1>3 DEF LineNumber
  <2> QED
    BY <1>3, <2>1 DEF FileInv
<1>4. ASSUME NEW s \in Sessions, Authentication(s)
      PROVE  UNCHANGED <<file, queue, entries>>
  BY <1>4 DEF logVars, Authentication, AuthRequest, CheckPassword, CheckKey,
     validate_and_set_home_dir
<1>5. ASSUME NEW s \in Sessions, NEW c \in Channels, FileHandler(s, c)
      PROVE  UNCHANGED <<file, queue, entries>>
  BY <1>5 DEF logVars, FileHandler, channel_open_session, subsystem_request,
     OpenFile, CloseFile, Transfer, TransferEnds
<1>6. ASSUME NEW u \in FtpUsers, NEW opened \in BOOLEAN, FtpGet(u, opened)
      PROVE  UNCHANGED <<file, queue, entries>>
  BY <1>6 DEF logVars, FtpGet
<1>7. ASSUME NEW r \in Readers, ReaderLocks(r) \/ ReaderAnswers(r)
      PROVE  UNCHANGED <<file, queue, entries>>
  BY <1>7 DEF logVars, ReaderLocks, ReaderAnswers
<1>8. ASSUME NEW u \in Users, NEW a \in Accounts \cup {NoAccount},
             SaveAccount(u, a)
      PROVE  UNCHANGED <<file, queue, entries>>
  BY <1>8 DEF logVars, SaveAccount
<1>9. CASE SetLogLevel \/ Tick \/ UNCHANGED vars
  <2>1. UNCHANGED <<file, queue, entries>>
    BY <1>9 DEF logVars, SetLogLevel, Tick, vars
  <2> QED
    BY <1>3, <2>1
<1> QED
  BY <1>1, <1>2, <1>3, <1>4, <1>5, <1>6, <1>7, <1>8, <1>9 DEF Next

(* What GetFileOpLogContent answers is the newest of what was logged: from  *)
(* memory min(n, Capacity, all) entries, newest first; from the file its    *)
(* last n lines, each an entry that the level let through, at its place and *)
(* with none left out.  For every capacity, number asked for and length of  *)
(* the file, whatever the writer thread has still to write.                 *)
THEOREM RepliesAreNewest == Spec => []RepliesNewest
<1>1. Init => FileInv
  <2> SUFFICES ASSUME Init PROVE FileInv
    OBVIOUS
  <2>1. file = <<>> /\ queue = <<>> /\ entries = <<>>
    BY DEF Init
  <2>2. LineNumber(Len(entries)) = 0
    <3>1. {j \in 1 .. Len(entries) : entries[j].line} = {}
      BY <2>1
    <3> QED
      BY <3>1, FS_EmptySet DEF LineNumber
  <2> QED
    BY <2>1, <2>2 DEF FileInv
<1>2. TypeOK /\ FileInv /\ [Next]_vars => FileInv'
  BY FileStep
<1>3. TypeOK /\ FileInv => \A n \in Counts : SavedNewest(n)
  <2> SUFFICES ASSUME TypeOK, FileInv, NEW n \in Counts PROVE SavedNewest(n)
    OBVIOUS
  <2> DEFINE saved == tail_lines(n)
             c == Len(saved)
             f == Len(file)
  <2>1. /\ n \in Nat /\ f \in Nat /\ Len(queue) \in Nat
        /\ file \in Seq(EntryType) /\ queue \in Seq(EntryType)
    BY SessionsAssumption DEF TypeOK
  <2>2. /\ c = Smaller(n, f)
        /\ \A i \in 1 .. c : saved[i] = file[f - c + i]
    BY <2>1, TailLinesElements
  <2>3. \A p \in 1 .. f : (file \o queue)[p] = file[p]
    BY <2>1
  <2>4. c \in 0 .. f
    BY <2>1, <2>2 DEF Smaller
  <2> HIDE DEF saved, c
  <2>5. ASSUME NEW i \in 1 .. c
        PROVE  \E k \in 1 .. Len(entries) :
                 /\ entries[k].line /\ LineNumber(k) = f - c + i
                 /\ saved[i] = entries[k].entry
    <3>1. f - c + i \in 1 .. f /\ f - c + i \in 1 .. f + Len(queue)
      BY <2>1, <2>4
    <3>2. PICK k \in 1 .. Len(entries) :
            /\ entries[k].line /\ LineNumber(k) = f - c + i
            /\ (file \o queue)[f - c + i] = entries[k].entry
      BY <3>1 DEF FileInv
    <3>3. saved[i] = (file \o queue)[f - c + i]
      BY <2>2, <2>3, <3>1
    <3> QED
      BY <3>2, <3>3
  <2> QED
    BY <2>2, <2>5 DEF SavedNewest, saved, c
<1>4. (\A n \in Counts : CurrentNewest(n)) /\ (\A n \in Counts : SavedNewest(n))
        => RepliesNewest
  BY DEF RepliesNewest
<1> QED
  BY <1>1, <1>2, <1>3, <1>4, CurrentLogNewest, SessionsTypeCorrect, PTL
  DEF Spec

================================================================================
