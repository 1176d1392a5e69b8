----------------------------- MODULE SftpSessions ------------------------------
(* The SSH connections of the SFTP server: authentication, channels and the  *)
(* file handler each channel runs, with the two things such a handler shares *)
(* with the rest of the daemon or keeps to itself: the file operation log    *)
(* that every session of both servers writes and the GUI reads, and the      *)
(* speed limiter of the channel.                                             *)
(*                                                                           *)
(* One element of Sessions is one connection.  The user library is given by  *)
(* what the sessions read of it; UserStore has its locks and files.          *)
EXTENDS Integers, FiniteSets, Sequences, SequencesExt

CONSTANTS
  Sessions,     (* SSH connections *)
  Channels,     (* channel numbers a connection can open *)
  FtpUsers,     (* users with an FTP session *)
  Readers,      (* GetFileOpLogContent requests under way at once *)
  Users,
  Accounts,     (* what the administrator can save: records
                   [enabled, home, read, limited] *)
  Initial,      (* the library at start: Users -> Accounts or NoAccount *)
  UsableHomes,  (* homes that exist and are directories *)
  Capacity,     (* max_buffer_size of the file logger: 2000 *)
  Backlog,      (* lines the file-ops writer buffers: the library's default,
                   128000 *)
  Chunks,       (* sizes of READ and WRITE *)
  Counts,       (* numbers of entries the GUI asks for *)
  MaxAttempts,  (* max_auth_attempts of the SSH library *)
  Rate, Second, (* the speed limit: Rate units of data in Second ticks, which
                   are bytes and nanoseconds in the code *)
  MaxEvents     (* bound: entries audited, ticks, changes of the library and
                   changes of the log level, together *)

VARIABLES
  account,      (* per user, the account in the user library *)
  conn,         (* per session, its SftpHandler *)
  channel,      (* per session and channel: closed, open or its file handler *)
  logger,       (* the mutex of the file logger: Free, or who has it for what *)
  ring,         (* the entries the file logger holds, oldest first *)
  queue,        (* lines on their way to the file-ops file *)
  file,         (* lines of the file-ops file *)
  quiet,        (* the log level in force is above INFO *)
  now,          (* the clock *)
  changes,      (* changes of the library and of the log level so far *)
  entries,      (* history: the entries logged, oldest first *)
  missed        (* history: the entries dropped because the logger was taken *)

adminVars == <<account, quiet, changes>>
logVars == <<ring, queue, file, entries>>
vars == <<account, quiet, changes, conn, channel, logger, ring, queue, file,
          entries, now, missed>>

NoAccount == [enabled |-> FALSE, home |-> "none", read |-> FALSE,
              limited |-> FALSE]
NoUser == "nobody"
None == "none"
Free == <<>>                     (* nobody has the mutex *)
Closed == [state |-> "closed"]
Open == [state |-> "open"]

ASSUME SessionsAssumption ==
  /\ Initial \in [Users -> Accounts \cup {NoAccount}]
  /\ NoAccount \notin Accounts
  /\ NoUser \notin Users
  /\ NoAccount.home \notin UsableHomes
  /\ Capacity \in Nat \ {0} /\ Backlog \in Nat
  /\ Rate \in Nat \ {0} /\ Second \in Nat \ {0}
  /\ Chunks \subseteq Nat \ {0}
  /\ Counts \subseteq Nat
  /\ MaxAttempts \in Nat
  /\ FtpUsers \subseteq Users

Exists(u) == account[u] # NoAccount

NewHandler ==
  [stage |-> "idle", who |-> NoUser, found |-> None, via |-> None, tries |-> 0,
   authenticated |-> FALSE, username |-> NoUser, home_dir |-> None]

Init ==
  /\ account = Initial
  /\ conn = [s \in Sessions |-> NewHandler]
  /\ channel = [s \in Sessions |-> [c \in Channels |-> Closed]]
  /\ logger = Free
  /\ ring = <<>> /\ queue = <<>> /\ file = <<>>
  /\ entries = <<>> /\ missed = {}
  /\ quiet = FALSE
  /\ now = 0 /\ changes = 0

-------------------------------------------------------------------------------
(* The file operation log.                                                   *)

Entry(by, op, user, n, success) ==
  [by |-> by, op |-> op, user |-> user, n |-> n, success |-> success]

Room == Len(entries) + Cardinality(missed) + now + changes < MaxEvents

Busy(a) == logger # Free /\ logger[1].by = a

(* try_lock: the writer that gets the mutex logs in its next step, the one   *)
(* that does not goes on without an entry.                                   *)
Audit(a, e) ==
  /\ Room
  /\ IF logger = Free
       THEN /\ logger' = <<[by |-> a, entry |-> e]>>
            /\ UNCHANGED missed
       ELSE /\ missed' = missed \cup {e}
            /\ UNCHANGED logger

(* FileLogger::log with the mutex held.  The line goes to the file-ops file  *)
(* by way of the buffer of a writer thread, unless the global level filter   *)
(* stops it or the buffer is full: the writer is the library's non-blocking  *)
(* one, which drops what it has no room for.                                 *)
LineKept == ~quiet /\ Len(queue) < Backlog

PushUncapped(seq, e) ==   (* mutant: the oldest entry is never popped *)
  Append(seq, e)

Push(seq, e) ==
  Append(IF Len(seq) >= Capacity THEN Tail(seq) ELSE seq, e)

LogEntry ==
  /\ logger # Free /\ logger[1].by \notin Readers
  /\ ring' = Push(ring, logger[1].entry)
  /\ queue' = IF LineKept THEN Append(queue, logger[1].entry) ELSE queue
  /\ entries' = Append(entries, [entry |-> logger[1].entry, line |-> LineKept])
  /\ logger' = Free
  /\ UNCHANGED <<adminVars, conn, channel, file, now, missed>>

WriterThread ==
  /\ queue # <<>>
  /\ file' = Append(file, Head(queue))
  /\ queue' = Tail(queue)
  /\ UNCHANGED <<adminVars, conn, channel, logger, ring, entries, now, missed>>

Smaller(m, n) == IF m < n THEN m ELSE n

LastOf(seq, n) == SubSeq(seq, Len(seq) - Smaller(n, Len(seq)) + 1, Len(seq))

(* GetFileOpLogContent "current": wait for the mutex, then answer with the   *)
(* newest entries of the ring, newest first.                                 *)
ReaderLocks(r) ==
  /\ logger = Free
  /\ logger' = <<[by |-> r]>>
  /\ UNCHANGED <<adminVars, conn, channel, logVars, now, missed>>

get_recent_logs(n) == SubSeq(Reverse(ring), 1, Smaller(n, Len(ring)))

ReaderAnswers(r) ==
  /\ Busy(r)
  /\ logger' = Free
  /\ UNCHANGED <<adminVars, conn, channel, logVars, now, missed>>

(* GetFileOpLogContent of a file, at any time and without the mutex: its     *)
(* lines pass through a vector that is cut back to the last n whenever it    *)
(* has grown beyond 2n.                                                      *)
KeepHead(n, lines, line) ==   (* mutant: the vector is cut at the wrong end *)
  LET grown == Append(lines, line)
  IN IF Len(grown) > n * 2 THEN SubSeq(grown, 1, n) ELSE grown

KeepTail(n, lines, line) ==
  LET grown == Append(lines, line)
  IN IF Len(grown) > n * 2 THEN LastOf(grown, n) ELSE grown

KeptLines(n, lines) ==
  LET kept[i \in 0 .. Len(lines)] ==
        IF i = 0 THEN <<>> ELSE KeepTail(n, kept[i - 1], lines[i])
  IN kept[Len(lines)]

tail_lines(n) == LastOf(KeptLines(n, file), n)

-------------------------------------------------------------------------------
(* Authentication.  A request is a user, a method and whether the client     *)
(* knows the secret; the SSH library answers one request at a time and       *)
(* closes the connection after MaxAttempts rejections.                       *)

Method == {"password", "publickey"}

Idle(s) == conn[s].stage = "idle" /\ ~conn[s].authenticated /\ ~Busy(s)

(* Every answer to a request ends it with one entry in the audit trail.      *)
Ended(h) == [h EXCEPT !.stage = "idle", !.who = NoUser, !.found = None,
                      !.via = None, !.tries = @ + 1]

reject(s, user) ==
  /\ conn' = [conn EXCEPT ![s] = Ended(@)]
  /\ Audit(s, Entry(s, "SFTP", user, conn[s].tries + 1, FALSE))

resolve_user(u) == Exists(u) /\ account[u].enabled

Resolved(h, u, via) ==
  [h EXCEPT !.stage = "resolved", !.who = u, !.found = account[u].home,
            !.via = via]

Checked(h) == [h EXCEPT !.stage = "checked"]

AuthRequest(s, u, via) ==
  /\ Idle(s) /\ conn[s].tries < MaxAttempts
  /\ IF resolve_user(u)
       THEN /\ conn' = [conn EXCEPT ![s] = Resolved(@, u, via)]
            /\ UNCHANGED <<logger, missed>>
       ELSE reject(s, u)
  /\ UNCHANGED <<adminVars, channel, logVars, now>>

(* A password is checked against the library as it is now, and the account   *)
(* must still be enabled; a key only against the key file.                   *)
CheckPassword(s, knows) ==
  /\ conn[s].stage = "resolved" /\ conn[s].via = "password"
  /\ IF knows /\ resolve_user(conn[s].who)
       THEN /\ conn' = [conn EXCEPT ![s] = Checked(@)]
            /\ UNCHANGED <<logger, missed>>
       ELSE reject(s, conn[s].who)
  /\ UNCHANGED <<adminVars, channel, logVars, now>>

CheckKey(s, knows) ==
  /\ conn[s].stage = "resolved" /\ conn[s].via = "publickey"
  /\ IF knows
       THEN /\ conn' = [conn EXCEPT ![s] = Checked(@)]
            /\ UNCHANGED <<logger, missed>>
       ELSE reject(s, conn[s].who)
  /\ UNCHANGED <<adminVars, channel, logVars, now>>

(* The home is the one the account had when the request was resolved.        *)
LoggedIn(h) == [Ended(h) EXCEPT !.home_dir = h.found, !.username = h.who,
                                !.authenticated = TRUE]

(* Mutant: LOGIN is audited as soon as the secret was right.                 *)
ValidateAfterAudit(s) ==
  /\ conn[s].stage = "checked"
  /\ conn' = [conn EXCEPT ![s] = IF @.found \in UsableHomes
                                 THEN LoggedIn(@) ELSE Ended(@)]
  /\ Audit(s, Entry(s, "SFTP", conn[s].who, conn[s].tries + 1, TRUE))
  /\ UNCHANGED <<adminVars, channel, logVars, now>>

validate_and_set_home_dir(s) ==
  /\ conn[s].stage = "checked"
  /\ IF conn[s].found \in UsableHomes
       THEN /\ conn' = [conn EXCEPT ![s] = LoggedIn(@)]
            /\ Audit(s, Entry(s, "SFTP", conn[s].who, conn[s].tries + 1, TRUE))
       ELSE reject(s, conn[s].who)
  /\ UNCHANGED <<adminVars, channel, logVars, now>>

-------------------------------------------------------------------------------
(* Channels.  The SSH library passes them on once a request was accepted.    *)

channel_open_session(s, c) ==
  /\ conn[s].authenticated /\ ~Busy(s)
  /\ channel[s][c].state = "closed"
  /\ channel' = [channel EXCEPT ![s][c] = Open]
  /\ UNCHANGED <<adminVars, conn, logger, logVars, now, missed>>

(* The file handler takes its user and home from the connection and its      *)
(* speed limit from the library, once.                                       *)
NewFileHandler(user, home) ==
  [state |-> "runs", user |-> user, home |-> home, reading |-> FALSE,
   limited |-> Exists(user) /\ account[user].limited,
   since |-> now, last_check |-> now, tokens |-> 0, wanted |-> 0, until |-> now,
   answered |-> 0, calls |-> 0]

SubsystemRereads(s, c) ==   (* mutant: the home of the account as it is now *)
  /\ conn[s].authenticated /\ ~Busy(s)
  /\ channel[s][c].state = "open"
  /\ channel' = [channel EXCEPT ![s][c] =
                   NewFileHandler(conn[s].username, account[conn[s].username].home)]
  /\ UNCHANGED <<adminVars, conn, logger, logVars, now, missed>>

subsystem_request(s, c) ==
  /\ conn[s].authenticated /\ ~Busy(s)
  /\ channel[s][c].state = "open"
  /\ channel' = [channel EXCEPT ![s][c] =
                   NewFileHandler(conn[s].username, conn[s].home_dir)]
  /\ UNCHANGED <<adminVars, conn, logger, logVars, now, missed>>

Runs(s, c) == channel[s][c].state = "runs"

(* A handler answers one request at a time.                                  *)
Listens(s, c) == Runs(s, c) /\ channel[s][c].wanted = 0 /\ ~Busy(<<s, c>>)

-------------------------------------------------------------------------------
(* File operations.  Permissions are looked up at OPEN and not at READ; the  *)
(* branch of OPEN for writing differs in the permission it asks for, and is  *)
(* in HomeFiles with the quota.                                              *)

permissions(u) == Exists(u) /\ account[u].read

Reading(h, on) == [h EXCEPT !.reading = on]

OpenFile(s, c) ==
  /\ Listens(s, c) /\ ~channel[s][c].reading
  /\ IF permissions(channel[s][c].user)
       THEN /\ channel' = [channel EXCEPT ![s][c] = Reading(@, TRUE)]
            /\ UNCHANGED <<logger, missed>>
       ELSE /\ Audit(<<s, c>>, Entry(<<s, c>>, "OPEN", channel[s][c].user, 0, FALSE))
            /\ UNCHANGED channel
  /\ UNCHANGED <<adminVars, conn, logVars, now>>

CloseFile(s, c) ==
  /\ Listens(s, c) /\ channel[s][c].reading
  /\ channel' = [channel EXCEPT ![s][c] = Reading(@, FALSE)]
  /\ UNCHANGED <<adminVars, conn, logger, logVars, now, missed>>

(* SpeedLimiter::throttle up to its sleep: what was earned since the last    *)
(* call is credited, and what is short is slept for.                         *)
Earned(h) == h.tokens + ((now - h.last_check) * Rate) \div Second

Sleep(h, n) == IF Earned(h) < n THEN ((n - Earned(h)) * Second) \div Rate ELSE 0

ThrottledForgets(h, n) ==   (* mutant: last_check stays *)
  [h EXCEPT !.tokens = Earned(h), !.calls = @ + 1,
            !.wanted = n, !.until = now + Sleep(h, n)]

Throttled(h, n) ==
  [h EXCEPT !.last_check = now, !.tokens = Earned(h), !.calls = @ + 1,
            !.wanted = n, !.until = now + Sleep(h, n)]

Transfer(s, c, n) ==
  /\ Listens(s, c) /\ channel[s][c].reading /\ channel[s][c].limited
  /\ channel' = [channel EXCEPT ![s][c] = Throttled(@, n)]
  /\ UNCHANGED <<adminVars, conn, logger, logVars, now, missed>>

(* After the sleep the tokens are spent and the request is answered.         *)
Spent(h) ==
  [h EXCEPT !.tokens = IF @ > h.wanted THEN @ - h.wanted ELSE 0,
            !.answered = @ + h.wanted, !.wanted = 0]

TransferEnds(s, c) ==
  /\ Runs(s, c) /\ channel[s][c].wanted > 0 /\ now >= channel[s][c].until
  /\ channel' = [channel EXCEPT ![s][c] = Spent(@)]
  /\ UNCHANGED <<adminVars, conn, logger, logVars, now, missed>>

(* RETR of the FTP server, which has no limiter, and its entry.              *)
FtpGet(u, opened) ==
  /\ ~Busy(u)
  /\ Audit(u, Entry(u, "DOWNLOAD", u, 0, opened))
  /\ UNCHANGED <<adminVars, conn, channel, logVars, now>>

-------------------------------------------------------------------------------
(* The administrator saves or removes an account, or moves the log level     *)
(* across INFO; time passes.                                                 *)

SaveAccount(u, a) ==
  /\ Room
  /\ account[u] # a
  /\ account' = [account EXCEPT ![u] = a]
  /\ changes' = changes + 1
  /\ UNCHANGED <<quiet, conn, channel, logger, logVars, now, missed>>

SetLogLevel ==
  /\ Room
  /\ quiet' = ~quiet
  /\ changes' = changes + 1
  /\ UNCHANGED <<account, conn, channel, logger, logVars, now, missed>>

Limited(s, c) == Runs(s, c) /\ channel[s][c].limited

(* Only limiters read the clock, so it runs while there is one.              *)
Tick ==
  /\ Room
  /\ \E s \in Sessions, c \in Channels : Limited(s, c)
  /\ now' = now + 1
  /\ UNCHANGED <<adminVars, conn, channel, logger, logVars,
                 missed>>

Authentication(s) ==
  \/ \E u \in Users, via \in Method : AuthRequest(s, u, via)
  \/ \E knows \in BOOLEAN : CheckPassword(s, knows) \/ CheckKey(s, knows)
  \/ validate_and_set_home_dir(s)

FileHandler(s, c) ==
  \/ channel_open_session(s, c)
  \/ subsystem_request(s, c)
  \/ OpenFile(s, c)
  \/ CloseFile(s, c)
  \/ \E n \in Chunks : Transfer(s, c, n)
  \/ TransferEnds(s, c)

Next ==
  \/ \E s \in Sessions : Authentication(s)
  \/ \E s \in Sessions, c \in Channels : FileHandler(s, c)
  \/ \E u \in FtpUsers, opened \in BOOLEAN : FtpGet(u, opened)
  \/ \E r \in Readers : ReaderLocks(r) \/ ReaderAnswers(r)
  \/ \E u \in Users, a \in Accounts \cup {NoAccount} : SaveAccount(u, a)
  \/ LogEntry
  \/ WriterThread
  \/ SetLogLevel
  \/ Tick

Spec == Init /\ [][Next]_vars

-------------------------------------------------------------------------------
(* Properties.                                                               *)

(* Who writes the file operation log: connections, file handlers and FTP     *)
(* sessions, none of which is a request of the GUI.                          *)
Actors == Sessions \cup (Sessions \X Channels) \cup FtpUsers

ASSUME ReadersAssumption == Readers \cap Actors = {}

EntryType == [by : Actors, op : {"SFTP", "OPEN", "DOWNLOAD"}, user : Users,
              n : 0 .. MaxAttempts, success : BOOLEAN]

Homes == UsableHomes \cup {a.home : a \in Accounts \cup {NoAccount}}

HandlerType ==
  [stage : {"idle", "resolved", "checked"}, who : Users \cup {NoUser},
   found : Homes, via : Method \cup {None}, tries : 0 .. MaxAttempts,
   authenticated : BOOLEAN, username : Users \cup {NoUser}, home_dir : Homes]

FileHandlerType ==
  [state : {"runs"}, user : Users, home : Homes, reading : BOOLEAN,
   limited : BOOLEAN, since : Nat, last_check : Nat, tokens : Nat,
   wanted : Chunks \cup {0}, until : Nat, answered : Nat,
   calls : Nat]

(* The variables have their types: the ring never outgrows Capacity, the     *)
(* mutex is held for an entry of its holder or by a reader, and a connection *)
(* that is past its login and a file handler always have a user and a home   *)
(* of the library.                                                           *)
TypeOK ==
  /\ account \in [Users -> Accounts \cup {NoAccount}]
  /\ conn \in [Sessions -> HandlerType]
  /\ \A s \in Sessions : conn[s].authenticated => conn[s].username \in Users
  /\ channel \in [Sessions -> [Channels -> FileHandlerType \cup {Closed, Open}]]
  /\ \/ logger = Free
     \/ \E r \in Readers : logger = <<[by |-> r]>>
     \/ \E e \in EntryType : logger = <<[by |-> e.by, entry |-> e]>>
  /\ ring \in Seq(EntryType) /\ Len(ring) <= Capacity
  /\ queue \in Seq(EntryType) /\ file \in Seq(EntryType)
  /\ entries \in Seq([entry : EntryType, line : BOOLEAN])
  /\ missed \subseteq EntryType
  /\ quiet \in BOOLEAN /\ now \in Nat /\ changes \in Nat

Trail == missed \cup {entries[i].entry : i \in 1 .. Len(entries)}

Attempts(s) == {e \in Trail : e.op = "SFTP" /\ e.by = s}

(* Audit trail of the logins (handler.rs audit, reject): once a request is   *)
(* answered, the entries logged and those dropped on a taken mutex are, of   *)
(* each connection, exactly one per answer, and only the answer that         *)
(* accepted it says LOGIN, for the user it goes on with.                     *)
TrailHonest ==
  \A s \in Sessions :
    ~Busy(s) =>
      /\ {e.n : e \in Attempts(s)} = 1 .. conn[s].tries
      /\ Cardinality(Attempts(s)) = conn[s].tries
      /\ \A e \in Attempts(s) :
           e.success <=> conn[s].authenticated /\ e.n = conn[s].tries
                         /\ e.user = conn[s].username

(* A file handler (subsystem_request, SftpFileHandler::new) serves the user  *)
(* of a LOGIN of its own connection and a home that was checked, whatever    *)
(* became of the account since.                                              *)
RunsAsVerified ==
  \A s \in Sessions, c \in Channels :
    Runs(s, c) =>
      /\ channel[s][c].home \in UsableHomes
      /\ \E e \in Attempts(s) : e.success /\ e.user = channel[s][c].user

(* The number of the line that entry k is, if it is one.                     *)
LineNumber(k) == Cardinality({j \in 1 .. k : entries[j].line})

CurrentNewest(n) ==
  LET current == get_recent_logs(n)
  IN /\ Len(current) = Smaller(n, Smaller(Capacity, Len(entries)))
     /\ \A i \in 1 .. Len(current) :
          current[i] = entries[Len(entries) + 1 - i].entry

SavedNewest(n) ==
  LET saved == tail_lines(n)
  IN /\ Len(saved) = Smaller(n, Len(file))
     /\ \A i \in 1 .. Len(saved) :
          \E k \in 1 .. Len(entries) :
            /\ entries[k].line /\ LineNumber(k) = Len(file) - Len(saved) + i
            /\ saved[i] = entries[k].entry

(* What GetFileOpLogContent answers (get_recent_logs, tail_lines): from     *)
(* memory the newest entries, newest first, as many as asked for and held;   *)
(* from the file its last lines, oldest first, which are the entries that    *)
(* the level and a full buffer let through, each at its place and none of    *)
(* those left out.                                                           *)
RepliesNewest == \A n \in Counts : CurrentNewest(n) /\ SavedNewest(n)

(* Speed limit (SpeedLimiter::throttle): what a limited channel has answered *)
(* stays within twice its limit, plus what rounding a sleep down to a whole  *)
(* tick gives away per call.  Twice, because the time slept is credited      *)
(* again at the next call.                                                   *)
SentWithinTwiceRate ==
  \A s \in Sessions, c \in Channels :
    Limited(s, c) =>
      LET h == channel[s][c]
      IN h.answered * Second <= 2 * Rate * (now - h.since) + (Rate - 1) * h.calls

================================================================================
