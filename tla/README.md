# A formal model of wftpd

wftpd is a daemon that serves FTP and SFTP to the accounts of a user library,
and is controlled by a GTK front end (wftpg) through gRPC over a Unix socket.
This directory holds TLA+ models of its core, TLC configurations that check
them on small instances, and proofs, checked by TLAPS, of what matters most for
every value of the constants. `PROJECT.json` maps every definition to the lines
of the source it models and lists runs, hazards, findings and theorems.

## The system

| part | state | operations | who calls it |
|---|---|---|---|
| `BackendState` (wftpd/src/state.rs, main.rs) | two slots, each an optional server behind a mutex | start, stop, restart, apply_enabled_flags, stop_all | the control service; the main task at boot and on SIGTERM |
| `FtpServer`, `SftpServer` (ftp, sftp/src/server.rs) | a running flag shared with a detached listener task, a shutdown sender | new, start, stop | `BackendState` |
| configuration (common/src/config.rs, control.rs) | `Config` behind a mutex, config.toml, config.tmp, the reloadable log filter | SaveConfig, SaveLogConfig, Start/Stop's enabled flags, GetConfig | several GUI connections; the GUI's log tab also writes the file itself |
| user library (common/src/users.rs, control.rs) | `UserManager` behind a mutex, users.json, users.json.tmp | SaveUsers, GetUsers, reload, authenticate | GUI connections; every FTP and SFTP login |
| log stream (common/src/tracing_logger.rs, control.rs) | a ring of entries behind a mutex, a broadcast channel, one forwarding task and one bounded channel per watcher | push, recent, subscribe, WatchLogs | every logging thread; the GUI |
| file operations (sftp/src/ops, ftp/src/storage.rs, common/src/server/quota.rs) | the home directory, the handles of an SFTP session, the rights an FTP session logged in with | OPEN, CLOSE, WRITE, SETSTAT, REMOVE, MKDIR, RMDIR, RENAME; put, del, mkd, rmd, rename | clients of the two servers |
| SSH connections (sftp/src/handler.rs, ops/mod.rs) | per connection the authentication state, user and home; per channel a file handler | auth_password, auth_publickey, channel_open_session, subsystem_request, READ and WRITE | SFTP clients, through russh |
| file operation log (common/src/server/file_logger.rs, wftpd/src/logs.rs) | a ring of entries behind a mutex, the file-ops file behind a writer thread | log; GetFileOpLogContent from memory or from a file | every session of both servers; the GUI |
| speed limiter (common/src/server/speed_limiter.rs) | tokens and the time of the last call, one per SFTP channel | throttle | READ and WRITE |
| IP filter (common/src/config.rs, ftp/src/auth.rs) | the lists an FTP server was built with | is_ip_allowed_for | FTP logins |
| GUI editing tabs (wftpg/src/ui: user, server, security, log settings) | copies of the user library and the configuration, the lists and forms shown | toggle, add, edit, remove a user; save a form; add, delete, clear IP rules | the administrator |
| GUI panels (wftpg/src/ui: service tab, log tab, file log tab) | what is shown, the threads and timers that fetch it | refresh, timers, selectors, service buttons, systemctl | the administrator and the GTK main loop |
| login tracker, path resolution, conversion, packaging | see "Not modelled" | | |

What is hard in it:

* *Interleaving.* Every request is a tokio task; the critical sections are short
  and there are awaits between them. Start, stop and restart of one service,
  two saves, a save and a login, a write and a rename all interleave.
* *Two copies.* Configuration and user library exist in memory and on disk (and
  a third time in each GUI). Some writers hold the mutex while they write the
  file, others do not, and all writers of one file share one temporary file.
* *Crashes.* The daemon may die between any two steps and comes back from
  whatever the file holds.
* *Check then act.* The slot is looked at and filled in two critical sections;
  the quota is measured before the write it allows; a rename looks for its
  target first.
* *Timeouts and limits.* stop waits a bounded time for the listener; a slow
  watcher of the log falls behind a channel of bounded size; the file logger's
  ring and the tail reader drop what is old; the speed limiter sleeps.
* *Edit first, call later.* Every tab of the GUI changes its copy before the
  call that may be refused or whose reply may be lost, and keeps the change.
* *Answers out of order.* Each question of a GUI panel has a thread of its own.
* *Skipping instead of waiting.* An audit entry is dropped when the logger is
  taken, a refresh of the status is skipped while another is under way.

What makes each part correct, and so what the properties say: a listener is
always within reach of a stop and the reported status is its status; files are
never half-written and an acknowledged save stays; a login decides by a library
that was in force; nothing promised to a watcher is lost but what the channel
had to overwrite; the quota bounds what is written and rights bound what is
done; a file handler serves a user who logged in, and every login request is
accounted for; what the GUI shows differs from what the daemon has only where
an edit was refused, an answer overtaken or a rule spelled in another way. The
status and a log that refreshes itself catch up. Nothing else does by itself: a
refused edit stays in the copy, and a file view that was overtaken stays as it
is until somebody refreshes it.

## Modules

| module | models | used by |
|---|---|---|
| `ServiceLifecycle` | one service: its slot, the request handlers, the server values and their listener tasks, boot and SIGTERM | `MCServiceLifecycle`, `ServiceLifecycleProofs` |
| `UserStore` | the user library in memory and on disk, SaveUsers step by step, FTP and SFTP logins, crashes | `MCUserStore`, `UserStoreProofs` |
| `ConfigStore` | the configuration in memory and on disk, all requests that change it, the GUI's direct write, crashes and failing writes | `MCConfigStore`, `ConfigStoreProofs` |
| `LogStream` | the ring, the broadcast channel, WatchLogs and its forwarding task, a client that may leave | `MCLogStream`, `LogStreamProofs` |
| `HomeFiles` | the files of one account under SFTP and FTP sessions, rights and quota | `MCHomeFiles`, `HomeFilesProofs` |
| `SftpSessions` | SSH authentication, channels and their file handlers, composed with the file operation log, its readers and the speed limiter | `MCSftpSessions`, `SftpSessionsProofs` |
| `GuiEditing` | the tabs that edit accounts, settings and IP rules, composed with the daemon that takes their saves and the FTP server that applies the rules | `MCGuiEditing`, `GuiEditingProofs` |
| `EditBuffer` | abstract: a draft that is published whole or not at all | implemented by the user tab of `GuiEditing` |
| `GuiPanels` | the tabs that show status and logs, their threads and timers, a daemon that stops and comes back | `MCGuiPanels`, `GuiPanelsProofs` |

An `MC` module extends its component and holds only values for constants,
symmetry sets and bounds of the exploration; a `Proofs` module extends its
component and TLAPS. Definitions called *faulty variant* or *mutant* in a component are
used by no specification: each is a plausible mistake that some property must
notice (`mutants` in `PROJECT.json`).

### ServiceLifecycle

One instance is one service; `DropSignals` says which. The FTP handle owns the
only shutdown sender, so that dropping the handle ends the listener; the SFTP
task holds a clone of it, so that dropping signals nobody. `slot` is
`BackendState.ftp_server` or `sftp_server`; `phase`, `running` and `signalled`
are a server's task, flag and shutdown receiver; `pc`, `op` and `mine` are the
request handlers. A start is `CheckSlot`, `StartServer`, `Install`; a stop is
`TakeSlot`, `SignalStop`, `WaitEnds`; a restart is both; SaveConfig and the boot
go through `ApplySnapshot` and `ApplyDecide`; the listener's steps are `Bind`,
`BindFails`, `ListenerStops`, `TaskEnds`. The faults are chosen by a constant: a start
that fails, a bind that fails, an accept loop that ends, a wait that times out.
The two services share only the config mutex, which `ConfigStore` models; a
request for "All" is the two requests one after the other.

### UserStore

A library is abstracted to the admin revision it descends from and the logins
whose `last_login` it carries; file contents also include *torn* (truncated,
not yet written), *mixed* (two writers at once), *invalid* and *missing*. A
SaveUsers handler is `BeginSave` (the truncating open of users.json.tmp),
`WriteTemp`, `LoadTemp`, `RenameTemp`, `Publish`; a handle follows its file
through a rename by another save (`target`). An FTP login holds the mutex over
reload and authenticate; an SFTP login takes it three times. `Reload` keeps the
library when the file is missing or empty and empties it when the file does
not parse, as `UserManager::reload` does.

### ConfigStore

A configuration is one service's enabled flag, the rest of the server settings
(a *form*) and the log level. SaveConfig writes the file without the mutex and
then replaces memory; Start/Stop and SaveLogConfig hold it. The GUI has a copy
of its own: the save button sets flag and form in it and sends all of it
(`Edited`), and the copy stays edited also when the request is refused. The log
tab writes config.toml itself. `level` is the filter that SetLogLevel replaces,
in front of all layers; `layers` is the filter each layer got when the daemon
started, which nothing replaces; `InForce` is the quieter of the two.
`met` records which of the situations in `Hazards` a behaviour has met, so that
each property can say exactly what it is free of.

### LogStream

An entry is the number of its append. `AppendEntry` and `Broadcast` are the two
halves of `push`; `TakeHistory` and `Subscribe` the two halves of the watch
request; `Replay`, `Receive`, `Lag`, `Send`, `SendFails` the forwarding task.

### HomeFiles

Files are sizes in units; paths name files, handles and uploads refer to them,
and a file nobody refers to is reclaimed. SFTP requests look the account's
rights up (`CheckOpen`, `CheckRemove`, ...), await, and then act (`Open`,
`Remove`, ...) or fail, with other sessions and the administrator in between;
`asked` is what such a request will do. A WRITE looks up no rights: it is
`BeginWrite`, one `Measure` for each path that `dir_size` visits, `CheckQuota`
and `Write`. A
RENAME looks for its target when it checks. An FTP session keeps the rights of its
`Login`; its upload is `StartPut`, any number of `PutChunk`, `EndPut`. The
file system itself (what open options combine, what a rename replaces) is
external and modelled by what the code relies on. Recursive removal of the
subdirectory is one step; the subdirectory itself is never renamed.

### SftpSessions

`conn[s]` is the SftpHandler of one connection: `AuthRequest` is `resolve_user`
(reload and lookup), `CheckPassword` or `CheckKey` the check of the secret,
`validate_and_set_home_dir` the rest; between them the administrator may change
or remove the account. `channel[s][c]` is a channel: closed, open, or the
SftpFileHandler that `subsystem_request` put there. `Audit` is the `try_lock`
of the file logger: it takes the mutex, and `LogEntry` writes in the next step,
or the entry goes to the history variable `missed`. The entry reaches the ring;
it becomes a line of the file only if `LineKept`: the filter in front of all
layers lets INFO pass (`quiet` is its opposite), and the buffer of the
non-blocking writer has room (`Backlog`). `Throttled` and `Spent` are the two halves of
`SpeedLimiter::throttle` around its sleep, with the code's integer divisions:
`Rate` bytes in `Second` nanoseconds. The user library is one variable here; its
locks and files are in `UserStore`.

### GuiEditing and EditBuffer

A handler of the GTK main thread runs to its end, the blocking call included,
and is one action; the call may be refused, or reach the daemon and lose its
reply (`Faults`). `users` and `config` are the copies in `AppState`, `userRows`,
`widgets` and `ruleRows` what is shown, `library`, `memory` and `disk` what the
daemon has, `served` the lists the running FTP server was built with. A rule is
a text: which address family and network it names, whether it has a prefix
length, and whether an address without one is spelled as addresses are printed
(`ip_matches_cidr` compares those as texts). The log tab's write of the file may fail
without a word (`"unwritten"`).
`TypeIntoForm` separates typing from saving: a form holds what was typed until
it is saved. `unsent`, `pending`, `stale`, `moved` and `outdated` are history:
which edit was refused, which list was not rebuilt, which flag moved beside the
window. `EditBuffer` states what the user tab promises, in two variables: the
published library changes only by becoming the draft, whole, and one edit
changes one entry. `UserBuffer` is the refinement mapping (`draft <- users`,
`published <- library`), and `UsersPublishedWhole` is checked as a property.

### GuiPanels

What a source says is a version number. `loads[p]` are the questions of a panel
under way, each first with its thread (`ThreadEnds`) and then waiting for the
poll that shows it (`ShowAnswer`), in any order; the status has at most one, by
`refreshing`. `StatusThreadPanics` is the disconnected channel that
`refresh_status` handles; a log tab has no such case. A service action takes
effect in the daemon (`ActionTakesEffect`, which also stops and starts the
daemon itself, for systemctl) and ends with a refresh.

## What TLC checks

| run | instance | shows |
|---|---|---|
| `service_ftp` | FTP, 2 clients, 4 server values, all requests, all faults | `NoOrphan`: every listener that runs is in the slot, in a handler's hands or has been told to end; `StatusHonest`: the reported status is that of the installed listener; `ExclusiveOwner`: no stop hits another request's server |
| `service_sequential` | SFTP, 1 client and the daemon's own boot and shutdown, no faults, fairness | `EnabledRuns`, `StatusMatchesPort`, `NoBindConflict`: at rest what is enabled is served and reported so, and a new listener never finds its predecessor on the port; `RequestsReturn`: every request is answered without any timeout; `SignalledListenerEnds` |
| `users` | 2 admins, 1 FTP and 1 SFTP login, valid and invalid saves, crashes, failing writes | `SaveIsDurable`, `DiskWhole`, `LoginUsesLibraryInForce`, `StampsKept`; `MemoryInForce`: once every save is answered, the rights of open sessions are read from the revision that is on disk |
| `config` | 2 clients, all requests, crashes, failing writes | `ConfigWhole`, `MemoryPersisted`, `FlagDurable`; `QuieterInForce`: a configured level no more verbose than the one at the start is what is logged |
| `logs` | 2 logging threads, 1 watcher, ring and channel of 3, outbox of 1, 5 entries, fairness | `OnlyOverwrittenLost`, `FewDuplicates`, `EntriesArrive` |
| `home` | 2 SFTP sessions, 1 FTP session, 2 paths (one in a subdirectory), 1 file at first, quota 2, rights given and taken | `OverrunBounded`: the home exceeds its quota by no more than the writes that were measured together; `AppendOnlyKeeps`: once the account may only append and nothing of an earlier time is left, every file keeps its path and its bytes |
| `sftp_sessions` | 1 connection with 1 channel, 1 FTP session, 1 reader, 2 users, ring of 2, writer buffer of 1, 2 requests, 4 events | `TrailHonest`: each answer to a login request has exactly one entry, logged or dropped on a taken mutex, and only the accepting one says LOGIN; `RunsAsVerified`: a file handler serves a user its connection logged in and a home that was checked; `RepliesNewest`: memory and file readers answer the newest entries; `SentWithinTwiceRate`; `TypeOK` (the ring keeps to its capacity) |
| `gui_edits` | 2 users; 5 forms: both flags, a form with a setting the tab refuses, the log form; 2 IP lists, 2 families of 4 addresses, as rules the upper half of one, and one address of the other in two spellings; calls refused or their reply lost, the log tab's write failing | `UserListHonest`: the list shown is the library unless the last save was refused; `UsersPublishedWhole`: the user tab implements `EditBuffer`; `DriftExplained`: a save or a restart changes no part but those edited or moved since; `ListsShowRules`: the lists shown are the copy's unless they were not rebuilt; `FilterAsRead`: an FTP server started since decides every address as the lists shown say, unless one of them is spelled otherwise than it prints |
| `gui_panels` | the status and 1 log tab with 1 file, 2 versions, 2 questions at once, fairness | `StatusNeverGoesBack`, `StatusCatchesUp`, `LogCatchesUp`; `ViewOfSelection`: a settled log tab shows the source selected unless an answer was overtaken |

Three runs show the code doing other than its comments say:

| run | what happens |
|---|---|
| `service_sftp_orphan` | two SFTP starts pass the check of the slot together; the listener of the one replaced keeps the port and no request can reach it |
| `user_lost_save` | a login that reloaded before a SaveUsers writes the older library back over the saved one when it stamps `last_login` |
| `ftp_quota` | the quota check of an FTP upload is given the path of the file and not the home: an account at its quota starts uploads of new files |

What else the models make visible, without a run of its own. The behaviours below
are in the models, and the safety properties name those they exclude:

* A server whose bind failed stays in its slot; the next start answers "started"
  and does nothing (state.rs:52 says it returns only when the service runs).
* A SaveConfig that disables a service while an earlier one starts it finds
  nothing to stop, and a Stop while a Start is under way answers "stopped":
  either way the service runs on.
* SaveUsers validates nothing, since `load` takes what does not parse for an
  empty library: content that is no library replaces users.json and empties
  memory, though control.rs:6 and 226 speak of validation before anything is
  persisted. Two saves that overlap in the same users.json.tmp may leave a
  truncated or mixed file as users.json.
* SaveLogConfig with a more verbose level changes nothing, since each layer
  keeps the filter of the start (tracing_logger.rs:212-240), though
  control.rs:535 says it takes effect immediately; and two of them may set the
  filter in the opposite order of their writes.
* Start and Stop are answered "ok" also when the write of the flag failed, and
  possibly before the request that set the same flag has written it. A
  SaveConfig made from an older copy takes the flag back.
* A SaveConfig writes without the mutex: beside another one it can leave a torn
  config.toml, beside a Start or Stop different flags in memory and file. The
  log tab writes the same file without the daemon's knowledge.
* A WRITE goes through a handle opened before the right to write was taken
  away, and each other request acts on rights it looked up earlier
  (sftp/src/ops/mod.rs:5 speaks of a check before each operation). RENAME
  replaces a file that appeared at the target after it looked.
* An IPv6 address spelled otherwise than it prints is accepted by the security
  tab, shown, and never matched; any rule saved while the FTP server runs is
  shown and not enforced until its next start.
* An operation that finds the file logger taken leaves no entry
  (sftp/src/ops/mod.rs:8 says operations are logged); a level above INFO keeps
  entries out of the file-ops file, and so does a full buffer of the writer thread.
* A refused edit stays in the GUI's copy and goes out with the next save that
  is accepted; the log tab's own write puts it on disk even before that.
  wftpg/src/lib.rs:3 says that every write goes through the daemon.
* The IP lists are applied by FTP only; the repository's README.md:196 lists them as
  access control without that restriction.
* A speed limit is per SFTP channel and fixed when the channel starts; time
  slept is credited again, so that up to twice the limit is sent. FTP has no
  limiter, although README.md:12 and 199 name one for it.
* Removing or disabling an account does not end its SFTP session: the next
  OPEN is denied for a removed account, an open file can still be read.
* A public-key login does not look at the account again once the request was
  resolved: an account disabled or removed meanwhile is accepted.
* A second restart, or a start, that comes while a restart waits for the old
  listener finds the slot empty, fails to bind and fills the slot.
* `get_recent_logs` answers newest first and the file readers oldest first; the
  GUI reverses both.

### Bounds

* *Two of each actor.* The races the code is exposed to are between two
  requests, or a request and a task; two clients (or admins, or logins) reach
  them all. The theorems remove this bound for what they state.
* *Server values.* An identity is reused once nobody refers to it, so four
  are as many as three processes (two clients and main) and a slot can hold.
* *`OverlapEnds` (users), `OneHazard` (config)*: after a situation every property
  excludes, only the requests in progress go on; and the configuration run
  explores one excluded situation at a time.
* *`TwoOrOne` (home)*: either two SFTP sessions with all rights and nothing
  beside them, one request at a time looked up and not carried out, until the home
  grew by something that is not measured (the quota property promises no more
  then); or one SFTP session beside the FTP session and the administrator. The
  first is what races of writes against a measurement take, and all rights only
  add to what sessions may do; the second is what changing rights take.
* *`MaxEntries`, `MaxSize`, `MaxWrite`*: five entries overwrite a ring and
  a channel of three and make the watcher lag; sizes up to 2 on two paths
  exceed the quota of 2, so that the bound on the overrun (3) is within reach.
* *`MaxEvents` (sftp_sessions)* bounds entries, ticks and administrator's
  changes together: four are a change, a login and an entry after it, or a
  login and three ticks, or three entries that overflow the ring of 2 and the
  reader's vector, or two that overflow the buffer of the writer thread (`Backlog`). *`MaxAttempts`* is two: a rejection and a second request.
  Connections share only the file logger; an FTP session, a reader and the
  connection's own channel compete for it. `Second` is no multiple of `Rate`, so
  that both divisions round.
* *`OneOfThree` (gui_edits)*: no action but opening the window involves two of
  accounts, forms and rules, so that each is edited while the others are untouched;
  at most two forms are out of step, and a list has at most one rule, of either
  family; an address not spelled as it prints is tried in the deny list alone.
* *`Changing`, `MaxVersion`, `MaxLoads`, `Requests` (gui_panels)*: two versions tell
  an old answer from a new one, two questions of a log tab overtake each other,
  one service request at a time meets the timer's refresh.
* *`logs` and `sftp_sessions` may stop*: no entry need ever be logged, and
  `MaxEvents` runs out, so deadlock is not checked there. It is in all other runs.

### Fairness

`service_sequential` assumes weak fairness of each request handler's next step and of
each listener task's steps: both are tokio tasks the runtime keeps polling, and
the steps that wait (for a listener to end) are enabled only once they may go
on. Requests, faults and SIGTERM are not fair. `logs` assumes weak fairness of
the forwarding task and of a client that stays connected; nothing is assumed
of the logging threads. `gui_panels` assumes weak fairness of the timers and polls
of the main loop and of the threads, whose calls end (the daemon answers or the socket closes; the client sets no timeout);
the status thread is strongly fair, since it may panic, but not every time.
Nothing obliges a user to press a button.

## What is proved

Every component has a `Proofs` module. What it states holds for every value of
the constants that satisfies the assumption named in the component: any number
of clients, sessions, tabs, files, entries and events, any capacity, rate and
address width. Every safety property the runs check is a theorem, and so is the
refinement of `EditBuffer`; only liveness is not. The inductive
invariants were checked by TLC on the instance of their run before they were
proved.

### The service

| theorem | states | along |
|---|---|---|
| `TypeCorrect` | types | induction |
| `OwnersExclusive` | `ExclusiveOwner` | `OwnerInv`: a handler holds a server exactly at the steps that use one, and while the main task starts or stops, no client is served |
| `StatusIsHonest` | `StatusHonest` | `FlagFollowsTask`: the running flag of a server on its way into the slot follows its task too |
| `FtpNoOrphan` | `NoOrphan`, for the FTP server | assumes `DropSignals`; with `WaitsForSignalled`: whoever waits has signalled |
| `NoConflictWithOneClient`, `StatusIsThePorts` | `NoBindConflict`, `StatusMatchesPort` | assume one client and no stop that times out, and allow every other fault, which is more than the run does; `PortInv`: whoever creates or stops a server does so with the slot empty, so that at most one task is open |
| `WhatIsEnabledRuns` | `EnabledRuns` | assumes one client and no faults; `ServiceInv`: what each handler under way owes (an `unwanted` handler saw the flag down, one that stops without restarting leaves nothing enabled) |

One client is an assumption and not a simplification: two racing starts break
all three properties (`service_sftp_orphan` shows how), and so does a stop that
returns before the port is free.

### The stores

| theorem | states | along |
|---|---|---|
| `MemoryFollowsFile` | `MemoryInForce` | `ForceInv`: until it publishes, the one save that has renamed its file carries what the file now is, and no login under way has another library |
| `ConfigTypeCorrect` | types | induction, with the shape of requests under way (`StepFits`) |
| `UsersFileWhole` | `DiskWhole` | `FilesInv`: without overlap one save at a time uses the temporary file, which holds what was sent |
| `LoginsInForce` | `LoginUsesLibraryInForce` | `WindowInv`: memory, file and every save in progress are in the window of every login |
| `SavesDurable` | `SaveIsDurable` | `DurableInv`: a login under way has in memory a revision that may be on disk |
| `StampsAreKept` | `StampsKept` | `StampsInv`: until a save is submitted both copies carry every stamp. Assumes `FirstRev \notin Submitted`, which says what a revision is: a submitted library is one of its own |
| `ConfigFileWhole` | `ConfigWhole` | `FilesInv`, with the holder of the mutex as the only writer |
| `MemoryIsPersisted` | `MemoryPersisted` | `MemoryInv`: file and memory differ only while the mutex is held or a SaveConfig is between its two steps |
| `FlagIsDurable` | `FlagDurable` | `FlagInv`: memory agrees with the acknowledged flag as well, and a SaveConfig under way carries the flag memory has |
| `QuieterIsInForce` | `QuieterInForce` | `LevelInv`: only the SaveLogConfig that changes the level can have left the outer filter behind |

### Files and sessions

| theorem | states | along |
|---|---|---|
| `HomeTypeCorrect` | types | with `Opens`: a file is open as long as a request uses it |
| `AppendedStays` | `AppendOnlyKeeps` | `OnlyAppends`: all sessions of such an account have append-only rights, its writable handles are append handles, and every request that has looked up rights and not acted yet was allowed no more (`Mild`) |
| `OverrunIsBounded` | `OverrunBounded` | `FilesApart` (two paths never name one file, a file nothing refers to is empty) and `QuotaInv`, explained below |
| `SessionsTypeCorrect` | types, among them that the ring keeps to its capacity | with `AuthInv` (a request under way has an attempt left, a connection past its login has a checked home) |
| `TwiceTheRateAtMost` | `SentWithinTwiceRate` | `Limiter`: what was answered, is wanted and is left in tokens is covered by the time credited and the time slept; the divisions enter as bounds on their remainders |
| `TrailIsHonest` | `TrailHonest` | `HonestFor`, over the trail together with the entry whose writer has the mutex: only so does an attempt have its entry at every moment |
| `HandlersRunAsVerified` | `RunsAsVerified` | part of `TrailInv`, which keeps the LOGIN a handler rests on in the trail |
| `RepliesAreNewest` | `RepliesNewest` | `RingInv`: the ring is the end of what was logged; `FileInv`: the file and the buffer of the writer thread together are the entries let through, each under its number; `KeptIsTheEnd`: however often `tail_lines` cuts its vector back, it holds the end of the lines read |

`OverrunBounded` is far from inductive: that the usage is within the quota says
nothing about the sessions that have already passed their check. A walk that is
under way has missed what was written to paths it had passed, and the sums of
two walks cannot be compared with each other. `QuotaInv` therefore orders the
writes under way by the beginning of their walks (`Queue`). A session that began
its walk before `s` has its one write still to make, so that it cannot be
among what `s` missed; every other session can have written at most once since
`s` began, because a second write needs a walk that begins later than that of
`s` and takes over from it. So the sum of `s` plus what it has still to visit
falls short of the usage by at most one write of each session that is not before
it (`Reckons`), and its check turns that into a bound of the usage after its
write. When `s` writes, it and all that began before it are superseded (`old`):
the bound now in force rests on its walk. The usage is the number of pairs of a
path and a unit stored there, which is the sum of the sizes; so bounds on sums
are facts about the cardinality of finite sets, and a write, a removal or a
rename is an inclusion between two such sets.

`KeptIsTheEnd` is an induction over the lines of the file, and so is the
existence of the recursive function that `KeptLines` chooses. Both use
`Induction`, which takes a set of numbers and not a predicate, and follows from
the least element that every set of natural numbers has.

### The log stream

| theorem | states | along |
|---|---|---|
| `LogTypeCorrect` | types | induction |
| `NothingElseLost` | `OnlyOverwrittenLost` | `PipeInv`: history and received entries pass once each through the pipe (what is left of the history, the hand of the task, the channel, the client), so that no step loses one |
| `DuplicatesAreFew` | `FewDuplicates` | with `PushInv` (an entry is with its thread, then broadcast once) and `TwiceInv`: what is in the history and still to come was in the hand of a thread when the history was copied |

### The front end

| theorem | states | along |
|---|---|---|
| `GuiTypeCorrect` | types | induction |
| `UserListIsHonest` | `UserListHonest` | `UsersInStep`: the list shows the copy, which is the library unless the last save was refused |
| `UserTabRefinesBuffer` | `UsersPublishedWhole` | `Init` maps to `Init`; every handler of the user tab is an edit of one entry that is published or not, every other step a stutter |
| `DriftIsExplained` | `DriftExplained` | inductive together with the two below |
| `ListsShowTheRules` | `ListsShowRules` | `RowsFollowCopy`: rows differ from the copy only where they were not rebuilt |
| `FilterIsAsRead` | `FilterAsRead` | `ServedInStep`: the server has the lists of memory; the CIDR comparison of prefixes is membership in an interval of addresses, and an address spelled as it prints is matched by itself only |
| `PanelsTypeCorrect` | types | induction |
| `StatusMovesForward` | `StatusNeverGoesBack` | `StatusInv`: at most one question, and its answer is no older than what is shown |
| `ViewIsOfSelection` | `ViewOfSelection` | `TabInv`: while a question is not late, the newest one is not, and asks for the selection |

### Assumptions on the constants

Sentinels and markers are not ordinary values (no file is called "loading"),
sets of requests and faults are among the known ones, bounds and sizes are
numbers, divisors are not zero. Beyond that:

* `PowersAssumption` (`GuiEditing`) states true arithmetic, that `2^(w-b) * 2^b`
  is `2^w`, because the provers know no exponents; TLC evaluates it for the
  width of the run.
* `SessionsAssumption` has the FTP sessions' users among the users;
  `ReadersAssumption` has the readers of the log distinct from the sessions
  that write it, which are identified by their names.
* `HomeAssumption` has finitely many paths and SFTP sessions, as a home and a
  server have. `OverrunIsBounded` is about at least one SFTP session: its bound
  is one write for each session but one.
* `LogAssumption` has finitely many logging threads, without which "at most one
  duplicate per thread" means nothing, and a broadcast channel that holds no less
  than the ring (`capacity.max(16)`, common/src/tracing_logger.rs:47).

### Only model-checked

* Liveness (`RequestsReturn`, `SignalledListenerEnds`, `EntriesArrive`,
  `StatusCatchesUp`, `LogCatchesUp`): fairness is out of the prover's reach.

## Not modelled

* Requests that change nothing (STAT, READDIR, LIST, GetStatus, GetRecentLogs,
  list_log_files), formatting and parsing of log lines, WriteAuditLog.
* Path resolution of both servers, symbolic links, the openssh extensions:
  functions on path strings. `HomeFiles` starts from the file a path names.
* The login tracker, which neither server uses, anonymous FTP, password hashing.
* TLS, libunftp, russh, tonic and GTK themselves: they are the environment.
* Widgets, layout, suggested directories; gRPC conversion, which is generated or
  field by field; packaging scripts.

## Plan

Done: the eight components above with their runs, the refinement of `EditBuffer`,
and proofs of every safety property of every component.

Left: theorems about pairs of components, such as the login of `UserStore` seen
by `SftpSessions`, and the parts listed as not modelled.
