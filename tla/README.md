# Verification of aidot-express

TLA+ models of the parts of aidot-express whose correctness depends on the
order in which things happen: the supervisor process that keeps the main server
running, code that is replaced under running requests, the queues that write in
the background and what shutdown does with them, event streams, sign-ins on
both sides of the wire, and the migrations at boot. Each model is checked with
TLC on a small instance; every safety property that TLC checks is also proved
with TLAPS for every value of the constants.

- [The system](#the-system): components, state, what is hard about them
- [Modules](#modules): which module models what, and how it corresponds to the code
- [Runs](#runs): what each run checks, bounds, fairness
- [What goes wrong](#what-goes-wrong): where the code does not do what it says or means to
- [Proofs](#proofs)
- [Plan](#plan): what is next
- [Not modelled](#not-modelled)

Paths are those of the repository. `PROJECT.json` maps every definition to its
lines and lists the runs, the hazards with the properties that cover them, the
findings and the theorems.

To check: `tlc -config MCWatchdog.cfg MCWatchdog`, `tlapm WatchdogProofs.tla`,
and so on, in this directory.

## The system

aidot-express is an Express application server with an administrator's console
that writes, loads, blocks and removes controllers and services while the
server runs. It consists of two processes, a database, and a single-page
console in the browser.

| Component | Files | State | Operations | What must hold |
|---|---|---|---|---|
| Supervisor | `src/supervisor.js`, `src/controlServer.js` | `child`, `expectedExit`, `stoppingPromise` and its kill timer | `start`, `stop`, `restart`, exit handlers, `waitForHealth`, `bootstrap`, `shutdown` | one main server at most; every call returns; an exit that was requested is told apart from a crash |
| Watchdog | `src/watchdog.js` | `consecutiveFailures`, `lastRestartAt`, `restarting`, `halted`, bounded `history` | `_tick`, `onChildExit`, `decide`, `_restart`, `_halt`, `resetAfterManualStart` | hangs and crashes are dealt with; not more restarts than the budget; what people stop stays stopped |
| DI container | `src/core/container.js`, `src/core/decorators.js` | `factories`, `instances`, and for each load its transaction | `registerFactory`, `resolve`, `validateReplacements`, `transaction` | requests see committed code only, one instance per service, never older code than published |
| Code loading | `src/core/controllerLoader.js`, `src/core/codeLoadBoundary.js`, `lib/admin/service/codeFileUpdate.js`, `lib/admin/service/ControllerMetaService.js`, `src/core/blocklist.js` | the files, `registeredControllers` with the stack of `dynamicRouter`, `blocked.json`, the queue of edits | create, edit, rename, remove, load, block and unblock, boot | a file is served once; what is served is what is on disk and not blocked; a failed edit undoes itself and nothing else |
| Sessions | `src/core/refreshRotation.js`, `src/service/AuthService.js`, `lib/admin/service/AdminAuthService.js`, `src/database/sql/auth.sql` | refresh tokens with family and successor, account versions | `login`, `rotate`, `logout`, `logoutAll`, changes of the account | a token has one successor; a family ends as a whole |
| Console client | `admin-client/src/api/http.js`, `admin-client/src/stores/auth.js` | access token, the shared refresh, session version, the cookie | a page's requests with one retry, refresh, login, logout, reload | many refused requests refresh once; the console never looks like a thief of its own token |
| Trace writer | `src/core/traceWriter.js` | queue, `flushing`, level, calm streak | `enqueue`, `flush`, `drain`, `updateLevel` | nothing recorded is lost uncounted; the level comes down again |
| Access log | `lib/admin/service/AccessLogService.js` | queue, batch under way, probe of missing tables, merged notices | `enqueue`, `flush`, `_tryMissing`, `_notify`, `start`, `stop` | entries are stored once and in order; the screens hear of the last one |
| SSE hub | `src/core/sse.js`, `src/core/sseTicket.js` | clients, channels, replay buffers, tickets | `attach`, `subscribe`, `publish`, `consumeTicket`, heartbeat, sweeper | limits, order and no gap on replay, a ticket works once |
| Server lifecycle | `src/app.js`, `src/server.js` | the steps of boot and of shutdown | `SIGTERM`, IPC `shutdown`, `disconnect` | queues drained before the database closes; it ends |
| Migrations | `src/database/migrationRunner.js` | tables and columns, the record of applied files | `runMigrations`, the check of missing tables | a boot that died at any statement can be continued; a record is never ahead of the schema |
| Database access | `src/database/db.js`, `src/database/sqlite-adapter.js` | one SQLite connection, the chain of transactions | `query`, `transaction` | transactions of different requests do not mix |
| The rest | middleware, uploads, metrics, generators, HA stubs, sample services, the screens, Electron | | | see [Not modelled](#not-modelled) |

How they interact. The supervisor spawns the main server and talks to it by
signals, one IPC message and HTTP probes; people talk to the supervisor through
the control API. Inside the main server everything runs on one event loop:
the console's requests and the application's requests share the container, the
routes, the queues and the single SQLite connection, and only an `await`
lets another one in. The container and the routes are changed by loads, which
are awaited (imports with top-level `await`, a timer of 30 s), while requests
resolve from them. Every request that ends puts an entry into the access log and
a record into the trace queue; `shutdown()` in `app.js` empties both before it
closes the database. The console holds the refresh token of its sign-in in a
cookie and exchanges it at the server's rotation; a reuse there ends the sign-in.

What is hard. All concurrency is cooperative, so a hazard needs an `await`
between a test and the act that relies on it. The code has many of these, with
timers on top (kill after a grace period, 500 ms before an exit is reported, a
1 s cooldown, probes with 3 s to answer, notices merged over a gap, a deadline of
10 s for shutdown), two processes of which one can hang, crash or be killed at
any time, statements that commit one by one with a crash possible between any two,
answers that get lost on the way to the browser, and several people at the console at
the same time. Unit tests drive one call at a time and seldom reach the overlaps.
`PROJECT.json` lists the hazards one by one, at the line where each bites.

## Modules

| Module | Models | Relation |
|---|---|---|
| `SingleServer` | what the supervisor promises: at most one server, launched only when none is left, a server asked to stop stops | abstract specification |
| `Supervisor` | class `Supervisor` with any set of callers | implements `SingleServer` |
| `WatchdogPolicy` | `decide()` and the bounded history, as operators | used by `Watchdog` |
| `Watchdog` | the whole supervisor process: `Supervisor` with its real callers | implements `Supervisor` |
| `Container` | the container with concurrent loads and requests | |
| `HotReload` | files, routes and blocklist under the requests of the console | its imports are the loads of `Container` |
| `TraceWriter` | the trace queue with its pressure levels | used by `Shutdown` |
| `Shutdown` | the main server from its first request to its exit | extends `TraceWriter` |
| `AccessLog` | queue, probe and notices of the access log | |
| `SseHub` | the hub, its tickets and the route that ties them together | |
| `TokenFamilies` | what a sign-in is: a chain of tokens that is opened once and stays closed | abstract specification |
| `Sessions` | sign-ins, statement by statement | implements `TokenFamilies` |
| `ConsoleSession` | the sign-in of one browser tab | its server is `TokenFamilies` |
| `Migrations` | the runner over a catalogue of files, with crashes | |

For a module `X`, `XProps` states its properties, `XProofs` proves them and `MCX` is
an instance for TLC. Two modules of proofs cover two components each:
`WatchdogProofs` those of `Supervisor` and of the process built from it,
`CodeLoadingProofs` those of `HotReload` and of `Container`. The names of `Supervisor` and
`Container` have a prefix (`supVars`, `ContainerSafety`), since they are extended together with others.

In every module an operator `X_Faulty` is `X` with a plausible mistake in it
(a dropped guard, a missing reset). Nothing uses it. Put in the place of `X` it
makes the property named for it fail, which shows that the property notices.

### Supervisor

An action is the code from one `await` to the next. `pc[c]` says at which
`await` the call of caller `c` is suspended: the stop promise for `stop()`
(`"stop"`) or for `restart()` (`"rstop"`), the one-second cooldown, or
`waitForHealth`. `child` carries what the code can learn of the process: alive
and answering (`"up"`), alive and not (`"silent"`, booting or hung), or how it
died, because `exitCode` and `signalCode` are looked at in different places
(`LooksAlive` is what `waitForHealth` looks at). `stopping` stands for
`stoppingPromise` and the armed kill timer, which are set and cleared together.
`orphaned` is a history variable: was a child ever dropped while alive?
`start()` with a live child throws before it changes anything, so it is not an
action. The child hangs, answers, and exits as it likes; a kill is an exit by a
signal.

### WatchdogPolicy and Watchdog

`decide()` is a pure function in the code and an operator here. Time is a
number of units that saturates where nothing depends on it any more (`since` at
`MinGap`, ages of events at `Hour`), so `Elapse` can be taken for ever in a
finite model. The history holds the age of each counted restart; an event that
the count leaves out is an age of an hour, since all it does is take up a place.

`Watchdog` extends `Supervisor` and adds the callers: `Boot` for
`bootstrap()`, `Human` for requests of the control API, `Dog` for the
watchdog's `_restart()`, `Term` for `shutdown()`. `probe` remembers what the child was
like when the probe began, since the answer may arrive after the server has
changed; `launched` is a history variable, the time since an automatic restart last launched a server,
or gave way to one that had been launched meanwhile, which `GapKept` is about; `notices` holds the exits for which `onChildExit` is called 500 ms later;
`dog` says where `_restart()` is. Each timer may be the first to fire: their delays are
not compared, except those the policy itself compares.

### Container

`txFactories[l]` and `txInstances[l]` are the maps of the transaction of load
`l`; `stage[l]` says whether it is evaluating its file or is past
`validateReplacements()`, after which at least one turn of the event loop goes
by before it commits (`codeLoadBoundary.js:73`). A class is the number of its
evaluation, a factory is the class it constructs, an instance the class it came
from; `throws` are the classes whose constructor throws. `published` is a history variable.
Files are arbitrary: until its commit a load registers and constructs whatever it likes, in
any order (after the validation too, by an import it does not wait for), and may fail, hang or
time out. Code registered outside of loads, as at the boot, replaces what is in use at once
(`registerAtOnce`). `register()` is left out: nothing in the repository calls it.

### HotReload

`disk[f]` is the content of a controller's file (its metadata is written and
removed with it and is part of it), `routes[b]` the layer of
`registeredControllers` and of the stack at a base path, `blocked` the list in
`blocked.json`. A request of the console goes from `await` to `await`: an edit
waits in the queue of `codeFileUpdate.js` (`queue`), takes its snapshot (`saved`)
and writes, removes the file it replaces if it is a rename, imports and publishes, or
restores the snapshot when that fails. `create`, `remove` and the workspace's loads run
outside the queue. Whether a controller is blocked is looked at when its load
begins, and the layers that a load replaces are searched for at the end, both as in
`controllerLoader.js:499-529`. An import succeeds or fails as it likes, and may never end,
in which case the limit of 30 s makes it fail. `mixed` remembers that something
outside the queue ran beside another request. The process may die between any two
steps; the next one serves what it finds on disk (`BootRoutes`).

### TraceWriter and Shutdown

A record is only counted: `queue` and `batch` are numbers, and the counters of
`stats` are the code's own. `Enqueue` decides by the level whether to record at
all, drops the oldest at the hard limit, sets the timer, and flushes at once
when the queue is full. A flush takes all there is and ends well or badly, whatever
part of the batch was stored; it ends with the next timer if anything is left or the
level is not normal. `updateLevel()` is called with the depth of the queue as in the
code, thresholds and calm streak included.

`Shutdown` adds `phase`, the `await` at which `shutdown()` is, and `conns`, the
requests that still run when it is called. The socket is closed when they have
ended or after three seconds, when they are cut off; then the access log's stop is awaited, `drain()` is
called, the database closed, and the process exits; or the deadline of ten
seconds exits first. `overrun` remembers that `drain()` found a flush under way.

### AccessLog

Entries are numbered in the order in which their requests end. A flush takes up to
`BatchSize` of them and inserts one after the other, each insert a step. A missing
table sets `missing`: what is left of the batch goes, and from then on one entry a minute is
tried (`probing`) by whoever of the five callers of `flush()` comes first. `inserted` is the
table, in the order of insertion. `pending`, `noticeTimer` and `recent` are the merged
notices. The tables may vanish (`MaxLosses` times) and come back.

### SseHub

A client's request is at the account check, at the handler, or open, as the route
of `controllerLoader.js` awaits them; `attach()` tests the limit of clients after
the account check, `subscribe()` that of the channel after the handler, and replays. A
browser that comes back presents the id of the last event it got, and is sent the events of the
history with a greater one, in their order (`Missed`). Tickets are
fresh, expired or gone; they are consumed at the door, before anything is awaited, and not
from another address. `Ping` is the heartbeat, which finds that a connection is
gone by writing to it. A restart of the server begins everything again with an empty history
and the counter at zero.
`since`, `stream`, `alien` and `accepted` are history variables.

### Sessions and TokenFamilies

An action is one statement, or one transaction, of the database, since between
any two awaits the statements of other requests come in: `login` inserts a token of
a new family, a rotation reads the token, then the account, then claims and issues in one
transaction; a claim that updates no row is a reuse and revokes the family in another
transaction. `logout` reads, then revokes; `logoutAll` and the
changes of a console account raise the version, then revoke. What the console does to a vendor's account,
one of the users of the application, only revokes (`VendorEdit`, `VendorPassword`; `vendor` says which kind
of account it is). A request may present
any token that was ever issued. Statements may fail; a transaction repeated
after a deadlock starts from what the rollback restored and leaves no trace.
`TokenFamilies` knows a family as unused, live or closed with the number of its tokens; the
refinement maps a family to live when one of its tokens is not revoked.

### ConsoleSession

One tab: `token` is the access token in memory, `cookie` the refresh token that the
browser sends, `refresh` the request behind `refreshPromise`, `login` and `logout`
those requests, and `page[r]` what a page's request is waiting for. A refused
request joins or starts the refresh and is retried once, if the session is still the one it
was sent in. Requests are served and answered in two steps, so that the browser's
cookie and the tab's variables change when the answer arrives, and an answer may be lost
after the server has acted on the request, by an abort, a time limit or a reload. A refresh that
is given up while it is on its way may also be served afterwards, as the server is not told (`late`,
`LateServed`). `lost` remembers that the server has acted on a refresh that was given up, before or after. The
server is `TokenFamilies`, so what the tab relies on is what `Sessions` is shown to keep.

### Migrations

A catalogue is a sequence of files of statements that make tables, or columns and
indexes, guarded by IF NOT EXISTS or not. A boot loads the records, looks whether
the tables of recorded files are still there (and applies those files again if not), applies
file after file statement by statement, and records a file at its end. The process
may die between any two steps, the database may refuse any statement or check, and a person may drop a
table while the server is down or up. What is ignored is decided by the error, as in the code
(`ignore-already-applied`: a column that exists, a table that is missing). Files with `non-blocking` may
fail without ending the run. Two assumptions name what the code relies on and the shipped catalogue obeys:
a statement that ignores a missing table comes after the file that makes the table
(`TablesComeFirst`), and one that ignores what is there already adds one thing (`OneAtATime`).

## Runs

| Run | Checks | Instance | Distinct states |
|---|---|---|---|
| `supervisor` | `ExpectedIffStopping`, `NeverTwoServers`, `CallsReturn`, refinement of `SingleServer` | three callers, one health retry | 678 |
| `watchdog` | `HaltIsQuiet`, `BudgetKept`, `GapKept`, `HangIsHandled`, `RestartEnds`, `ShutdownEnds`, refinement of `Supervisor` | one person with two requests, one restart an hour, hour 3, gap 2, history 2, two failed probes | 174,130 |
| `container` | `OnlyCommittedServed`, `SharedUntilPublished`, `PublishedIsNext` | two loads, two services, three classes | 103,347 |
| `hotreload` | `OneRoutePerFile`, `ServedIsOnDisk`, `RequestsEnd` | two names, two contents that declare two base paths, two requests at a time, three in all | 172,393 |
| `shutdown` | `EveryRecordAccounted`, `NobodyStranded`, `DrainedBeforeClose`, `PressureEases`, `ShutdownEnds` | limits 1, 2, 3, 4, 5 and 6, two calm checks, nine records, one request that runs on | 62,398 |
| `accesslog` | `StoredOnceInOrder`, `LastNoticeFollows`, `QueueEmpties` | batches of two, queue of three, five entries, the tables vanish twice | 30,477 |
| `ssehub` | `HubConsistent`, `SentInOrder`, `NothingSkipped`, `TicketOnce`, `TicketsSwept` | two browsers, three tickets, two clients, one per channel, history of two, three events, one restart | 332,109 |
| `sessions` | `OneLiveToken`, `OldVersionsEnd`, refinement of `TokenFamilies` | two requests at a time, four tokens, two sign-ins, the version raised once | 1,057,989 |
| `console` | `NoReuseOfItsOwn`, `RequestsEnd` | two requests of pages beside refresh, login and logout, two sign-ins of two tokens, one refresh given up and on its way | 524,416 |
| `migrations` | `RecordedIsMade`, `BlockingFirst`, `TablesComeBack`, `GetsApplied` | three files with every option, three restarts, two faults, one table dropped | 18,018 |
| `crash_left_down` | `CrashIsHandled`, and finds it false | no requests, no health retry, one restart an hour, hour 2, gap 1, history 2, two failed probes | |
| `migration_stuck` | `ReappliesSafely`, and finds it false | the shipped files 001 and 009 | |

The type invariant of a module is a conjunct of one of its properties; that of `Supervisor`, `Watchdog`
and `Container` is a theorem of its own instead.

Bounds, and why they are enough. Each is a count of things that happen, and the
cases it must leave room for are these.

- `supervisor`: three callers let every pair of calls overlap with a third that changes the child
  between them. `HealthTries` bounds the attempts before the 30 s deadline;
  whether there were one or thirty changes only the length of the wait.
- `watchdog`: `MaxNotices = 1` stands for exits that do not pile up within 500 ms, since
  a new child takes longer than that to launch and die; two requests let one person
  both stop and start, or press either twice. Hour, gap and history are as small as
  lets a restart be too soon, count, stop counting and fall out of the history.
- `container`: three classes let two loads, or a load and a registration outside of loads, replace one
  service that is in use.
- `hotreload`: two base paths for two names let an edit move a route, a rename keep it, and two
  files meet at one path; the third request comes when the first has left something behind.
- `shutdown`: the limits keep the order of the code's (`EaseDown < EaseUp < HeavyDown <= HeavyUp <
  HardLimit`, the early flush between), with nine records a queue passes all of them while a flush hangs,
  and comes back. The code's numbers are larger, the comparisons the same.
- `accesslog`: a queue one longer than a batch lets it overflow while a probe waits;
  five entries fill queue and batch; the second loss of the tables comes after a recovery.
- `ssehub`: one place in the channel for two clients, so that this limit is hit. The hub has room
  for both: its own limit is left to the proof (`Limits`). Three events overflow the history of two; the third ticket
  is refused when one is the limit, or comes after the sweep.
- `sessions`: two requests are every pair; four tokens in two sign-ins give one of
  them a chain of three, the shortest with a spent token that is neither first nor last.
  `MaxChanges` bounds how often the version is raised; changes of a vendor's account, which raise none, are not
  bounded. The requests are interchangeable (symmetry), which is sound as none of the run's properties is a liveness property.
- `console`: two requests that are refused at once, and a third that refreshes; the second
  sign-in is the login that overlaps. `Late` has one place: one refresh given up is what its successor meets.
- `migrations`: the catalogue has a file that builds on another, one that ignores what is there, and
  one that does not block; two faults and three restarts repeat a boot that failed after one that died.

The proofs do without any of these bounds.

Deadlock is checked in `supervisor` and `container`. The other systems may
really stop: the process exits, a run of the migrations is at its end, or the
environment has used up its bound and everything is answered.

Fairness. Weak fairness is assumed of what the event loop does by itself: a
timer that is set fires, a request with a timeout ends, `SIGKILL` is obeyed, time passes.
Module by module:

- `Supervisor`, `Watchdog`: the timers, the probes (3 s to answer), the exit of the
  process. Nothing is assumed of people or of the child, which may hang for ever and
  never exit by itself. So `CallsReturn` and `ShutdownEnds` rest on the kill timer,
  `HangIsHandled` on the interval timer and the probes.
- `HotReload`: the limit of `runCodeLoad()` (30 s). An import need
  not end. File operations are answered; fairness is per request, so that one that
  goes on is no excuse for another that does not.
- `Shutdown`: the timers only. A statement that the database does not answer waits for
  ever; `PressureEases` therefore says "if the flushes end again and again", and `ShutdownEnds`
  holds because of the deadline.
- `AccessLog`: the interval, the timers, and that an insert is answered, be it with an error.
  `QueueEmpties` needs the latter, since nothing but the end of a flush lets the next one begin.
- `SseHub`: the sweeper's interval.
- `ConsoleSession`: requests have a time limit (5 s for the auth routes, 15 s for pages).
- `Migrations`: the boot goes on by itself; boots that died or failed are repeated as
  often as the bound allows, and `GetsApplied` is about the last of them.
- `Container`, `Sessions`: none, they state no liveness.

## What goes wrong

Two runs check a sentence of a comment against the code and find a behaviour in
which it is false; `findings` in `PROJECT.json` quotes the lines.

| Run | What happens |
|---|---|
| `crash_left_down` | A crash too soon after a restart is put off to "the next check", which never comes: ticks skip a dead server, and its exit has been reported already. The server stays down. |
| `migration_stuck` | A process that dies between an `ALTER TABLE ... ADD COLUMN` and the record of its file leaves a column whose second `ADD` fails, at this boot and at every one after it, although the comment says that every file can be applied again. |

The models show more behaviours that the authors may not want. They are part of
the models (no guard keeps them out), and the properties are stated so that
they hold beside them; where a property has a condition such as `~mixed`, `overrun`,
`alien` or `lost`, it is for one of these.

Supervisor and watchdog:

- A stop that completes while a probe or a stack dump is under way is followed by
  the automatic restart that was decided before (`watchdog.js:213`, `:290`).
- An exit is reported 500 ms late (`supervisor.js:158`); if a person has started the
  server in between, the healthy one is restarted.
- A restart in its cooldown while the supervisor shuts down launches a server after
  the clean-up (`supervisor.js:369`).
- Restarts fall out of the bounded history, pushed by events of other kinds, before the
  hour is over, and more are made than the limit (`watchdog.js:332`).
- The health wait goes on for a child that died by a signal (`supervisor.js:170`).
- `watchdog.js:16` lists an exit with a code other than 0 as a reason to restart;
  `decide()` never looks at the code, so an exit with code 0 is restarted as well.

Container:

- A load that constructed a service nobody used yet installs it at its commit although
  another load has published new code for it: the old code is served (`container.js:100`).
- A service first used, or registered again, between the validation and the commit
  of a load loses its working instance to a class whose constructor throws (`container.js:79`).

Hot reload:

- A block that takes effect while a load of that controller is under way finds no route
  to remove, and the load publishes it (`controllerLoader.js:499`, `BlocklistController.js:13`).
- Two loads of one file publish in the order in which their imports end: the older code may win (`controllerLoader.js:515`).
- A failed edit restores the files of its snapshot, and so undoes a create or remove that ran
  meanwhile, which do not wait in the queue of edits (`codeFileUpdate.js:6`).
- An edit may move a controller to a base path that another one has, which is then taken off the router.
- Whether the new name is free is checked when the request arrives, not when its edit runs.
- Blocking looks the route up in a listing cut off at one hundred controllers.
- `create()` writes the code before the metadata; if the latter fails, a file stays that is not loaded.

Trace writer and shutdown:

- `drain()` returns at once when a flush is under way, so the database may be closed over
  what that flush left in the queue (`traceWriter.js:200`, `app.js:112-115`).
- The level `heavy` becomes `ease` as soon as the depth is below `UP.heavy`, because `UP.ease` is tested
  before `DOWN.heavy` can matter: the distance meant to keep the level from flickering
  is not kept (`traceWriter.js:230-254`).
- The calm streak is kept between `DOWN.ease` and `UP.ease` unless the level is heavy: "three
  calm checks in a row" need not be in a row (`:249`).
- Two records with one `X-Request-Id` in one batch both store their steps, under one trace (`:147-162`).

Access log:

- `stop()` flushes one batch at most, and none if a flush is under way (`app.js:107`).
- A probe that fails for another reason than the missing tables lets the flush go on all the
  same (`AccessLogService.js:229`).
- A probe that succeeds after the queue has overflowed takes off an entry that was not the one inserted.

Event streams:

- A client whose connection closes during the check of its account is attached all the
  same, since its 'close' has been emitted already and a write to it does not throw; it stays until the
  server stops and counts against the limit (`sse.js:175`).
- After a restart of the server the counter begins again, and a browser that presents an
  id of before misses the events up to that number (`sse.js:205`).

Sessions:

- `logout()` reads the token and revokes it by its id: a rotation in between leaves the successor, and
  the sign-in goes on (`AuthService.js:212-240`).
- Changes of a vendor's account raise no version (`ApiUserService.js:103-127`). A login that has verified the old
  password and inserts its token after `resetPassword()` has revoked the others gives a sign-in that goes on with
  the new password, and if the revocation fails all of them do; the comment at `:123` says that a new password
  makes the tokens before it invalid. In `Sessions`: `LoginReads`, `VendorPassword`, `RevokesAll`, `LoginIssues`, and the
  token rotates. With a suspension (`:112`) the same token is refused while the account is suspended, and good
  again when it is active. No run is spent on it, as `OldVersionsEnd` is about changes that raise the version.
- Two tabs of one browser that refresh at once end the sign-in, as do
  an answer that was lost and the retry that follows it: to the server both are a reuse.
- A refresh that the tab gives up after 5 s (`http.js:4`), or by a reload, goes on at the server
  (`AdminAuthController.js:103-123`). If it is served after its successor, which carries the same cookie, it
  is a reuse and the sign-in ends, although no answer had been lost before.
- The answer to a logout that arrives after a new login clears the cookie of the
  new sign-in; a refresh in flight during a login puts the old sign-in's cookie back.
- A page's request that is refused after the logout has dropped the token may refresh before the logout is served.
- `leaveHint.js` reads an entry `aidot.auth` of the local storage that nothing writes.

Migrations:

- A table that was dropped and made again from its first file lacks the columns that
  later files added, since those count as applied.
- The comment at `migrationRunner.js:24` says that `db.exec()` of SQLite is atomic and that a failure rolls
  back what went before it. The file is handed to `exec()` without a transaction, and each statement commits by itself.
- Under SQLite the seeds of 003 and 006 are inserted again by a boot that repeats them.

Database access, read in the source and not modelled:

- A statement outside a transaction that runs while another request's transaction
  waits for something other than the database becomes part of that transaction and is rolled back
  with it, although its request was answered (`sqlite-adapter.js:133-157`).
- A transaction begun inside a transaction waits for itself.

## Proofs

All theorems hold for every value of the constants that the named assumptions
allow. `HealthTriesAssumption`, `BoundAssumption`, `MaxCodeAssumption`, `ConnsAssumption`,
`SessionBounds`, `MigrationBounds`, `ConsoleBounds`, `MaxRequestsType` and `HubLimits` say that numbers are
natural (and not zero where that would leave nothing). Of `HotReload`: the code of a controller declares
one base path (`BaseOfType`), `None` is neither a file nor code (`NoneIsNothing`), requests are numbered
(`RequestType`). `CallerAssumption`: callers are distinct.
`PolicyAssumption`: the gap is not longer than the hour. `TraceLimits`, `AccessLimits`: the order of
the limits. `CatalogueType`, `TablesComeFirst` and `OneAtATime`: the catalogue, see
[Migrations](#migrations).

**Supervisor** (`WatchdogProofs`, first section). The four safety properties with the type
invariant form an inductive invariant, `SupInv`, and none of them is inductive
alone. A spawn clears `expectedExit` and leaves the promise as it is:
`ExpectedIffStopping` survives it only because there is no promise without a live
child (`StopIsResolvable`); a caller leaves the promise only through the exit
that resets it (`WaitersHaveAStop`). There is one lemma per kind of step (spawn, begin of
a stop, exit, a caller that moves on), which the proof for `SupNext` uses
action by action. `SupervisorImplements` shows that every step under the invariant launches
when none is left, asks the one server to stop, lets it die, or is a stutter of `SingleServer`.

**Watchdog** (`WatchdogProofs`). First each action of the whole process is shown
to be an action of `Supervisor` or to leave its variables alone
(`ProcessImplementsSupervisor`); so the theorems about `Supervisor` hold in the
real process, which is how `OneServerInProcess` and `ExitsToldApartInProcess` are proved, and
`ProcessIsSingleServer`, which puts the two refinements together.
The watchdog's own invariant adds that an automatic restart under way leaves room in
the budget for one more entry (`Room`), without which `BudgetKept` is not inductive, that `dog` and the
await of `Dog` agree (`CallerIsRestart`), and that without a restart under way the time that `decide()` compares
with the gap is not longer than the time since the latest launch (`Rested`), so that a restart that begins
finds the gap over, whatever the history has forgotten. That is `GapKept`. The actions fall into kinds that change the watchdog's state in
the same way (`Quiet`, `Begin`, `GiveUp`, `Finish`, `Wait`): a lemma per kind, and each action is
assigned to one. What `Recorded` and `Aged` do to the number of counted restarts are lemmas on
finite sets and sequences.

**Container** (`CodeLoadingProofs`, second section). The inductive invariant `LoadInv` adds to the
types that classes are numbered as they are evaluated (`Numbered`), that a staged class
is new and staged by one load only (`StagedIsNew`), that registered factories were
committed, and that a load keeps no instance of a class it has since replaced (`OwnInstance`).
A commit changes the factory of every instance it replaces because of the third,
and installs only code it publishes because of the last. A registration outside of loads publishes a class
with a new number (`RegisterAtOnceInv`).

**HotReload** (`CodeLoadingProofs`, first section). `ServedIsOnDisk` says what holds when nothing is under
way; the invariant has to say what holds meanwhile, when a file is written and not yet known to load. A layer is
of its file as it is on disk or, while a request holds that file, as it was in the snapshot of that request
(`Served`). This determines the layer only if one request at a time holds files, which is what the
queue is for: edits that have arrived are in it, each once, and only the first has begun (`Queued`). A publish
keeps `Served` because what was imported is still on disk and not blocked (`Finds`), a restore because the
layers are those of the snapshot. `remove()` and a block look for the layer at the base path of the code on
disk, and find it because layers are at the path that their code declares (`AtItsBase`). Requests outside the
queue break `Served` and `Finds`, so both are claimed until one of them runs beside another
(`Unmixed`). `OneRoutePerFile` has no such condition: of the steps of requests only a publish adds a layer, and it
takes off all others of the file.

**Shutdown** (`ShutdownProofs`). `ShutdownInv` has two halves. For the writer: the sum of all
places a record can be in is what was offered, a batch is held by a flush only (`BatchOfFlush`,
without which the end of a flush could lose one), and somebody comes back (`NobodyStranded`). For the
exit: after the connections are closed no request is left that could enqueue behind `drain()`
(`NoRequestLeft`), and what `drain()` took is all there was unless it ran into a flush
(`DrainTookAll`). `FlushWith`, which four actions share, is proved about once.

**AccessLog** (`AccessLogProofs`). What is in the table, in the batch under way and in the queue is
one ascending sequence cut in three (`InOrder`). While an entry is probed nothing flushes, so
nothing overtakes it, and it is not later than the head of the queue, even if an overflow has moved
that on (`ProbeAlone`): so it may be stored next, and what follows still comes later. Lemmas on `Tail`, `Append` and the cut of a batch carry it through the actions.

**Sessions** (`SessionsProofs`). `OneLive` is inductive only with what requests
carry between their statements: the token read was issued (`ReadsIssued`), a rotation about to claim
has a token of no older version than the account had when the request began (`Checked`), which is
`OldVersionsEnd` (`AccountKeeps`: the version is never lowered, and changes of a vendor's account leave it),
and tokens not yet issued are not revoked nor of a family (`Fresh`, `FamiliesCount`). `SessionsImplementFamilies` proves the whole refinement: each statement opens
a family, adds the next token, closes families, or is a stutter, for which the number of a family's tokens is
followed with the library's facts about cardinality. `EndedForGood` draws from it that a sign-in that has
ended gets no good token again, the answer to a rotation that was checked before.

**SseHub** (`SseHubProofs`). `HubInv` ties the hub to the requests: `clients` are those at the handler or open,
`members` those open (`Places`), so that a client that passes the two tests with an `await` in between is
counted once by each (`Limits`). A stream is in order because the history ascends and ends at the counter (`History`),
and because nothing is sent to a client before it is subscribed (`Streams`); what follows the replay is newer
than all of it. The replay is the events of the history after a number, and since the history ascends these are
its suffix (`MissedIsSuffix`, from `NthOfInterval`: the n-th of an interval of numbers is the n-th from its start). That
nothing is skipped is kept by a publish that overflows the history because what leaves
it asks for nothing any more (`Complete`). `Unused`: a ticket that is still there was not accepted.

**Migrations** (`MigrationsProofs`). A record is true (`Made` to the end) and the file under
way is made up to its next statement; every statement keeps what was made, because tables and
features only go when a person drops a table. `BlockingFirst` needs that all
blocking files before the one under way are recorded (`Behind`), and `TablesComeBack` that the
tables of the files passed are there or excused (`Restored`).

**ConsoleSession** (`ConsoleSessionProofs`). `Unspent`: the token that a refresh presents is
not spent before it is served, and the cookie is spent only while the answer that replaces it is on its way, or
was lost. A refresh served late either changes nothing or is one more of those whose answer is lost
(`LateServedKeeps`). `Apart`: the sign-in that a login under way has opened is not that of the cookie
or the refresh, so that one answer overtaking the other replaces a whole sign-in and not one token by
an older one of the same. Both speak of the server's state, and of what any of the three requests holds. `ServerIsTokenFamilies`
shows that the server in this model makes steps of `TokenFamilies` only, the specification that `Sessions`
implements.

Only model-checked: liveness, that is all `~>` properties, `TicketsSwept` and the fairness half of
`ImplementsSingleServer`, which the prover does not reach; and the two runs that end in a counterexample. No
model uses a recursive operator, so nothing is left to TLC because of one.

## Plan

What would come next, in this order.

- `SqliteTx`: the chain of transactions of `sqlite-adapter.js:133-157` against single statements on the
  one connection. The driver is synchronous, so a foreign statement gets in only where the body
  of a transaction awaits something else, or between two microtasks; the abstract
  specification is serial transactions, and the two behaviours listed under "Database access" are
  what it would be up against.
- `HotReload`: the services and SQL files, which are loaded in the same way without a route, and an abstract
  specification of the console's requests as one at a time, which those of the queue implement.
- `SseHub`: several channels, of which those with neither clients nor a history are dropped.
- `Sessions`: the lock after failed sign-ins and the purge of old tokens, as more requests of
  the same kind.

## Not modelled

Of the components modelled:

- Supervisor: a spawn that fails (`process.execPath` is taken to start), the output of the child,
  the authentication of the control API. Watchdog: the events file with its broken lines (the history
  that a supervisor starts with is any within the budget), the status for the dashboard.
- Container: circular dependencies, an error that changes nothing, and decorators, which keep no state.
- Code loading: services and SQL files; the order of routes in the stack; the metadata's contents.
- Sessions: the lock after failed sign-ins, the purge, the cache of account states, the access tokens
  as such. Account administration beyond what ends sign-ins: the removal of an account with its tokens, and
  the rest, which is one statement per request.
- Trace writer: what a trace contains, the retention sweep, the ring of recent traces.
- Access log: sign-in events and the sweep, one statement each, and the reports.
- Migrations: the adoption of the sample tables of older versions; the splitting of SQL text.
- Server lifecycle: boot, a sequence of awaits with nothing beside it.
- Console client: everything but its sign-in. The other 200 files are screens over HTTP
  answers: text, layout, and state that lives as long as the page.

Not modelled at all: database access, see the plan; middleware and transport (checks of one request without
shared state); uploads and archives (file I/O under names of their own); the registry of SQL (a map replaced
between two awaits); metrics (numbers for a dashboard); the generators (text from metadata); HA and
read-only mode (stubs in this edition); configuration (read once); the sample application (one statement per
request); the Electron shell (a window around the same supervisor).
