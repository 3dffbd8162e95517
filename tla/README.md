# A verification of ops-console in TLA+

ops-console is a single Go process that serves an operations console: a web
server (`internal/web`), a SQLite file (`internal/store`), a YAML configuration
(`internal/config`), goroutines that watch the machine, run scripts, pipelines
and backups, and a browser client (`frontend`).  This directory holds TLA+
modules translated from that code, the TLC configurations that check them on
small instances, and proofs that TLAPS checks for every instance.

Every module says at its top which files it is translated from.  Operators
marked `FAULT` in a comment are seeded errors: no action uses them; each stands
before the operator it would replace and shows that some property notices.

## 1. The system

| Component | State | Operations | Talks to |
| --- | --- | --- | --- |
| Monitor hub (`server.go`) | latest snapshot, `wsClients`, a send channel and two goroutines per connection, `monitorCollectMu` | collect, broadcast, connect, push, read, write, drop, shut down | trend buffer, browser |
| Trend buffer (`server.go`, `store.go`) | `trendBuffer`, `trendFlushMu`, table `monitor_trends` | append, flush, requeue, clean up | hub, SQLite |
| Pipeline runs (`cicd/service.go`) | `Manager.running`, table `cicd_runs`, a goroutine and a child process per run | start, stages, stop, time out, finish | configuration, SQLite |
| Script runs and backups (`script/runner.go`, `backup/manager.go`) | tables `script_runs` and `backups`, archives, a goroutine per job | start, scan output or pack, finish | configuration, SQLite |
| Start and end (`main.go`, `server.go`) | `httpServer`, stop channels, `serverErrCh`, `sigCh`, the database handle | start, listen, signal, shutdown, close | all |
| Applications (`server.go`) | the list in memory, file and table `settings`; table `app_meta` | create, update, delete, start | configuration store, SQLite |
| Configuration store (`config.go`, `system_handlers.go`) | `config.yaml`, `Server.cfg`, table `settings` | load with defaults, save, sync, update | all |
| Sessions (`auth.go`) | `authSessions` | log in, check, expire, log out | configuration |
| Runtime log (`systemlog`) | ring of entries, log file, unfinished line | add, write, list, configure | everything that logs |
| Hardware cache (`hardware_meta.go`) | metadata and its time | get, detect | hub |
| Remote desktop (`remote_handlers.go`) | per connection: frame interval, last frame | capture, send, input | operating system |
| Docker, traffic, files, log search | none | read or run a command | operating system |
| Page: frame (`legacy-app.js`) | login, start, menu, section, configuration | log in and out, boot, switch, save | all of the page |
| Page: monitor | socket, timers, last snapshot, trends, charts, connections | connect, poll, draw, pause | hub |
| Page: panels | logs, docker, applications, terminals, scripts, backups | choose, load, act, follow | the HTTP and WebSocket interface |

**How they interact.** Handlers run concurrently, one goroutine per request.
The configuration is shared under `Server.mu`; the other locks are each
component's own.  Collectors and runs have goroutines of their own that nobody
waits for at the shutdown.  Everything durable is a SQLite statement of its own
(there is no transaction over two statements) or a rewrite of `config.yaml`.

**What is hard.**  A client map is copied under a lock and used after it.  Three
goroutines flush one buffer that failed inserts refill from the front.  A run's
row, its registration and its context are changed by four actors.  `Wait` closes
pipes that scanners are still reading.  A signal can overtake the start.  A
request changes memory, file and two tables one after the other and can fail or
be cut off after any of them.  The page is one thread, but nothing in it orders
the answers to its requests: each handler writes what it got into whatever the
page has become meanwhile.  Each is a hazard in `PROJECT.json`, at its line,
with the properties that watch it.

**What makes each part correct.**

- Hub: no channel is closed twice or used after it was closed; one collection
  at a time; no client, however slow, stops the feed; dropped clients leave
  nothing behind; snapshots are shown in order.
- Trend buffer: every bucket sampled is stored, in order, unless an overflow
  (oldest first) or the end of the process takes it; only expired rows go.
- Runs: one final status, written once and telling what happened; a running
  run can be stopped; a stopped run starts nothing; every run ends.
- Output: complete, in order, and before the final status.
- Start and end: a signal ends the process; nothing that was not told to stop
  works on a closed database; requests are waited for until the deadline.
- Jobs: a row that says running has somebody who will finish it; an archive has
  its own backup's bytes.
- Configuration: what the server works with is what was asked for last, and the
  file has it.
- Runtime log: the newest lines, in order, and each of them in the file.
- Page: it gets past its start and its login, never gives up on the monitor,
  leaves no socket, loop or pressed key behind; what is shown belongs to what is
  chosen, and what an action reaches is what is shown.
- Applications: unique names; the three copies agree between requests; no
  request or start destroys what another one wrote.

## 2. Modules

The server:

| Module | Models | Checked by | Proofs |
| --- | --- | --- | --- |
| `MonitorHub` | the hub | `hub_feed`, `hub_feed_survives` | `MonitorHubProofs` |
| `TrendBuffer` | buffer and table of the trends | `trend_buffer` | `TrendBufferProofs` |
| `RunRecord` | abstract: what a row of a background job promises | refined by `CicdRuns` and `JobRows` | |
| `CicdRuns` | pipeline runs | `cicd_runs`, `cicd_refusal` | `CicdRunsProofs` |
| `RunOutput` | output of child processes | `services`, `output_kept` | `ServicesProofs` |
| `JobRows` | rows of script runs and backups, archives | `services` | `ServicesProofs` |
| `RuntimeLog` | ring, line writer and file of the server's own log | `services` | `ServicesProofs` |
| `ConfigDocument` | the configuration in memory, in the file and in the pages | `services` | `ServicesProofs` |
| `Services` | the four before this, in one specification | `services` | `ServicesProofs` |
| `ProcessState` | the state of the process that starts and ends, its types and what it promises | with the next | |
| `ServerLifecycle` | start and end of the process, over that state | `lifecycle_safety`, `lifecycle_signal` | `TrendBufferProofs` |
| `AppRegistry` | registered applications | `app_registry` | `AppRegistryProofs` |

The page, all of it `frontend/src/legacy-app.js`:

| Module | Models | Checked by | Proofs |
| --- | --- | --- | --- |
| `Requests` | requests under way, in slots; helpers for the panels | with them | |
| `PageFrame` | login, start, menu, sections, saves of the configuration | `page`, `page_live` | `PageChoiceProofs` |
| `MonitorSocket` | socket, polling, pause and session of the monitor | `page_live` | `MonitorSocketProofs` |
| `MonitorView` | snapshots, rates, trend lists, process table, report | `page` | `PageProofs` |
| `TrendChart` | the scrolling chart of one trend, its points and its tip | `page` | `PageProofs` |
| `DiskReadings` | the disk counters of a snapshot (with `collector.go`) and what is worked out of them | `page` | `PageProofs` |
| `FlowMonitor` | the list of connections, its window and its details | `page` | `PageProofs` |
| `LogPanel` | log sources, queries, the real-time loop, exports | `page`, `page_live` | `PageProofs` |
| `DockerTables` | containers and images, search, pages, boxes, batch actions | `page` | `PageProofs` |
| `DockerDialogs` | the modal window: details, questions, a container's log | `page`, `page_live` | `PageProofs` |
| `AppPanel` | list, selection, detail, buttons and editor of the applications | `page` | `PageProofs` |
| `RemoteDesktop` | meta data, socket, reconnection, the buttons of the mouse | `page` | `PageProofs` |
| `RemoteKeys` | which keys go to the remote machine | `page` | `PageProofs` |
| `SshTerminal` | sessions of the SSH terminal | `page` | `PageProofs` |
| `ScriptPanel` | choosing, starting and following scripts | `page` | `PageChoiceProofs` |
| `BackupPanel` | directory picker and backup form | `page` | `PageChoiceProofs` |
| `Clipboard` | copying | `page` | `PageChoiceProofs` |
| `PageParts` | side bar, messages, runtime log, search of connections | `page` | `PageChoiceProofs` |
| `Page` | the sixteen panels, in one specification | `page` | `PageProofs`, `PageChoiceProofs` |

**How they are put together.**  `MC...` modules give the constants values for
TLC.  The parts of the server that run in the background, and the panels of the
page, do not read each other's state; `Services`, `Page` and `MCPageLive`
therefore hold several of them in one specification with a variable `focus` that
says whose behaviour this one is, instantiate each over the same variables, and
state their properties as conjunctions, one conjunct per part.  `Services` and
`Page` leave the constants of their parts open, `MCServices` and `MCPage` give
them values.  `ServerLifecycle` extends `ProcessState`, so that the proofs about it,
which stand with those of `TrendBuffer` because both are about the end of the
process, can name its properties.  The other modules share no variables: where one component calls another, the call is named in a
comment and its effect is a choice in the caller (`Flush` in `ServerLifecycle`
stands for the end of `MonitorHub` and `TrendBuffer`; `EndCollect` in
`MonitorHub` for `AppendSample`; `RunScript` in `JobRows` for all of `RunOutput`;
the snapshots that `MonitorSocket` receives in order for what `MonitorHub` sends).

### MonitorHub

`collectMu` is `monitorCollectMu`, held over several steps; the sections of
`wsMu` and `monitorMu` contain no blocking operation and are single steps.  A
collection is `Lock`, `Gather`, `CopyClients`, a `Broadcast` per client in any
order (the code ranges over a map) and `EndCollect`.  It is run by the collector
and by a handler that finds no snapshot.  A connection is the handler (`Connect`,
`Ready` or `NotReady`, `Push`), a reader and a writer.  `conn` is "gone" when the
peer has left or is silent beyond the deadline.  A send on a closed channel
panics (`SendPanics`): in the collector that ends the process, in a handler the
router's `Recoverer` and the deferred `Unlock` clean up.  `Shutdown` is
`StopCollector`, `TakeAllClients`, `CloseOne`, `ProcessExits`.

### TrendBuffer

Time is counted in buckets of 5 s, and a sample is its bucket and its number.
`TakeBatch`, `StoreOne`, `StoreFails` and `EndFlush` are `flushTrendBuffer` for
the collector, the ticker and `Shutdown`.  `Upsert` is the insert with its
clean-up, whose own error the code ignores: its result is a choice.  `Restart`
is a crash at any moment, or the next start after a shutdown.

### RunRecord, CicdRuns, JobRows, RunOutput

`RunRecord` is the abstract promise: none, running, then one final status.  In
`CicdRuns` a run's row, registration, context, goroutine, stages and child are
separate variables; `StopAccepted`, `Expire`, `ChildExits` and `Restart` may come
between any two steps of the goroutine.  `FinishRow` may fail, as the code
ignores its error.  A pipeline is its stages' `continue_on_error` flags, and may
have no stage: `PUT /api/config` takes a document without completing pipelines.
`JobRows` is the same for script runs and backups: `Start` makes row and
goroutine, `RunScript`, `RunCommand` or `Create`, `Pack` and `Close` are the
work, `Finish` is the final write that may fail, and nothing repairs a row after
`Restart`.  An archive is the set of the jobs whose bytes it has.  Its name is
that of the backup as `sanitize` cleans it (lower case, `_` for spaces and
slashes: the constant `Sanitize`, a function that may map two names to one) with
the second of the start, so two backups may share it.
`RunOutput` is one child process with its pipes, run for a script (whose scanner
closes its pipe, `ClosesPipe`) or for a pipeline's stage (whose scanner does not).

### RuntimeLog

Lines come from the `log` package through a writer that puts pieces together,
and from the goroutines of pipelines.  The writer's scanner gives up at a line
longer than 64 KiB: `Write` chooses how many lines come before such a one, and
what begins with it is lost (`past.lost`).  `add` puts a line into the ring and takes
the file's handle under the lock and writes after it; a save of the
configuration may open another file and close the first in between.

### ConfigDocument

The document by its parts: log sources, scripts, the applications that are
enabled and have log files, the backup target and what a page edits.  Each is
there or not, with the number of its last change, in the server's memory, in the
file and in the copy each page has loaded.  `Change` is what every handler does:
memory first, then the file and the table; a failure takes nothing back.
`SaveAll` replaces memory by a page's copy with one part changed, but for the
applications, which stay the server's (`WithApps`).  A document without a log
source gets the system's own and one for each application with log files
(`Ensured`, at the start, when the sources are listed and at every save); such a
source stays when its application goes.  `past.excused` has the parts that a copy
older than the last change has saved over, that a restart has lost with an
unwritten file, or that were made or replaced so.

### ServerLifecycle

`main` and `server` are the places of the two goroutines.  `httpServer` and the
stop channels are plain fields without a lock; a step reads or writes one of
them.  The race is modelled as the interleavings of these steps (a torn read of
a pointer is not a behaviour of Go).  Before `signal.Notify` a signal kills the
process.

### AppRegistry

A name is a key and one of two spellings that differ in case.  `Change` is the
change in memory with `Save`, then come `Sync` (SyncConfig) and the steps on
`app_meta` in the order of the handler; each may fail, and what was done stays.
`BeginStart` and `RecordStart` are the two halves of `handleAppsStart`, the
second without the lock.  Writing the file is one step that happens or does
not; other requests that save the configuration are in `ConfigDocument`.  The
history variable `excused` collects the keys for which the code gives no
promise, and the comment of `ShowsOwnRow` lists why.

### MonitorSocket

The page has one thread, so every event handler is one step.  `page` is the part
of the page's `state` object that is about the monitor; `Schedule`, `Start` and
`Stop` are the functions of the same purpose, written as changes of a page so
that a handler can call one after it has set a flag.  `sock` is what the browser
knows of a WebSocket: after `close()` it is "closing" until its close event,
whose handler does not look which socket it is for.  `Refresh` sends a request;
its answer is a later step.  The server is abstract here: it numbers snapshots,
sends them in order (what `MonitorHub` shows) and refuses without a session.
Back-off delays are left out; a timer that is set may fire at any time.  A page
that has been logged out shows an overlay over everything, so `Toggle` asks for
`auth`.

### The panels

They are built alike.  One variable is a record of the fields of the page's
`state` object (and module variables of the script) that the panel uses, with
what its part of the document shows; `flight` has its requests, each in a slot of
`Requests` with what the code had read before the `await`; another variable is
what the server would answer; the last one counts for the bounds and remembers
what the properties need.  An event handler up to its first `await` is one
action that sends a request, and what follows the `await` is the action of the
answer, or `Fails`.  Any slot may be answered first.  A function that several
handlers call (`closeModal`, `stopDockerLogStream`, `Select`, `Draw`) is an
operator from record to record, so that an action applies the whole chain of
calls in the code's order.  Timers are fields; one that is set may fire at any
time.  Values that are only formatted are left out.

What is particular: `PageFrame` gives up a step of the start after its timeout
while the request goes on, and the late answer is still handled.
`MonitorView` numbers snapshots by the time they were taken at, so that an answer
can be older than what the page has.  What the page draws it times by its arrival:
`Snapshot.Time` is text in JSON (`collector.go:24`), `parseTrendTimestamp` cannot
make a number of it and takes `Date.now()` (`legacy-app.js:3948-3952`); that is
`Stamp`.  The points that the server has stored have numbers for times, and its
clock and the page's are taken to be one.  The module's list of processes is filtered by a function of its own
(`Filtered`), about which something can be proved.  `TrendChart` separates the redraw, the frame in which the chart is
placed and the scroll event that comes between.  `DiskReadings` has both readings
of the counters that the collector makes for one snapshot, either of which may
fail.  `RemoteDesktop` and `SshTerminal` number their sockets; a handler belongs
to its socket, and the code compares it to the current one only in some handlers.
Two requests for the data about the desktop may be under way, and their answers
may differ (`MetaArrives`, `MetaDenies`).  The mouse has the left button and one
that stands for the other two, which the code treats alike: `mouseleave` sends
only the left one as released.  `past.held` is what the user does, `past.pressed`
what the machine has been told.
`ScriptPanel` has one slot per loop: a loop asks for the run that is current when
it wakes.  `BackupPanel` has one window for two uses.
## 3. What TLC checks

Passing runs, with the bounds and why they are enough:

- `hub_feed`: one connection with a queue of two and a poller, fair goroutines,
  panics included; the collector and both handlers collect, so the queue holds
  several snapshots and overflows, and reader, writer, overflow and shutdown drop
  the same client.  More connections are in the proofs.
- `trend_buffer`: a buffer of two, three samples in three buckets, retention and
  clean-up of one bucket, one crash: overflow on append and on requeue, flushes
  that wait for each other, rows that expire.
- `cicd_runs`: one run of none to three stages with all choices of the flags (a
  first, a middle and a last stage), one restart.  Runs share nothing but the
  map, and the proofs hold for any number of them.
- `services` (`Services` by way of `MCServices`, about 410,000 states).  Output: both callers, four
  lines on two streams, pipes of two lines, any of them too long, so that a pipe
  can be full while a scanner has quit.  Rows: two jobs of every kind, three names
  of which two are cleaned to the same, three seconds, restarts: twins and their
  opposite.  Runtime log: one pipeline and the line writer, four lines, any of them
  too long, rings of one and two, two files.  Document: two log sources (the
  default one and that of an application), the application, a script and a target,
  two pages, three changes: a page loads, the other one or a request changes a part,
  and the first one saves.
- `lifecycle_safety`: two requests, any number of signals; types
  (`LifecycleTypes`) and the order of the end.
- `app_registry`: two keys with two spellings, three requests, two starts, one
  restart: create, rename, and delete or rename again, with a start across them.
- `page` (`MCPage`, about 1.3 million states): every panel with two requests
  under way, which is what it takes for an answer to be overtaken by another one
  and by a choice of the user; the slots are symmetric.  Two items where a panel
  has a selection (containers, sources, applications, connections), three sockets
  where it has sockets (one closing, one closed, one open), three times (two
  rates, of which the older snapshot can arrive last, at once or late), two buttons
  of the mouse, six points of which five are drawn.
- `page_live` (`MCPageLive`): the monitor with three sockets, one request under
  way, two snapshots, three clicks on the pause button, one reload, the session
  lost at any time: two sockets closing while a third opens, close events in
  every order, a retry timer set while a socket opens.  When all three sockets
  are in use the constructor throws.  And the frame, the log page and the dialogs
  once more, smaller, with fairness.

Runs that find the code wrong (each is a finding in `PROJECT.json`):

- `hub_feed_survives`: a browser tab that closes between the copy of the client
  map and the send makes the collector send on a closed channel; the process
  ends (`server.go:501`).
- `cicd_refusal`: a stop between the row and the registration, or after a
  restart, is refused as "already finished" (`cicd/service.go:45`).
- `output_kept`: `cmd.Wait` before the scanners are done loses the last lines
  of a successful run (`script/runner.go:82`, and the same in
  `cicd/service.go`).
- `lifecycle_signal`: a signal before `httpServer` is set leaves a server that
  runs while main waits for its end (`main.go:103`).

**Several statements in one property.**  The properties of the composed runs are
conjunctions of the parts' own: `LoopsFollowThePage`, for example, says of the
log page that its loop runs for the source that is shown and that exports have
its files, and of the dialogs that no log is polled behind a closed window and
nothing is removed unasked.  What each conjunct says is at its definition in the
part's module.  In the single runs, `EveryBucketAccounted` includes what the
final flush leaves, `QuietBeforeClose` both the requests and the loops,
`ConfigAgrees` the uniqueness of the names, and `RowsAreFinal` that `JobRows`
implements `RunRecord`.

**Fairness.** Weak fairness of a goroutine's steps: the Go scheduler runs what
can run. Reads and writes on a socket return, because the code sets deadlines.
Timeouts pass. A killed process dies. In `TrendBuffer` taking the flush lock
and storing a sample are strongly fair: a Go mutex does not starve a waiter,
and a store that is asked for ever succeeds at last; the ticker keeps firing.
In `MonitorSocket` the polling timer fires, handshakes end, open sockets
deliver, and a request that is repeated for ever is answered at last; the
network may break any connection at any time.  The panels in `MCPageLive` have
the same: their timers fire (the browser runs them), a request ends within its
timeout, with an answer or without, and one that is made again and again is
answered at last and in time.  No peer has to come or go, no command has to end
by itself, no signal has to come, and no user has to do anything.

Deadlock is not checked anywhere: every system here may stop (a process that
has ended, runs that are over, counters at their bounds).

## 4. What is proved

`MonitorHubProofs`, for every set of connections and pollers, every capacity of
the channels and any number of snapshots:

- `TypeCorrect`: `TypeOK`, which includes that no queue exceeds its channel;
  it is inductive by itself.
- `Exclusion`: `CollectionsExclusive` is inductive with `TypeOK`: a goroutine
  enters through `Lock`, which needs the mutex free, and leaves through
  `EndCollect` or a panic, which both free it.
- `FeedOrdered`: `BroadcastsInOrder`.  That a queue is in order is not
  inductive: a send could come with an older snapshot.  `FeedInv` adds that no
  peer or queue has anything newer than the latest snapshot, that whoever
  broadcasts holds exactly this one (from `Exclusion`), and that a connection
  the broadcast has still to serve has not got it;
- `ChannelsOpen`: `ListedChannelsOpen` alone is not inductive, because `Connect`
  would reopen a channel that is listed; `ListsInv` adds that a connection that
  has not come yet is in no list and has no channel.

`CicdRunsProofs`, for every set of runs, every length of pipelines and any
number of restarts:

- `TypeCorrect`, where the registered runs are live ones (no leak);
- `Reachable`: `RunningIsReachable`, strengthened by what a row says at each
  place of its goroutine (`RowInvariant`);
- `Refinement`: `Spec` implements `RunRecord`, step by step from the same
  invariant;
- `StopIsFinal`: `NothingStartsAfterStop`, an action property;
- `Explained`: `StatusExplained`, from an invariant on the stages
  (`StageInvariant`): the results so far belong to the stages before the
  current one, each ended well or may fail, and the outcome that is about to be
  written is already justified.

`MonitorSocketProofs`, for any number of sockets, requests, clicks and loads:

- `TypeCorrect`: with it that `monitorWS` is never a socket that was closed;
- `Connected`: `ConnectedIsOpen` is inductive with the types: whatever socket's
  close event comes, it resets the flag, and only an open one sets it;
- `Reconnects`: `CanReconnect` needs that nothing exists before the end of
  `bootstrap` (`BootInv`) and that a page that is logged in keeps its timer;
- `Single`: `OneSocket` needs that there is one socket at most and none while
  the retry timer is set (`OverlapInv`), which only an overlapping resume breaks.

`TrendBufferProofs`, for every limit of the buffer, retention and gap, any
number of samples and crashes:

- `TypeCorrect`: `TypeOK`, in which neither the buffer nor a batch exceeds the
  limit; needs that a sample in hand was counted (`Typed`);
- `OrderKept`: `SamplesInOrder`.  What a flusher has goes before the buffer
  (`OrderInv`), which holds because only the holder of the flush lock has a batch
  (`LockInv`) and nothing in memory is newer than what was appended last
  (`AgeInv`); without the lock a requeue could put an older batch back in front
  of one that is not stored yet;
- `NothingLost`: `EveryBucketAccounted`, of which the half about the buckets is
  inductive with the lock and the ages (`BucketsInv`), and so is the half about
  the last flush (`FinalInv`);
- `OldestGo`: `OnlyTheOldestGo`, an action property, from the order and the
  ages: what the limit cuts off is at the front.

The same module has the start and the end of the process (`ServerLifecycle`), for
any number of requests: `ProcessTypes`, that is `LifecycleTypes`, and
`DatabaseClosedLast`, that is `QuietBeforeClose`.  It needs that the place of
`Start` tells which of the shared fields are made (`StartedInv`), that each
`Once` is used exactly when main has passed it, with its channel closed or
overtaken (`StopsInv`), and that only main closes the HTTP server and then waits
for its requests (`DrainInv`).

`AppRegistryProofs`, for every set of names and any number of requests, starts
and restarts:

- `TypeCorrect`: `TypeOK`;
- `ListsAgree`: `ConfigAgrees`, inductive with what an open request knows
  (`ListInv`): memory and file agree while it is open, and all three lists once
  it has synchronised them;
- `RowsKept`: `OwnRowKept`.  The text follows from `TextInv`; the result of a
  start needs that an update that has read the row, or is going to, will write
  the last result back (`StartInv`), and both need what the request's place says
  of its own application (`ReqInv`);
- `OwnRowShown`: `ShowsOwnRow`, because every row belongs to a listed application
  or to the one the open request is about to drop (`OnlyInv`).

`ServicesProofs`, for any number of lines, jobs, names, writers, files, sources,
scripts, pages and changes, every size of pipe and ring:

- `TypeCorrect`: `ServiceTypes`;
- `WordKept`: `ServicesKeepTheirWord`, part by part.
  - Output: the lines of a stream are in order through row, scanner and pipe, and
    those of each before those of the next (`InOrder`), so `LogInOrder`.
  - Runtime log: every line that was written is in one place, once
    (`AccountInv`); the ring has the end of what was added (`RingInv`); what was
    added is in the file, excused, or in the hands of one writer whose file is
    open unless the line is excused (`StoreInv`, with `HandlesInv`).  That no
    line is missing when the writers are idle is a count of a sequence without
    repetitions (`AllAdded`).
  - Jobs: a goroutine that works has a row that is running (`WorkInv`); the
    archive of an untwinned backup has what its goroutine's place says
    (`ArchiveInv`), as whoever writes to a file of the same name is a twin,
    whatever function cleans the names.
  - Document: a page's copy differs from memory only in what it is behind in
    (`BehindInv`), so that a save of an old copy takes back excused parts only.
- `RowsFinal`: `RowsAreFinal`: the rows of jobs implement `RunRecord`, step by
  step from `WorkInv`, and a row gets no output after its run has gone on, since
  the scanners are joined before (`JoinInv`).

A behaviour of `Services` with a part in focus is a behaviour of the part
(`OutputRuns`, `LinesAlone`, `RowsAlone`, `DocumentAlone`), so what is proved of
the part holds of it.

`PageProofs` and `PageChoiceProofs`, for `Page`: any number of slots and of
requests under way, and any containers, cards, connections, names, snapshots,
points, disks, sockets, sections, scripts, directories, texts and filters.  The
invariant of the page is that of the panel in focus (`PageInv`, eleven panels, and
`ChoiceInv`, the other five); `Invariant` and `ChoiceInvariant` say that it always
holds, and the theorems below follow from it without a further step.  `TypesKept`
is `PanelTypes`, of all panels.  What makes each of them inductive:

- `TablesAct` (`TablesShowWhatTheyAct`): the newest request asks for what the
  search box says unless a search still waits, so that the last answer that is
  accepted belongs to it; boxes are only of rows that are there.
- `LoopsFollow` (`LoopsFollowThePage`): the loop's timer is set exactly when page,
  card and login ask for it, which every handler restores by
  `syncLogRealtimeLoop`; an export carries the files of its own card.  Of the
  dialogs: something is polled only while the window is open, and every removal
  under way was agreed to.
- `FlowsReachable` (`FlowsAreReachable`): `loading` is set only while a request of
  its own is under way; the rows are those of the list that pass the boxes, so
  the window finds each.
- `AppsShow` (`AppsShowTheSelected`): a detail that is missing is under way for the
  selected name, or excused; the buttons are computed anew by whoever selects.
- `TerminalsSay` (`TerminalsSayWhatIs`): every open socket of the remote desktop is
  the one the page has; a desktop that is wanted has a socket or a timer; a button
  that is down over there is one that the user holds, or took away with the pointer,
  and while the left one is held over the picture the page knows of it unless
  another one came up; a key
  that is down over there and was not left behind is held, and its way up would
  still be sent; a closed SSH socket has a reason, and the page's own report unless
  another session was begun.
- `MonitorShows` (`MonitorShowsWhatWas`).  No answer under way is of a time to
  come; from one arrival to the next there pass as many steps of the counter as the
  time between them, and at most as many more as the first came late; points are
  added with the time that it is, after all that are there; and the
  merged list of processes has no number twice because what is appended was
  filtered by the set of those that are there.  Of the chart: until the page has
  heard of a scroll, the place is what it will find, and a redraw restores what it
  has found; that a label or a tip is the nearest comes from lemmas on
  `Math.round` and on the positions of equally spaced points.  Of the disks: the
  counters grow; a sample is the sum of the last reading, also when the volumes
  are added up because the sum is nought; and a sum over a list without repetition
  is the sum over the set of its members.  The sums are those of `FiniteSetsExt`,
  whose recursion is unfolded by lemmas of the module (`SumsExistUpTo`,
  `AnyOrder`): that there is such a function is shown by a smallest counterexample,
  as none of the installed provers takes an operator for a parameter.
- `FrameAgreesAlways` (`FrameAgrees`): a marked menu button that is hidden leaves
  another one to go to, the timer belongs to the section; a step of the start asks
  once, and a save only after the start, so that answers that agree with the
  server are the only ones under way unless saves overtook each other.
- `ChoiceKept` (`PanelsKeepTheChoice`): a loop that follows a run asks again or has
  the end in its hands; the picker's choice is of directories that were shown for
  the use it is open for; what the browser finished was put on the clipboard, and
  the last of it is there unless something else was; the only timer is that of the
  message that is shown; the list of the log is that of its filter or asked for.

The assumptions are those the modules state of their constants
(`HubAssumption`, `TrendAssumption`, `CicdAssumption`, `LifecycleAssumption`,
`RegistryAssumption`, `OutputAssumption`, `ServicesAssumption`,
`PartsAssumption`, `SocketAssumption`, `PageAssumption`): goroutines are distinct, capacities and
bounds are numbers, and what the page is given is what the code gives it: log
sources, applications and scripts are different things, a menu
and a start are not empty, no process is twice in one list of a snapshot (whose
rows are keyed by their numbers), a chart is wider than its edges, and a
description of the hardware has a disk with a size (without one the code takes the
volumes, which is the case of no description).
The bounds on snapshots, samples, requests and so on are arbitrary numbers in
the proofs.

Only model-checked: liveness under fairness (`EventuallyStored`,
`CollectionsEnd`, `DroppedClientsWindUp`, `RunsEnd`, `ProcessesEnd`,
`LateSignalEnds` and those of `page_live`), which is outside of what TLAPS
proves.  Every invariant, every action property and the refinement that a
passing run checks is stated by a theorem above.

## 5. What the models show of the code

Besides the findings, the exceptions in the properties name behaviours that no
document speaks about, so they are no findings, but that a maintainer should
know.  Each of them is a behaviour of the model that TLC reaches.  A property with
such an exception does not refute it: it says that nothing else goes wrong and
bounds what does; the hazards of `PROJECT.json` say so in their notes.

Server:

- Two backups in one second have one file (`backup/manager.go:47`) when their
  names are the same but for case, spaces and slashes; a crashed or unrecorded job stays "running" for ever.
- A line of the runtime log is lost when its file changes between taking the
  handle and writing (`systemlog/service.go:89`); a line over 64 KiB is lost with
  all that came in the same write after it (`systemlog/service.go:153-166`).
- A page that was loaded earlier takes back later log sources, scripts and the
  backup target when it saves; a deletion of the last log source brings the
  default one and those of the applications back at the next listing
  (`EnsureLogSources`); the source of an application outlives it.
- Memory is never taken back when the file or the table cannot be written.

Monitor page:

- A pause and a resume before the close event of the old socket make that event
  clear the new one (`legacy-app.js:3072`); a third one is opened by the retry
  timer, the second one works on unlisted and no pause closes it (`OneSocket` accepts it).
- The answer to a poll that was under way replaces a newer snapshot that came on
  the socket, also on a page that has been paused meanwhile; a late trend
  history drops newer points; the report mixes the newest snapshot with older
  rates.
- Snapshots carry their time as text, which the page cannot read
  (`legacy-app.js:3130`, `3889`, `3948-3952`): disk rates and trend points are timed
  by arrival.  After a snapshot that came late the next rate is too high, and one
  snapshot that is drawn twice makes two points.  No document says otherwise, so
  this is no finding.
- When one of the two readings of the disk counters fails, the next snapshot
  shows the whole counter as a rate; the fuzzy match of `matchDiskIO` may turn
  from one device to another.
- A scroll event of a chart that has been replaced turns on the following of the
  newest point.
- `handleAuthRequired` leaves the polling of the traffic section on.

Panels:

- Answers of the log page, the runtime log, the connections and the polled run
  are not ordered: one of an earlier choice may be shown until the next comes.
- The detail of an application says "loading" for ever after the user went back
  to a loaded one, or after a network failure (`legacy-app.js:4769-4798`).
- The SSH timer is cleared by the close event only, so it ends sessions that
  work after fifteen seconds.
- A second click on connect while the remote desktop waits for its meta data
  connects again after a disconnection; meta data that were unavailable once are
  never loaded again, and a late answer that says so disables the disconnect
  button of a page that is connected (`legacy-app.js:1356`).
- `mouseleave` releases the left button whichever is down (`legacy-app.js:1566`): a
  right or middle one that is dragged off the picture stays pressed on the machine,
  and so does the left one after another came up while it was held.  The full-screen key works both on its way down and on its
  way up, and keys that are held then stay pressed over there.
- Two starts of scripts make two loops that follow the same run; an upload
  changes the selected script back.
- A directory that is unfolded or made late opens the picker again after it was
  closed, and one made for the target may end among the sources.
- A menu button that is hidden while it is marked stays marked and leaves a
  blank page when it is shown again; saves of the configuration overtake each
  other; a late answer of a given-up step of the start overwrites a newer
  configuration; `loadConfig` does not look whether the answer is an error.
- A copy by way of a field may overtake what the browser has not yet told about.

## 6. What is not modelled

- What a snapshot contains but for the disk counters (`collector.go`,
  `hardware_meta.go`, `protocol_scan.go`), which reads and formats what the
  operating system says.  The cache of the hardware has one caller, which holds
  the hub's collection mutex.
- Sessions (`auth.go`): one map under one lock, and each handler is one step
  with it; the page's side of a login is in `PageFrame` and `MonitorSocket`.
- Docker client, traffic, file-system views and log search: sequential, without
  state.
- `server.go:1053`, where the collector shares slices of the configuration with
  requests that change them in place, and `config.go:303`, where a crash can
  leave half a file: the first is about memory below the level of these models,
  the second ends at a start that refuses the file.
- The error of `json.Marshal` in the hub (`server.go:468-471`, `487-490`): such a
  snapshot reaches no client, and the next one is tried all the same.
- `ListMonitorTrends` only reads; pipelines are created and deleted in the
  document as log sources are; defaults fill in constants.
- The size of a page of the docker tables is a constant: its select, which a late
  answer sets back (`legacy-app.js:2035`, `2111`), is left out.
- Of the page: formatting and layout; the clean-up panel
  (`legacy-app.js:1127-1202`, `2333-2958`), the pipeline panel (`6792-7030`) and
  the explorer window of the connections (`3583-3768`), which nothing in
  `layout.html` reaches; the mappers of port scans (`4278-4303`).
- The built copies of the client (`web/static/app.js`, `svelte-app.js`) are
  generated from it or older; embedded assets, start-up helpers and the build.

Two parts of the tree do not fit together at this commit: `server.go:225` routes
`handleRemoteSSHWS`, which no file defines (so the server's side of the SSH
terminal is a choice in `SshTerminal`), and `internal/logs` declares its
functions in two files.  The README's data clean-up has no routes.

## 7. What stays open

- Liveness is checked on small instances only.
- `DiskReadings` leaves the volumes out whose names fit several devices
  (`matchDiskIO` may turn from one to another), and says nothing of the
  snapshot after a failed reading: there the code tells what is not the case.
- The server's handlers that only read, the queries of the trends and the mapping
  of what the operating system says have no model.
