# Verification of the ABR publishing and playback system

This directory holds TLA+ modules, TLC configurations and TLAPS proofs about the
programs of this repository: a desktop publisher (`multipusher/`), a backend
(`backend/`), a browser player (`abrplayer/`) and an admin page (`admin-web/`).
Line numbers refer to the files of the repository.

## 1. Inventory

### 1.1 FFmpeg publisher manager and workers (`multipusher/ws/ffmpeg_worker.go`)

*State.* `publisherMgr`: the configuration, `workers` (one `ffmpegWorker` per publish
target, or a single one under `sharedWorkerKey`), `paused` (target URLs), under `mu`. Each
worker: `running`, `status`, `cmd`, `stopCh`, `doneCh`, `targetURLs`, under its own `mu`.
Each start of a worker spawns `runLoop`, and each process a `monitorStallAndKill`.

*Operations.* `InitFFmpegPublisher`, `StartFFmpegPublisher`, `StopFFmpegPublisher`,
`PauseFFmpegPublisher`, `ResumeFFmpegPublisher`, the two `...ByURL` forms,
`GetPublisherStatusSnapshot`.

*Interactions.* Called by the UI goroutines and by the websocket read loop; runs ffmpeg
processes.

*Hard.* Commands of several goroutines overlap each other and the run loop; a stop reads the
process to kill before that process exists; five-second timeouts; retries after failures;
changing between shared and per-target mode; a pause in shared mode is a stop and a start.

*Correct when.* A worker has at most one loop and one process; no process is left behind;
the table is what the configuration asks for; a pause is never lost; a loop told to stop
launches at most once more; commands return; hung processes are ended; failed ones retried.

### 1.2 FFmpeg command line (same file, 769-1699)

Pure functions: pairing targets with output profiles, normalising profiles, choosing an
encoder, reading device lists; and caches of probes. Hard: index pairing when targets are
paused, duplicate URLs, defaults and clamping. Correct when every active target receives
the profile configured for it and the normalised profiles are usable.

### 1.3 WebSocket reconnect client (`multipusher/ws/ws_client.go`)

*State.* One connection, one session (`stopCh`, `stopOnce`, `triggerOnce`), `reconnectCh`
(capacity 1), `doneCh`, a back-off interval; a global client list.

*Operations.* `WebsocketClientThread`, `Start`, `connect`, `triggerReconnect`,
`startSessionLoops`, `readLoop`, `heartbeatLoop`, `reconnectLoop`, `closeWsClient`,
`handleNodeMsgReq`.

*Interactions.* Issues Start, Stop, Pause and Resume to 1.1; `main.go` does not start it today.

*Hard.* Loops of an old session that outlive it and act on the new one; a connection made
while the client closes; a handler in progress during a reconnect.

*Correct when.* One read loop and one heartbeat loop per connection, a lost connection is
followed by a new one, closing leaves no connection open.

### 1.4 Multipusher UI (`multipusher/main.go`)

State: `running`, the preview statuses, the polling stop channel. Operations:
`startPublisher`, `stopAction`, `startStatusPolling`, `stopStatusPolling`,
`refreshPublisherStatus`, the close intercept. Hard: commands and polls run in goroutines of
their own, results may be applied out of order. Correct when the shown state follows 1.1.

### 1.5 ABR player (`abrplayer/js/v3/`)

State: the ladder of streams, the current stream, cool-downs, back-offs, `isSwitching`,
`isProbing`, stall times, the player object and its callbacks. Operations: attach and destroy
the player, the monitor loop, downgrade, probe and upgrade, roll-back, HEVC fallback, the
legacy URL fallback, the user's choice of quality, site and view. Hard: asynchronous URL
resolutions and probes that finish after another switch; `isSwitching` waiting for playback
that never starts; oscillation. Correct when a lock is always released, a late result decides
nothing about what came after it, cool-downs and back-offs hold, and a failed player is replaced.

### 1.6 Stream monitor (`backend/services/stream.go`, `backend/tasks/monitor.go`)

State: in-memory stream states with failure counters, and rows of the database. Operations:
start, active, broken, recover, the failure counter, the periodic check, alarms. Hard: a
restart loses the memory and not the rows; the first probe fails; break after recovery.
Correct when memory and rows agree, an outage is alarmed, a recovery is recorded.

### 1.7 Rounds and reports (`backend/apis/apis.go`, `services/stats.go`, `utils/locker.go`)

State: rows, `mapRound`, a lock table with expiry. Operations: start, end, cancel of a round,
the delayed report, lock, unlock, cleaning. Hard: concurrent requests between check and
write; a lock that expires while held; a restart before the report. Correct when a round is
reported once and statistics are aggregated once.

### 1.8 Smaller components

| Component | Code | State and operations | Hard part |
| --- | --- | --- | --- |
| Remote logger | `*/tracer/remote.go` | bounded queue, sender, reader, reconnect | stale reader closes the new connection, resends |
| Local logger | `*/tracer/log.go` | files and rotation, a queue in the backend | a panic under `writeMu` |
| Rate limiter | `backend/utils/ratelimitor.go` | table of limiters, eviction | eviction while in use |
| Database handle | `backend/models/db.go` | handle, reconnect, fallback host | handle read while replaced |
| Settings | `backend/models/settings.go`, `apis/settings.go` | two stores | one write of two fails |
| Login | `backend/apis/auth.go`, `utils/auth.go` | none (signed values) | none |
| Table handlers | `backend/apis/*.go` | none | none |
| Scheduled reports | `backend/tasks/cronjobs.go`, `services/lark_*.go` | none | none |
| Configuration | `multipusher/conf`, `backend/models/conf.go` | file contents | parsing, defaults |
| Admin page | `admin-web/app.js` | forms | none |
| Probes, utilities | `backend/services/{ffmpeg,tencent}.go`, `*/utils` | none | external |
| Protocol buffers | `multipusher/pb3` | generated | none |

The hazards of each part are listed, line by line, in `PROJECT.json`.

## 2. Plan

In order of importance; all of it is done, but for what section 7 names:

1. `WorkerSupervisor` (what a worker promises), `FFmpegPublisher` (1.1),
   `FFmpegPublisherProofs`.
2. `WsClient`, `WsClientProofs` (1.3, one client).
3. `AbrPlayer`, `AbrPlayerProofs` (1.5).
4. `OutputLadder` (1.2 with the settings and the form): from the file and the environment to
   the command line of ffmpeg; `OutputLadderProofs`.
5. `DbHandle` and `StreamMonitor`, which extends it (1.6), `StreamMonitorProofs`.
6. `Rounds` (1.7), with the lock table and the report in it, `RoundsProofs`.
7. `PublisherUI` (1.4), over a publisher reduced to what the window sees of it,
   `PublisherUIProofs`.
8. `Logger`, `LoggerProofs`: the two loggers of both programs, which share a mutex and call
   each other.

Every invariant of a passing run is proved. Modules to be proved about declare no RECURSIVE
operator.

## 3. The modules and the code

| Module | What it is |
| --- | --- |
| `FFmpegPublisher` | the manager, its workers, run loops, processes and callers (1.1) |
| `WorkerSupervisor` | the abstract specification of a worker; `FFmpegPublisher` implements it |
| `MCFFmpegPublisher` | constant values of the TLC instances |
| `FFmpegPublisherProofs` | inductive invariant and safety theorems of `FFmpegPublisher`; the refinement of `WorkerSupervisor`; what commands achieve when others overlap them: pauses, stops, targets, statuses, panics |
| `WsClient` | one reconnecting websocket client (1.3) |
| `WsClientProofs` | inductive invariant and safety theorems of `WsClient`, its sessions included |
| `AbrPlayer` | the ABR state machine, the player's events and the page's commands (1.5) |
| `MCAbrPlayer` | constant values of the TLC instances |
| `AbrPlayerProofs` | invariants and safety theorems of `AbrPlayer` |
| `OutputLadder` | settings, form, targets, profiles and the command line (1.2, 1.4, configuration) |
| `MCOutputLadder` | the files and environments of its TLC instance |
| `OutputLadderProofs` | lemmas about the settings, the form and the command line; inductive invariant and safety theorems of `OutputLadder` |
| `DbHandle` | the shared database handle of the backend |
| `StreamMonitor` | monitor, statistics and stream table over `DbHandle` (1.6) |
| `StreamMonitorProofs` | inductive invariant and safety theorems of `StreamMonitor` and `DbHandle` |
| `Rounds` | the handlers of a round, the lock table, the report (1.7) |
| `RoundsProofs` | inductive invariant and safety theorems of `Rounds` |
| `PublisherUI` | the window of multipusher (1.4) |
| `PublisherUIProofs` | inductive invariant and safety theorems of `PublisherUI` |
| `Logger` | remote and local logger of multipusher and of the backend |
| `LoggerProofs` | inductive invariants and safety theorems of `Logger` |

Definitions whose name has a suffix after an underscore (`RunPoll_NoStopCheck`) are faulty
variants of the definition before the underscore. The specification does not use them; with
one of them in its place a property named in `PROJECT.json` is violated, which shows that the
property depends on that line of the code.

### 3.1 FFmpegPublisher

| State | Code |
| --- | --- |
| `cfg`, `workers`, `paused` | the fields of `FFmpegManager`; `workers[k] = None` is a missing key |
| `wKey`, `wTargets`, `wRunning`, `wStatus`, `wCmd` | the fields of an `ffmpegWorker` |
| `wRun` | its `stopCh` and `doneCh`: both belong to the run that `startLocked` spawned |
| `rPc`, `rWorker`, `rTargets`, `rStop` | the goroutine of `runLoop`, its receiver, the targets its command line was built for, its closed `stopCh`; `rPc = "done"` is a closed `doneCh` |
| `rProc`, `rProcs` | the latest process of the run and how many it launched |
| `cPc`, `cOp`, `cPend`, `cClose`, `cAwait`, `cCmd` | a goroutine inside a command: its place, the command, the local variables |
| `crashed`, `abandoned` | a panic nobody recovers; a history variable |

*Atomicity.* One action is a critical section of `publisherMgr.mu` or `w.mu`, a channel
operation or a system call. A command is therefore a sequence of actions: Stop copies the
table (`StopFFmpegPublisher`), then for every worker reads its channels (`StopWorker`), closes
`stopCh` (`CloseStopCh`), kills the process it read (`KillProcess`) and waits (`AwaitDone`,
`AwaitTimeout`). Any other goroutine may run between two of these. `StartFFmpegPublisher` is a
single action because `publisherMgr.mu` is held across it and each `startLocked` section only
changes a worker nobody else can be starting. `runLoop` is the actions `RunTop` to `RunExit`;
the two looks at the pause marks and the three looks at `stopCh` are steps of their own.

*Data.* A target is a model value; `Base[t]` stands for its normalised base URL. Of the
configuration the model keeps the targets and whether the input is a live capture on Windows,
which is what `shouldUseSharedFFmpeg` looks at. The command line is the set of targets it
publishes. Progress parsing is the choice of a process to stall. Identities of worker objects
and runs are used again once nothing in the state refers to what they stood for, as memory is.

*Panics.* `close` of a closed channel panics. A caller in `Recovering` is the websocket read
loop, whose `TryException` recovers and ends it; any other panic ends the program (`crashed`).
A panic under `PauseFFmpegPublisherByURL` reaches the same recovery.

*Left out.* Windows job handling, the fall-back encoder choice and the command-line text (1.2),
logging, the empty URL (an error and no change), `GetPublisherStatusSnapshot` as a step (it is
the operator `StatusSnapshot`, read atomically; the code reads worker by worker).

### 3.2 WsClient

| State | Code |
| --- | --- |
| `pc` | where `WebsocketClientThread`, `reconnectLoop` and the loops of each session are |
| `made`, `link` | how many connections were dialled, and the state of each |
| `conn` | `c.conn`, 0 for nil |
| `session`, `stopped` | which session `c.stopCh`, `c.stopOnce`, `c.triggerOnce` belong to; the sessions whose `stopCh` is closed |
| `onceLocked`, `onceDone` | the inside of the current `triggerOnce` |
| `signal`, `done`, `reconnect` | `reconnectCh`, `doneCh`, the flag `reconnect` |
| `held` | the connection a loop copied from `c.conn` and is reading from or writing to |
| `waitsOn` | the `stopCh` a heartbeat's select was entered with |
| `muStuck`, `crashed` | `connMu` left locked by a recovered panic; a fatal error of the runtime |

The loops use `c.stopCh`, `c.triggerOnce` and `c.conn` through the client, not as arguments: a
loop of session 1 that is late finds those of session 2. The model keeps this, so `ReadPoll`
looks at `session` and not at the loop's own number, and `TriggerLeave` unlocks whatever once
is current. `connMu` is held across one action everywhere except for the close frame
(`ThreadFarewell`), and `writeMu` across a write. A read or write ends when the connection is
closed, and may end when it is broken. A handler may panic: the read loop then ends without a
trigger and the heartbeat finds out when a write fails.

`Prompt` separates two worlds. With `FALSE`, a goroutine may be delayed for longer than the
back-off of at least one second. With `TRUE`, `ReconSleep` ends only when no goroutine is
waiting merely for a processor (`OnItsWay`); handlers, reads, writes to a peer that does not
answer and ticker waits may still take any time.

*Left out.* The payload of messages, the growth of the back-off, `MsgToMessenger`, the list of
clients. `main.go` does not start a client at this commit; the module models the client as its
own `WebsocketClientThread` would run it.

### 3.3 AbrPlayer

| State | Code |
| --- | --- |
| `page`, `detected` | `pageSiteName`, `pageViewName` and the ladder they name; `_hevcSupportCached` is set |
| `auto`, `current`, `switching`, `lowCount`, `upgradeFrom` | `autoSelectActive` and the fields of `ABRState` |
| `weak` | whether `probedBandwidthKbps` is above 0 and below the threshold of the highest level |
| `timer` | the time stamps of `ABRState`: a flag holds while the stamp is younger than the interval the code compares it with |
| `probe` | `probeInFlight`, and the stream the probe was started on |
| `url`, `player`, `monitor` | `currentWebrtcUrl`, `tcplayer`, `monitorTimer` |
| `call` | the asynchronous functions that wait for a URL or for the detection of HEVC |

*Atomicity.* JavaScript runs a handler to its next `await`; an action is that stretch.
`safeSwitchToStream` is therefore `Switch` (to its `await`) and `SwitchEnds`, `startSiteAbr` is
`StartSelected`, `DetectEnds` and `StartEnds`, a monitor tick with a probe is `MonitorTick` and
`ProbeEnds` or `ProbeFails`. Awaited calls end in any order, and nothing cancels them.

*Data.* A stream is a page and a level of the ladder; a page is a site with a view. A URL is the
stream it plays. What a request that fails leaves to use is the cookie `phil_stream_url`, which
any tab may have written: one of `CookieUrls`, or `None`. `OldName` is a stream name with an
underscore after its site, which error -2004 replaces by `Legacy`. A bandwidth is one of a few
values on either side of the thresholds.

*Time.* `Lapse` lets a flag end at any later time, with one exception: the cooldown (50 s)
ends neither within a probation (15 s), which never begins later than the cooldown that covers
it, nor while a probe runs that began before it. A probe is aborted after 5 s; a browser that
delays the timers of a hidden tab by more than 45 s is outside the model.

### 3.4 OutputLadder

| State | Code |
| --- | --- |
| `disk` | `pusher.local.yml`, with the fields of older versions |
| `form` | the widgets, `ui.streams`, `ui.secrets` |
| `pub`, `paused` | `publisherMgr.cfg` and its pause marks |
| `running` | `ui.running`, which decides whether Start and Stop do anything |
| `worker`, `copied` | the shared worker's targets and whether its loop runs; the targets the loop has copied and not used yet |
| `cmd` | the command line of the process that runs and (history, `set`) the input that was configured when it was built |
| `chosen` | `windowsEncoderConfig`, once `windowsEncoderOnce` is done, and (history, `of`) the encoders that worked then |

Most of it is pure: `Load` is older fields, environment, `Validate` and the fall-back to
`defaultConfig`; `readConfig` and `applyConfig` go from form to settings and back;
`buildPublishTargets` and `Outputs` make the two lists that `appendFourLevelOutputs` pairs by
position. Both come from `activeStreamsForInput`, and what a pause leaves of the targets from
`mapKeysInOrder`: each picks some places of a list and keeps their order (`Picked`). The actions
are an edit, Start, Stop, a pause or resume by URL, the launch in two steps (targets are copied
under the lock, layout and outputs are read later), the exit of the process, and a restart of the
program in another environment. The program looks for encoders that work once, at its first
command (1229-1237), and keeps its choice until it ends, while the encoders that work on the
machine may be others at each launch; whether the input has audio is found out for each command
(902-936), except that what was found of a file is kept.

*Data.* A rate and a size are a word, "own" for one that the default does not have. A stream has
one rate and one size for its two bitrates and four dimensions, because all of them go the same
way through the code. A file may mark any level as audio alone (config.go:358), which leaves
fewer targets where the input has no audio. `TwoLevelsOfVideo` assumes that two at least are
left: a single one has a worker of its own, which `FFmpegPublisher` covers. Two or three are
those of a capture on Windows, which share one process (1706-1715), and each receives all the
renditions. `SettingsAreTyped` says that a field of a file holds a word, whatever word.

### 3.5 DbHandle and StreamMonitor

| State | Code |
| --- | --- |
| `hdl`, `open`, `mutex`, `at`, `got` | `dbHdl`, the pools that are open, `dbMutex`, where each goroutine is in `GetDbConn` or `ActiveDbConn`, the handle it holds |
| `streamStates`, `row` | the memory of the monitor, and `statStreamStatus` |
| `mon`, `todo`, `cur`, `checkDbCount` | the thread of the monitor: its place, the streams left in this pass, the change of a row under way, the count of ticks |
| `cron`, `toReport`, `posted` | the hourly and daily statistics, one thread here: both walk the streams and ask `GetStreamState` |
| `failed`, `missed`, `settled`, `alarmed` | history |

A probe and its effect on memory is one action, the change of the row another, because the handle
is asked for in between. `GetDbConn` reads `dbHdl` twice without the lock (db.go:123-124), two
actions here, so it may return nil although it has just found a handle. A step on the database succeeds
when the thread's own pool is open and the database is up. A nil handle ends the monitor's thread
for good (`NilHandle`, `Clean`: the `TryException` is around the whole loop), and only skips a
turn of the statistics. The main and the backup host are one.

### 3.6 Rounds

| State | Code |
| --- | --- |
| `req` | the handlers under way: operation, place, round and field of the request |
| `rows`, `mapRound` | the table of rounds, and the rounds in memory |
| `locks`, `sweep` | the lock table with its expiry, the keys the cleaner has looked at |
| `timers`, `stat`, `posted` | reports that wait 90 s, rows of reports, messages posted |
| `marks`, `lapsed` | history: what happened to a round, keys whose lock ran out |

Each access to `mapRound`, the lock table and the database is an action. The field of a request
may differ from the row's, or be empty, which matches any. A failing statement is a choice of
every database action. A report whose row is refused or fails is posted all the same. The alarm
of an incomplete recording is part of the posted report; the contents of reports are left out,
and so is the report on request (`TestGetRoundReport`).

### 3.7 PublisherUI

| State | Code |
| --- | --- |
| `running`, `statusStop`, `targetStatus`, `previews` | the fields of `mainUI` |
| `form`, `startOn`, `stopOn` | what the widgets show |
| `thread` | the window's goroutine, `startOnReady`, the polls: what each has left to do and its local variables |
| `stopped` | the channels that are closed |
| `publisher` | the configured targets and the state of their worker |
| `raced` | history: whether two handlers, or two refreshes of the table, overlapped |

A handler is a list of steps (`Start`, `Stop`, `Close`), each an access to a shared variable;
`Goto` moves to the rest of the list. Other goroutines run between any two steps. A stop may be
given up (`Ending`), in which case a second one closes the channel twice, as in
`FFmpegPublisher`. "Retrying" counts as "Running". A refresh of
the table makes new rows, all of them "Idle" (`BuildPreviews`), and then sets their statuses
(`ApplyStatus`); another goroutine may replace the rows in between. The loop that sets them is
one action. The module has the device mode, whose four or five outputs share one worker.

### 3.8 Logger

| State | Code |
| --- | --- |
| `queue`, `backlog` | `msgQueue` of the remote and of the local logger |
| `isConnected`, `conn`, `open` | the remote logger's fields; the connections that are open |
| `rmutex`, `stuck` | the holder of `remote.mutex`; `writeMu` was left locked by a panic |
| `thread` | callers, `processqueue`, `checkstatus`, `autoWrite`, a reader for each connection |
| `late`, `overtaken` | history: readers that a new connection overtook |

`program` chooses between the two versions: that of multipusher writes the file under `writeMu`
and closes a connection under the mutex; that of the backend has a second queue and closes
without it. Any write may be the first of a day, whose file may fail to open. Goroutines may
be late without limit: `late` (history) are the readers that had not dealt with their error when
`conn` was replaced, `overtaken` says that there has been one. A second
`InitLog`, `shutdown`, `Close` and the callers of `EnableRemoteLog` are left out: the programs
initialise once and never close.

## 4. What the runs show

Runs of systems that may stop have `CHECK_DEADLOCK FALSE`: a manager nobody commands, a closed
client, a crashed program or a used-up bound. `Ladder_all`, `Monitor_all` and `Rounds_all` check
deadlock: their programs never stop.

| Run | Instance | Shows |
| --- | --- | --- |
| `Publisher_modes` | 1 caller that initialises, starts and pauses by URL, 2 configurations, 3 worker objects, 2 runs, 1 process per run | the table follows the configuration between per-target and shared mode; no target is published twice but beside a process that Init left behind; a removed worker is told to stop |
| `Publisher_callers` | 2 callers, 3 configurations, 1 worker (of one target or the shared one), 2 runs | one loop per worker; `CommandsAreHeard`; the refinement of `WorkerSupervisor` |
| `Publisher_live` | 1 caller, 1 target, 2 processes per run, fair | no process is left over by a retry; the status is true; a double close needs a stop that was given up; `Progress` |
| `Ws_safety` | 2 connections, not prompt | no request for a reconnect is lost; no connection leaks |
| `Ws_live` | 2 connections, prompt, fair | `OnlyHandlersOutlive`; `Progress` |
| `Abr_overlap` | 1 page, 2 awaited calls, no HEVC | no lock stays under a playing player; a roll-back has no target |
| `Abr_pages` | 2 pages, 1 awaited call, HEVC, cookies, an old name | failed video players are replaced; a late probe decides for its own stream |
| `Ladder_all` | 17 files, 2 environments, 4 sets of encoders at each launch, 1 edit, 2 starts, 1 pause | `TargetsGetTheirLevel`, `CommandIsUsable`, `PublishedIsWhatIsSet` |
| `Monitor_all` | 1 stream, 2 threads, a check every tick, 1 restart, fair | one pool; memory and rows agree; breaks raise alarms; a pushed stream becomes active; statistics only of streams that are up |
| `Rounds_all` | 2 requests, 1 round, 2 fields and none | ends exclude each other; one report; rounds stay endable |
| `UI_all` | 1 site with or without audio, 2 polls, 1 start or change by the user, fair | `WindowFollowsPublisher`; a crash needs a race; the table catches up |
| `Logger_all` | 1 caller, 2 connections, queue of 2, 2 messages, 2 faults, both programs | `QueueIsSound`, `ConnsAreKept`, no mutex is kept |

*Properties with parts.* `CommandsAreHeard`: `PauseIsNotLost`, `PauseIsApplied` (no loop goes on
with a paused target in its command line), `StoppingIsAttended` (a loop told to stop has a caller
who waits for it, or gave up on it). `Progress` of the publisher: commands return, told loops
end, hung processes are killed, failures retried; of the client: a lost connection is replaced, a
closed client ends. `OnlyHandlersOutlive`: one heartbeat, `triggerOnce` is idle when it is
replaced, and of the read loops of earlier sessions only one that is in a command, or back from
it, is left. `RowFollowsProbes`: broken means two failures in a row, and the row follows the
memory. `ReportsAreRight`: once, and of a round that is done. `RoundsStayEndable`: what goes on
is in `mapRound`, and no lock is left. `TargetsGetTheirLevel`: levels are paired and targets
differ. `CommandIsUsable`: outputs have a source, encoders worked when the program chose them.
`PublishedIsWhatIsSet`: the defaults of the two packages agree, what was saved is what is
published, a stream name decides its layout, the link names published streams.
`WindowFollowsPublisher`: buttons, close, rows after a stop, rows of the form, polls.
`QueueIsSound`: order and bound. `ConnsAreKept`: no connection is forgotten (in the backend until
a reader was overtaken), and a reader closes a healthy one only if it is late.

*Bounds.* `Runs` bounds the loops that exist at once, not in total, since identities return: two
are enough for a loop that is ending beside its successor, or for one loop per target. Three
worker objects are enough for two in the table and one that was removed. `MaxProcs` is the only
bound that makes a publisher run stop early: after it a launch can only fail. Two processes per
run show a first process, a retry and the second one. Two callers show every pair of commands on
the same worker. `Publisher_modes` issues no Stop of its own: pausing an alias of all targets
stops them through the same steps. Two connections show a session, its successor, and loops of
the first that are late for the second. Symmetry is declared for workers and runs, which the
model only compares, and for targets where exchanging them maps the configurations to each other;
never with liveness.

For the player, `Calls` bounds the awaited calls in flight: with two, a switch overlaps a start
or another switch, which is what overtaking needs. The thresholds are the code's; the measured
150 and 1600 kbps are below the limit of every level that has a neighbour below it except the
economic one's 200, which 150 is below too, and above every limit for an upgrade.

The files of `Ladder_all` each differ from a plain one in one way that `config.go` handles. One
edit and two starts show settings that were saved, changed and saved again; a restart may come
at any time. Streams are independent of each other for the monitor but for the order within a
pass: one is enough, and the theorems hold for any number. One restart shows memory that is
lost under rows that are not; two threads are all that share the handle with a race. One round
with two requests and three fields shows every pair of handlers; the locks of different rounds
do not meet. In `UI_all` one action by the user is added to the automatic start, any number of
stops, the close and two polls, which is what every overlap named there needs. Two connections
show a reader that is late for the next one; two faults show a failure after a failure; a queue
of two is full with one message put back.

*Conditions.* `DetachedIsStopped`, `NoDuplicatePublish` and `PanicNeedsAbandonedStop` are stated
for one caller.
With two, a `ResumeFFmpegPublisherByURL` that copied a worker before an Init removed it starts
the removed worker (472), which then publishes beside the table's, and two stops can close one
channel. `NoDuplicatePublish` excepts the process that Init leaves behind (`LeftBehind`, section
6); for workers in the table `NoDoublePublishInTable` proves it without exception and for any
number of callers. `PauseIsApplied` is
checked without a second Init, which sets the shared worker's targets to all of them (219)
whatever is paused. `PauseIsNotLost` excepts what the code gives up: when `killProcess` fails,
`PauseFFmpegPublisherByURL` returns (421-422) and the matched workers it had not come to stay
marked as paused and go on until their process ends. `OnlyHandlersOutlive` needs prompt
goroutines: without that, a trigger that is inside `triggerOnce` for longer than the back-off
unlocks the next session's once, a fatal error.

`DeadIsAttended` is stated for a play URL that is always found (`None` is not in `CookieUrls`); a
switch that finds none releases the lock and leaves the dead player to the monitor loop.

The history variables of the newer modules name what the code gives up: `missed` the rows whose
change was lost with the database; `marks` the rounds with two closes at once, a failed
statement, another field or a restart; `raced` the overlaps of handlers and of refreshes in the
window; `stuck` the file that could not be opened; `late` and `overtaken` the readers of the log
that deal with an error after the next connection was made. Each property says which of them it
excepts.

*Fairness.* For the publisher: a goroutine that can run is scheduled (run loops, the monitor, a
caller in the middle of a command, timers included), and a killed process dies. Nobody has to
issue a command, and a process that was not killed may live for ever. For the client: the same
for its goroutines, except that a read on an open connection may wait for ever. Strong fairness
is used where weak would let chance go one way for ever: a heartbeat's select with a closed
`stopCh` (the ticker is ready again only after an interval, `stopCh` at once), writes on a broken
connection (some are buffered, in the end one fails), and dialling (a server that is dialled
often enough accepts). Nothing says that a connection breaks or that a client is closed. That a
closed client ends needs prompt goroutines too: a read loop of the first connection that is late
may begin to read from a connection that was dialled during the close, and nobody closes that
one.

For the monitor: its thread runs on (a ticker fires) and so does a thread that asks for the
database; nothing is assumed of streams, hosts or restarts. For the window: each goroutine that
has a step left takes it, and the ticker of a poll fires; the user has to do nothing.
`ShownCatchesUp` allows a row to be "Idle" between the two halves of a refresh: every tick of a
poll passes through that.
`Rounds`, `Logger` and `OutputLadder` state no liveness.

## 5. What is proved

All theorems are proved for arbitrary constants that satisfy the named assumptions
`PublisherAssumption` (finite targets; `SHARED` and `None` are different from everything they are
compared with; configurations are well formed), `ClientAssumption` (`MaxConns` is a positive
number, `Prompt` a Boolean), `PlayerAssumption`, `RoundsAssumption` (there is a round; the
default field is one, no field is none), `DbAssumption` (finitely many threads) and
`MonitorAssumption` (the monitor and the statistics are among them; positive bounds) and
`UIAssumption` (finitely many stream names; no poll is called `None`, "window" or "ready"),
`LoggerAssumption` (positive limits; names that differ), and of `OutputLadder`,
`SettingsAreTyped`, `BoundsAreNumbers` and `TwoLevelsOfVideo`, as said in 3.4. So they hold for
any number of targets, callers, workers, runs, connections, requests, rounds, fields, streams and
polls.

*FFmpegPublisherProofs.* `IInv` is the conjunction of `TypeOK`, `OneRunPerWorker`,
`ProcessIsAwaited`, `TableMatchesConfig` and `UsedWorkersHaveKeys`. The parts need each other:
a stop is handed an existing channel (`TypeOK`) because a running worker owns a run
(`OneRunPerWorker`); a loop that a start spawns begins without a process because the run whose
identity it takes had ended, and an ended run has no process (`ProcessIsAwaited`); a command
line is built for a key because every worker object in use has one (`UsedWorkersHaveKeys`).
From `Invariance` (`Spec => []IInv`) follow `TypeCorrect`, `RunOwnership`, `NoOrphanProcess` and
`TableFollowsConfig`.

`ImplementsSupervisor`: every behaviour of `Spec` is, under the mapping that
reads phase, commitment and process from the run a worker owns, one of `WorkerSupervisor`. Each
action is shown to be one abstract step or a stutter; only `StartWorkers` needs the abstract
action on a set of workers. The proof uses `IInv` in the state before the step: without
`OneRunPerWorker` a step of a run could change the phase of a worker it does not belong to.

*The commands* (second part of that module), on top of `IInv`, for any number of callers unless
said otherwise.
- `CallerShape`: which channels and workers a caller holds at each place of its command; all the
  others need it (`CallersKeepShape`).
- `StopsAndPausesAreHeard`: `PauseIsNotLost` and `StoppingIsAttended` are inductive given the
  shape. The argument for the pause: marking and the copy of the table are one critical section,
  so a loop that passes the check at its top later sees the mark, and one that passed it before is
  among the copied workers.
- `NoDoublePublishInTable` follows from `LineShape`: a loop of a worker of the table has no target
  but its own key in its command line, and workers of the table have different keys, or there is
  only the shared one.
- `NoDoublePublish` is about removed workers too, for one caller. `OwnLines` extends `LineShape` to
  them, and `CurrentApart` says that two loops that have not ended and are not left behind have
  different targets for keys: Init returns when the loops it removed have ended, or gives up on
  them, and until then the one caller starts nothing.
- `StatusIsTrue` needs `StatusShape`: "Running" implies that the loop is past the registration of
  its latest process; it relates worker and loop, since three goroutines write the status.
- `CommandsReachTheirLoops` adds `PauseIsApplied`, which is not inductive: its strengthening
  `PauseReachesLine` speaks of the next command line too, since a shared worker reads its
  targets when it builds one. Its hypothesis is `"init" \notin Ops`, the time between two Inits:
  the code does not keep the property across an Init (219, see *Conditions*).
- `NoLoopIsStranded` and `PanicFollowsGivingUp` are the two about one caller, with Init at any
  time; the hypothesis says that two callers are equal. Their invariant `OneCallerShape`: the
  workers the caller has still to stop are in the table, and a channel it is about to close is
  open unless it gave up on its run.

*WsClientProofs.* `IInv` is `TypeOK`, `OldConnsAreClosed` and three facts about who dials:
while the thread is in `Start` no loop and no trigger exists (`StartIsAlone`), whoever dials
does so with `c.conn` nil (`DialsWithoutConn`), and whoever adopts a connection has made one
(`AdoptsMade`). `TypeCorrect` includes that no loop reads from or writes to a nil
connection. `NoConnectionLeak`: a connection that `c.conn` no longer holds is closed, under any
scheduling. `NoReconnectIsLost` needs `SessionShape`: sessions follow their connections one by
one and every `stopCh` but the last is closed (`SessionsInOrder`), `Start` is alone until its
first connect is decided (`FirstConnect`), and as long as nobody has signalled since the session
began, either somebody is about to or `triggerOnce` is fresh and a heartbeat is there to use it
(`UntoldIsWatched`). It holds however late the loops of earlier sessions are.
`SessionsDoNotOverlap` assumes `Prompt`; `PromptShape` says that from the end of the back-off to
the next session nobody but a handler is left (`QuietBetween`), so that no old heartbeat goes on,
no read loop but one in a command is left when the next begins,
and whoever is inside `triggerOnce` holds the mutex of the present one. Without the hypothesis the
property is false (see *Conditions*).

*AbrPlayerProofs*, under `PlayerAssumption` (the constants are of their types), for any number
of pages and awaited calls. `TypeCorrect` comes first. `LockReleased` is inductive given the
types: whoever sets `isSwitching` has issued a call, whoever ends one of these calls clears
`isSwitching` or attaches a player that does not play yet, and playing clears it. `RollbackIsEmpty`
and `ProbeDecidesForItsStream` need `PInv`, which adds `ProbeFits`: while ABR plays and no
cooldown runs, a probe in flight is one of the current stream. Every action sets the cooldown,
turns ABR off or leaves alone what `PInv` talks about (lemma `Settled`). `FailuresAreAttended`
assumes that a play URL is always found.

*RoundsProofs.* `IInv` adds to the types that the place of a handler fits its operation
(`PlacesFit`), that whoever is in the locked section finds its lock in the table unless one
lapsed, with at most one holder (`Locked`), and that a round has one life (`LifeFits`): before
its row exists nobody stores, closes or reports it; while a start is about to store it nothing
else is; from then on one close at most is under way, and it has not reported before its save,
unless `overlap` is marked. `RowFits` ties the row to that life. Every part is needed: that a
second report is impossible follows only because a round that was closed is not in `mapRound`,
which no start puts it into again because its row exists. From `Invariance` follow
`TypeCorrect`, `Exclusion`, `ReportsFollowRounds` and `Endable`.

*StreamMonitorProofs.* For the handle: whoever opens a pool holds the mutex and there is no pool
(`OpensAlone`), hence `PoolIsOne`; that a fresh pool exists is a counting argument over the
handles the threads hold (`FreePool`). For the monitor: memory counts failures
(`MemoryFits`), a change under way is the one the memory calls for (`ChangeFits`), and a break
that has no alarm yet is still to be written over a row that says active (`AlarmFits`), which
is why its start is new and its alarm is raised. From `Invariance` follow `TypeCorrect`,
`PoolIsOne`, `RowsFollow`, `BreaksAlarm`, and the action property `PostsAreOfLive`.

*LoggerProofs*, for both programs, any number of callers, connections and queue limits.
`ThreadsFit` lists the places each goroutine can be at; every other invariant starts from it.
`NobodyRestsWithTheMutex`: `Held` says that the holder of the mutex is at one of the places after
a lock, so it never locks again, and rests or dies there only under a file that was not opened.
`TheLogKeepsItsConnection` needs `Linked`: from the dialling to the new connection the old one is
given up (`OldIsGone`), and whoever cleared `isConnected` closes the connection, too
(`ClosesOrShuts`), in multipusher always and in the backend until a reader was overtaken; and
readers that are not late read from the current connection and have their errors from it
(`ReadersReadIt`, `ErrorsAreOfIt`). That multipusher loses no connection even to a late reader is
the mutex: clearing `isConnected` and closing are one critical section, of whichever connection.
`TheQueueKeepsItsOrder`: `Sound` orders the message in the
sender's hand, the queue and the next number in one line (`Ordered`), and leaves room for the
message in hand to go back: while the sender works, the queue is within its limit.

*PublisherUIProofs*, for any finite set of stream names, any number of polls and of acts of the
user. `Place` numbers the steps of the handlers, and one lemma for each action says from which
place to which it goes, so that the invariants speak of places and never of lists. `ButtonsFit`:
unless handlers overlapped or a stop was given up, one handler is at work at a time, and `Phase`
says what it has made of `running`, the buttons and the worker at each of its places; when it is
done the three agree. `PollsFit`: a poll is stored only where the one before was taken away.
`TableFit`: who refreshes the table alone does so from the form of now. `StaleFit`: when the rows
are not those of the form, the callback that changed it is the only thing under way, so nobody
draws them (`CrashNeedsOverlap`). The last part, that nothing is shown as published once it is
stopped, follows a status from where it is read to where it is shown (`StatusFit`, `LiveFit`,
`TargetsFit`): all of them name rows of the form only, which is why marking the rows as stopped
leaves no other status behind (`OffFit`). From `WindowInductive` follow `WindowFollows` and
`CrashNeedsOverlap`; `TypeCorrect` comes first.

*OutputLadderProofs*, for any files, environments, names and encoders. The lemmas come first, and
they are most of it: a stream that was normalized is its own normal form (`NormalizedIsKept`), so
settings that were validated are `Ready`, and then saving, loading without an environment,
showing them in the form and reading them again change nothing (`SavedIsSame`, `LoadedIsSame`,
`ReadAgain`); of streams that are ready, those of audio alone are skipped where there is no
audio, and the others keep their order (`Actives`, `Place`, `ActiveStreams`), hence the targets
and the profiles of one configuration are parallel lists of two at least, and of the same streams
(`ReadyTargets`, `ReadyOutputs`), no two targets have one name (`ReadyTargetsDiffer`) and the
publisher's defaults fill nothing in (`ReadyProfiles`). `Picked` is handled by rank: `HasRank` is
proved by taking the last place before which fewer than k were picked, since an induction is out
of reach. The invariant is `LadderFits`: the publisher holds what `disk` says (`PubFits`); no
list of targets, in the worker, copied or in the command, is younger than the last start
(`Recent`), which is why a copy made before a start never covers its targets (`NewTargets`); and
a list that has every configured target is the configured list, in its order (`Whole`), which
pausing keeps because a part of it that has all is all of it (`LeftFits`); and the encoders are
those that were found when the program chose (`ChosenFits`), on whatever machine the command is
launched. From `LadderInvariant` follow `LevelsArePairedAlways`, `CommandIsAlwaysUsable` and
`PublishedIsAlwaysWhatIsSet`.

*Only model-checked.* The liveness properties (fairness and ENABLED are out of the prover's reach):
`Progress` of the publisher and of the client, `LiveBecomesActive` and `ShownCatchesUp`. Every
other property of a run is stated by a theorem.

## 6. Where the code differs from what is written about it

Read off the code while modelling it:

- multipusher/README.md:154, "`Stop`: stop all publishers": a loop that is building its command
  line has no process to kill yet (ffmpeg_worker.go:657); Stop gives up after five seconds and
  the process launched afterwards publishes until it exits by itself. `ImplementsSupervisor`
  bounds the damage: it is one process per stopped worker.
- multipusher/README.md:153, "`Start`: ... start all four publishers": a Start after a Stop that
  gave up on a loop (349) finds the worker still running and does nothing for it (542).
- multipusher/README.md:154 again: Init, which removes the workers of the other mode or of targets
  that are gone, stops them without killing their processes (ffmpeg_worker.go:221-227, 239-245),
  closes `stopCh`, on which the stall monitor leaves (743), and gives up after five seconds
  (253-266). No command reaches such a process any more; it publishes until it exits by itself,
  beside the one that the next Start launches for the same target (`LeftBehind`).
- multipusher/README.md:14 gives the economic level of `3drush-fwh` as portrait; its layout is
  landscape (main.go:404). Lines 163-170 and the tests name two ports for the player, 8088 and
  8080 (player_link.go:10).
- ws_client.go:87 says that every connection has one pair of loops: a read loop in a handler
  during a reconnect goes on with the new session's channel (339) and reads beside its own
  (`OnlyHandlersAreLeft` bounds it to that loop).
- multipusher/tracer/remote.go:243 says that `conn` is captured so that the read loop does not race
  on `r.conn`: its error still closes whichever `r.conn` is current (250), which may be the
  connection that replaced the failed one; that one's reader then has an error, and may do the same.
  The backend's reader does so, too, and reads from `r.conn` besides.
- ws_client.go:85 says that the main thread recovers the connection: a dial that is under way
  when the client is closed leaves a connection that nobody closes (494).
- abrplayer/README.md:25: an upgrade raises the quality by one level. The URL of an upgrade that
  arrives after a forced downgrade is used all the same (abrplayer.js:883).
- abrplayer/README.md:24 says that a downgrade goes in one step to the best stream the bandwidth
  carries: the code goes to the neighbour below (abrplayer.js:300).
- abrplayer/README.md:36-37 say that a stall above 5000 ms forces a downgrade: within the cooldown
  or under the lock it does nothing (750).
- abrplayer/README.md:41 says that the fallback stream is tried again for ever: a fatal error on
  the audio stream is ignored (821); only an upgrade attaches a player again.
- The comment in stats.go:57 says that a round was counted already: the query names no table, so
  it fails and counts none. A second end makes a second report; only `mapRound` prevents it.

Without a document that says otherwise:

- Publisher: pausing by URL in shared mode starts a publisher that was stopped. Pause marks hold
  the whole URL, with its `txTime`: they do not survive the next start from the window.
- Client: a response may be sent on a later connection than the command came from; a close frame
  written at the same time as a message may panic and leave `connMu` locked (`muStuck`), after
  which the close does not end; the failed kill described under *Conditions*.
- Player: the roll-back of an upgrade can never change the stream, because the cooldown of the
  upgrade outlasts its probation (`RollbackHasNoTarget`); the stop button and a manual choice do
  not cancel a pending switch, whose URL then attaches a player in their place; the start button
  plays the URL that the last start left in the field, with ABR off; a playing event of the old
  player clears `isSwitching` while a switch is under way; an error that is not fatal leaves it set.
- Settings: values that the environment overrides are saved into the file by the next start.
  With paused targets the levels are paired with the profiles by position and shift, and with fewer
  than four each target receives all renditions instead of its level. That HEVC
  works on QSV is taken for granted. An encoder that stops working after the first command
  (a driver, a device that is taken) is used at every launch, and fails, until the program is
  started again. A capture whose audio device vanished is published without
  the audio it was configured for.
- Window: a poll that was under way writes its status over "Stopped"; the automatic start that
  overlaps a press may leave a poll nobody can stop, or a table drawn past its end.
- Monitor: a nil handle in a row's change or in the daily clean-up ends the monitor until the
  next restart. The unique date of the daily statistics keeps the row of one stream only, while
  all of them are posted.
- Rounds: a restart loses the reports that wait and the rounds that go on; an end for another
  field takes a round out of `mapRound` without ending it.
- Logger: a late reader of the backend may leave a connection open that nothing refers to; a file
  that cannot be opened leaves `writeMu` locked under everybody who logs.

## 7. What is not modelled

- Publisher and its command line: job handling of Windows, the list of devices, the parsing of
  ffmpeg's progress.
- WebSocket: the table of clients with eviction and `RestartWebsocketMainThread`, which nothing
  in the repository calls; the queues nobody reads.
- Window: file dialogs, device lists, layout; a replacement of the rows inside the loop that sets
  their statuses (main.go:795-800).
- Player: the canvas, the mute button, statistics and telemetry, a player that reports anything
  after a fatal error.
- Backend: the rate limiter (a table of token buckets; an evicted bucket is made anew and no other
  state depends on it); the settings handler (two writes one after the other by one handler,
  apis/settings.go, read again at the next start only); login (signed values, no state); handlers
  of single tables (one statement each); the SQL of the statistics and the messages to Lark.
- The admin page, the utilities, the generated protocol buffers, the deletion of old log files.
