--------------------------- MODULE FFmpegPublisher ---------------------------
(***************************************************************************)
(* The publisher manager of multipusher/ws/ffmpeg_worker.go.               *)
(*                                                                         *)
(* publisherMgr keeps a configuration, a table of workers and a set of     *)
(* paused targets under publisherMgr.mu.  A worker supervises one ffmpeg   *)
(* process at a time from a goroutine (runLoop) that launches it, waits    *)
(* for it and launches it again after a back-off.  Commands (Init, Start,  *)
(* Stop, Pause, Resume) come from several goroutines: the UI thread and    *)
(* the read loop of the websocket client.  They stop a worker by closing   *)
(* its stopCh, killing the process they saw registered in w.cmd and        *)
(* waiting at most five seconds for doneCh.                                *)
(*                                                                         *)
(* What is atomic here is what is atomic there: a critical section of      *)
(* publisherMgr.mu or of w.mu, a channel operation, a system call.         *)
(***************************************************************************)
EXTENDS Naturals, FiniteSets

CONSTANTS
  Targets,     \* publish URLs
  Base,        \* Base[t]: scheme, host and path of t (normalizeURLBase)
  Configs,     \* configurations Init may be given
  Ops,         \* the commands callers may issue ("init": Init more than once)
  Callers,     \* goroutines that issue commands
  Recovering,  \* the callers whose panics TryException recovers (readLoop)
  Workers,     \* identities of ffmpegWorker objects (bound)
  Runs,        \* identities of runLoop goroutines (bound)
  MaxProcs,    \* bound on the ffmpeg processes one run launches
  SHARED,      \* sharedWorkerKey
  None         \* nil

Keys == Targets \cup {SHARED}

AllOps == {"init", "start", "stop", "pauseAll", "resumeAll", "pauseUrl", "resumeUrl"}

Config == [targets : SUBSET Targets \ {{}}, live : BOOLEAN]

ASSUME PublisherAssumption ==
  /\ IsFiniteSet(Targets)
  /\ SHARED \notin Targets
  /\ None \notin Keys \cup Workers \cup Runs \cup Config
  /\ Configs \subseteq Config
  /\ Ops \subseteq AllOps
  /\ Recovering \subseteq Callers
  /\ MaxProcs \in Nat \ {0}

VARIABLES
  \* FFmpegManager
  cfg,        \* the configuration, None before the first Init
  workers,    \* [Keys -> worker object or None]
  paused,     \* the paused targets
  \* ffmpegWorker objects
  wKey,       \* targetURL (or the shared key); None: not allocated
  wTargets,   \* targetURLs; {} stands for nil
  wRunning,   \* running
  wStatus,    \* status
  wCmd,       \* cmd: number of the run's process it points to, 0 for nil
  wRun,       \* the run whose stopCh and doneCh the object holds
  \* runLoop goroutines
  rPc,        \* where the goroutine is
  rWorker,    \* the receiver w
  rTargets,   \* targets the last command line was built for
  rStop,      \* stopCh is closed
  rProc,      \* the run's latest process
  rProcs,     \* how many processes the run has launched
  \* callers
  cPc,        \* where the caller is
  cOp,        \* the procedure it executes
  cPend,      \* workers it has still to stop or to resume
  cClose,     \* runs whose stopCh it is about to close
  cAwait,     \* runs whose doneCh it waits for afterwards
  cCmd,       \* the process number it read from w.cmd, 0 for nil
  \* whole program
  crashed,    \* an unrecovered panic ended the program
  abandoned   \* history: runs a caller gave up on, waiting for doneCh or before

mgrVars == <<cfg, workers, paused>>
workerVars == <<wKey, wTargets, wRunning, wStatus, wCmd, wRun>>
runVars == <<rPc, rWorker, rTargets, rStop, rProc, rProcs>>
callVars == <<cPc, cOp, cPend, cClose, cAwait, cCmd>>
vars == <<mgrVars, workerVars, runVars, callVars, crashed, abandoned>>

RunPcs == {"unused", "top", "poll", "build", "launch", "register", "wait", "after",
           "afterPoll", "backoff", "sleep", "exit", "done"}

CallPcs == {"idle", "snapshot", "loop", "close", "kill", "await", "start", "resume", "panicked"}

Procedures == {"none", "init", "start", "stop", "restart", "pause", "resume"}

Statuses == {"", "Starting", "Running", "Retrying", "Stopped"}

ProcStates == {"none", "live", "stalled", "killed", "dead", "reaped"}

MgrTypeOK ==
  /\ cfg \in Config \cup {None}
  /\ workers \in [Keys -> Workers \cup {None}]
  /\ paused \subseteq Targets

WorkerTypeOK ==
  /\ wKey \in [Workers -> Keys \cup {None}]
  /\ wTargets \in [Workers -> SUBSET Targets]
  /\ wRunning \in [Workers -> BOOLEAN]
  /\ wStatus \in [Workers -> Statuses]
  /\ wCmd \in [Workers -> Nat]
  /\ wRun \in [Workers -> Runs \cup {None}]

RunTypeOK ==
  /\ rPc \in [Runs -> RunPcs]
  /\ rWorker \in [Runs -> Workers \cup {None}]
  /\ rTargets \in [Runs -> SUBSET Keys]
  /\ rStop \in [Runs -> BOOLEAN]
  /\ rProc \in [Runs -> ProcStates]
  /\ rProcs \in [Runs -> Nat]

CallTypeOK ==
  /\ cPc \in [Callers -> CallPcs]
  /\ cOp \in [Callers -> Procedures]
  /\ cPend \in [Callers -> SUBSET Workers]
  /\ cClose \in [Callers -> SUBSET Runs]
  /\ cAwait \in [Callers -> SUBSET Runs]
  /\ cCmd \in [Callers -> Nat]

TypeOK ==
  /\ MgrTypeOK /\ WorkerTypeOK /\ RunTypeOK /\ CallTypeOK
  /\ crashed \in BOOLEAN
  /\ abandoned \subseteq Runs

Init ==
  /\ cfg = None
  /\ workers = [k \in Keys |-> None]
  /\ paused = {}
  /\ wKey = [w \in Workers |-> None]
  /\ wTargets = [w \in Workers |-> {}]
  /\ wRunning = [w \in Workers |-> FALSE]
  /\ wStatus = [w \in Workers |-> ""]
  /\ wCmd = [w \in Workers |-> 0]
  /\ wRun = [w \in Workers |-> None]
  /\ rPc = [r \in Runs |-> "unused"]
  /\ rWorker = [r \in Runs |-> None]
  /\ rTargets = [r \in Runs |-> {}]
  /\ rStop = [r \in Runs |-> FALSE]
  /\ rProc = [r \in Runs |-> "none"]
  /\ rProcs = [r \in Runs |-> 0]
  /\ cPc = [c \in Callers |-> "idle"]
  /\ cOp = [c \in Callers |-> "none"]
  /\ cPend = [c \in Callers |-> {}]
  /\ cClose = [c \in Callers |-> {}]
  /\ cAwait = [c \in Callers |-> {}]
  /\ cCmd = [c \in Callers |-> 0]
  /\ crashed = FALSE
  /\ abandoned = {}

-----------------------------------------------------------------------------
(* Helpers.                                                                *)

\* Every injective way of giving each element of S an element of T.
Injections(S, T) == {f \in [S -> T] : \A x, y \in S : f[x] = f[y] => x = y}

Attached == {workers[k] : k \in Keys} \ {None}

\* An identity is free until it is first used and again once nothing refers to
\* what it stood for.  (The status a worker object keeps from an earlier use is
\* "Stopped", which every reader takes for the "" of a new one.)
FreeWorkers ==
  {w \in Workers : /\ w \notin Attached /\ ~wRunning[w]
                   /\ \A c \in Callers : w \notin cPend[c]}

FreeRuns ==
  {r \in Runs : /\ rPc[r] \in {"unused", "done"}
                /\ \A c \in Callers : r \notin cClose[c] \cup cAwait[c]}

\* shouldUseSharedFFmpeg; conf.live: a dshow capture input on Windows.
Shared(conf) ==
  LET n == Cardinality(conf.targets)
  IN n > 1 /\ (n >= 4 \/ conf.live)

KeysOf(conf) == IF Shared(conf) THEN {SHARED} ELSE conf.targets

ConfTargets == IF cfg = None THEN {} ELSE cfg.targets

\* resolveTargetsLocked: the exact URL, else every target with the same base.
Resolve(url) ==
  IF url \in ConfTargets THEN {url} ELSE {t \in ConfTargets : Base[t] = Base[url]}

\* A process that publishes: it was launched and has not exited.
Up(r) == rProc[r] \in {"live", "stalled", "killed"}

\* The stopCh of r is the one w hands out while it is running.
Unfinished(r) == rPc[r] \notin {"unused", "done"}

-----------------------------------------------------------------------------
(* Critical sections of w.mu that commands run.                            *)

\* (Faulty variant: startLocked without its running check.)
StartIgnored_Never(w) == FALSE

\* startLocked ignores a worker that is running, whatever it is doing.
StartIgnored(w) == wRunning[w]

\* startLocked on every worker of S: a new stopCh, doneCh and goroutine each.
StartWorkers(S) ==
  LET idle == {w \in S : ~StartIgnored(w)}
  IN \E f \in Injections(idle, FreeRuns) :
       LET new == {f[w] : w \in idle}
       IN /\ wRunning' = [w \in Workers |-> w \in idle \/ wRunning[w]]
          /\ wStatus' = [w \in Workers |-> IF w \in idle THEN "Starting" ELSE wStatus[w]]
          /\ wRun' = [w \in Workers |-> IF w \in idle THEN f[w] ELSE wRun[w]]
          /\ rPc' = [r \in Runs |-> IF r \in new THEN "top" ELSE rPc[r]]
          /\ rWorker' = [r \in Runs |-> IF r \in new THEN CHOOSE w \in idle : f[w] = r
                                        ELSE rWorker[r]]
          /\ rStop' = [r \in Runs |-> r \notin new /\ rStop[r]]
          /\ rProc' = [r \in Runs |-> IF r \in new THEN "none" ELSE rProc[r]]
          /\ rProcs' = [r \in Runs |-> IF r \in new THEN 0 ELSE rProcs[r]]
          /\ abandoned' = abandoned \ new
          /\ UNCHANGED <<wCmd, rTargets>>

\* A new worker object for every key of keys that has none; the keys of drop lose
\* theirs.
EnsureWorkers(keys, drop) ==
  LET missing == {k \in keys : workers[k] = None}
  IN \E f \in Injections(missing, FreeWorkers) :
       LET new == {f[k] : k \in missing}
       IN /\ workers' = [k \in Keys |-> IF k \in missing THEN f[k]
                                        ELSE IF k \in drop THEN None ELSE workers[k]]
          /\ wKey' = [w \in Workers |-> IF w \in new THEN CHOOSE k \in missing : f[k] = w
                                        ELSE wKey[w]]

\* targetURLs: ts for the shared worker, nil in a new worker of a single target.
SetTargets(shared, ts) ==
  wTargets' = [w \in Workers |-> IF shared /\ workers'[SHARED] = w THEN ts
                                ELSE IF w \notin Attached /\ \E k \in Keys : workers'[k] = w THEN {}
                                ELSE wTargets[w]]

\* (Faulty variants: stopLocked without its running check; stopLocked that takes a
\* worker without a registered process for a stopped one.)
Stoppable_Always(w) == TRUE
Stoppable_WithProcess(w) == wRunning[w] /\ wCmd[w] # 0

\* stopLocked hands out the channels and the process of a running worker.
Stoppable(w) == wRunning[w]

-----------------------------------------------------------------------------
(* Commands.                                                               *)

\* A caller that returns forgets the procedure it was in.
Goto(c, pc) ==
  /\ cPc' = [cPc EXCEPT ![c] = pc]
  /\ cOp' = [cOp EXCEPT ![c] = IF pc \in {"idle", "panicked"} THEN "none" ELSE @]

GotoAs(c, op, pc) ==
  /\ cPc' = [cPc EXCEPT ![c] = pc]
  /\ cOp' = [cOp EXCEPT ![c] = IF pc = "idle" THEN "none" ELSE op]

\* An idle caller issues op, or the caller is at pc inside another command.
Enters(c, op, pc) == (cPc[c] = "idle" /\ op \in Ops) \/ cPc[c] = pc

\* (Faulty variant: Init that forgets the shared worker when it leaves shared mode.)
Dropped_KeepsShared(conf) == {k \in Targets : workers[k] # None /\ k \notin KeysOf(conf)}

\* The keys whose workers Init removes.
Dropped(conf) == {k \in Keys : workers[k] # None /\ k \notin KeysOf(conf)}

\* InitFFmpegPublisher: install conf and its workers, collect the channels of
\* the running workers it removes; their processes are not killed.
InitFFmpegPublisher(c, conf) ==
  LET gone == {workers[k] : k \in Dropped(conf)}
      stopping == {wRun[w] : w \in {v \in gone : Stoppable(v)}}
  IN /\ cPc[c] = "idle"
     /\ cfg = None \/ "init" \in Ops
     /\ cfg' = conf
     /\ EnsureWorkers(KeysOf(conf), Dropped(conf))
     /\ SetTargets(Shared(conf), conf.targets)
     /\ GotoAs(c, "init", IF stopping = {} THEN "idle" ELSE "close")
     /\ cClose' = [cClose EXCEPT ![c] = stopping]
     /\ cAwait' = [cAwait EXCEPT ![c] = stopping]
     /\ UNCHANGED <<paused, wRunning, wStatus, wCmd, wRun, runVars, cPend, cCmd, crashed, abandoned>>

\* (Faulty variant: Start that does not skip the paused targets.)
ActiveTargets_All == ConfTargets

\* The targets Start does not skip.
ActiveTargets == ConfTargets \ paused

\* StartFFmpegPublisher: start the worker of every target that is not paused;
\* in shared mode one worker for all of them.
StartFFmpegPublisher(c) ==
  LET active == ActiveTargets
      keys == IF cfg = None \/ active = {} THEN {}
              ELSE IF Shared(cfg) THEN {SHARED} ELSE active
  IN /\ Enters(c, "start", "start")
     /\ EnsureWorkers(keys, {})
     /\ SetTargets(SHARED \in keys, active)
     /\ StartWorkers({workers'[k] : k \in keys})
     /\ Goto(c, "idle")
     /\ UNCHANGED <<cfg, paused, cPend, cClose, cAwait, cCmd, crashed>>

\* StopFFmpegPublisher copies the table under publisherMgr.mu.
StopFFmpegPublisher(c) ==
  /\ Enters(c, "stop", "snapshot")
  /\ cPend' = [cPend EXCEPT ![c] = Attached]
  /\ GotoAs(c, IF cPc[c] = "idle" THEN "stop" ELSE cOp[c], "loop")
  /\ UNCHANGED <<mgrVars, workerVars, runVars, cClose, cAwait, cCmd, crashed, abandoned>>

\* PauseFFmpegPublisher marks every target, then stops.
PauseFFmpegPublisher(c) ==
  /\ cPc[c] = "idle" /\ "pauseAll" \in Ops
  /\ paused' = paused \cup ConfTargets
  /\ GotoAs(c, "stop", "snapshot")
  /\ UNCHANGED <<cfg, workers, workerVars, runVars, cPend, cClose, cAwait, cCmd, crashed, abandoned>>

\* ResumeFFmpegPublisher clears the marks, then starts.
ResumeFFmpegPublisher(c) ==
  /\ cPc[c] = "idle" /\ "resumeAll" \in Ops
  /\ paused' = paused \ ConfTargets
  /\ GotoAs(c, "start", "start")
  /\ UNCHANGED <<cfg, workers, workerVars, runVars, cPend, cClose, cAwait, cCmd, crashed, abandoned>>

\* The critical section both ...ByURL commands start with: change the marks of
\* the matching targets to marks; in shared mode go on with Stop and Start, else
\* with the matching workers at pc.  An unknown URL is an error and no change.
ByURL(c, url, marks, op, pc) ==
  LET matches == Resolve(url)
      shared == cfg # None /\ Shared(cfg)
  IN /\ cPc[c] = "idle"
     /\ matches # {}
     /\ paused' = marks
     /\ cPend' = [cPend EXCEPT ![c] =
                    IF shared THEN {} ELSE {workers[k] : k \in matches} \ {None}]
     /\ GotoAs(c, IF shared THEN "restart" ELSE op, IF shared THEN "snapshot" ELSE pc)
     /\ UNCHANGED <<cfg, workers, workerVars, runVars, cClose, cAwait, cCmd, crashed, abandoned>>

PauseFFmpegPublisherByURL(c, url) ==
  /\ "pauseUrl" \in Ops
  /\ ByURL(c, url, paused \cup Resolve(url), "pause", "loop")

ResumeFFmpegPublisherByURL(c, url) ==
  /\ "resumeUrl" \in Ops
  /\ ByURL(c, url, paused \ Resolve(url), "resume", "resume")

\* The loop of ResumeFFmpegPublisherByURL: startLocked on the workers it copied.
ResumeWorker(c, w) ==
  /\ cPc[c] = "resume" /\ w \in cPend[c]
  /\ StartWorkers({w})
  /\ cPend' = [cPend EXCEPT ![c] = @ \ {w}]
  /\ UNCHANGED <<mgrVars, wKey, wTargets, cPc, cOp, cClose, cAwait, cCmd, crashed>>

-----------------------------------------------------------------------------
(* Stopping one worker: stopLocked, close(stopCh), killProcess, <-doneCh.  *)

\* stopLocked of the next worker; one that is not running is passed over.
StopWorker(c, w) ==
  /\ cPc[c] = "loop" /\ w \in cPend[c]
  /\ cPend' = [cPend EXCEPT ![c] = @ \ {w}]
  /\ IF Stoppable(w)
     THEN /\ cClose' = [cClose EXCEPT ![c] = {wRun[w]}]
          /\ cAwait' = [cAwait EXCEPT ![c] = {wRun[w]}]
          /\ cCmd' = [cCmd EXCEPT ![c] = wCmd[w]]
          /\ Goto(c, "close")
     ELSE UNCHANGED <<cPc, cOp, cClose, cAwait, cCmd>>
  /\ UNCHANGED <<mgrVars, workerVars, runVars, crashed, abandoned>>

\* No worker is left: return, or go on with Start.
LoopEnds(c) ==
  /\ cPc[c] \in {"loop", "resume"} /\ cPend[c] = {}
  /\ Goto(c, IF cOp[c] = "restart" THEN "start" ELSE "idle")
  /\ UNCHANGED <<mgrVars, workerVars, runVars, cPend, cClose, cAwait, cCmd, crashed, abandoned>>

\* close(stopCh).  Closing a closed channel panics: TryException recovers the
\* websocket read loop, which ends; any other caller takes the program down.
CloseStopCh(c, r) ==
  /\ cPc[c] = "close" /\ r \in cClose[c]
  /\ IF rStop[r]
     THEN /\ Goto(c, "panicked")
          /\ crashed' = (c \notin Recovering)
          /\ cClose' = [cClose EXCEPT ![c] = {}]
          /\ cAwait' = [cAwait EXCEPT ![c] = {}]
          /\ cPend' = [cPend EXCEPT ![c] = {}]
          /\ UNCHANGED rStop
     ELSE /\ rStop' = [rStop EXCEPT ![r] = TRUE]
          /\ cClose' = [cClose EXCEPT ![c] = @ \ {r}]
          /\ Goto(c, IF cClose[c] # {r} THEN "close"
                     ELSE IF cOp[c] = "init" THEN "await" ELSE "kill")
          /\ UNCHANGED <<cAwait, cPend, crashed>>
  /\ UNCHANGED <<mgrVars, workerVars, rPc, rWorker, rTargets, rProc, rProcs,
                 cCmd, abandoned>>

\* killProcess of process n of run r (0: none) returns an error when that process
\* was waited for, and on Windows also when it has exited.
KillMayFail(r, n) == n # 0 /\ (n # rProcs[r] \/ rProc[r] \in {"dead", "reaped"})
KillMayWork(r, n) == n = 0 \/ (n = rProcs[r] /\ rProc[r] # "reaped")

\* killProcess on the w.cmd that stopLocked returned.  PauseFFmpegPublisherByURL
\* returns the error at once, with the workers it has not come to marked as paused
\* and told nothing; the other commands log it.
KillProcess(c, r) ==
  /\ cPc[c] = "kill" /\ r \in cAwait[c]
  /\ rProc' = [rProc EXCEPT ![r] = IF cCmd[c] = rProcs[r] /\ @ \in {"live", "stalled"}
                                   THEN "killed" ELSE @]
  /\ \/ /\ KillMayWork(r, cCmd[c]) \/ cOp[c] # "pause"
        /\ Goto(c, "await")
        /\ UNCHANGED <<cPend, cAwait, abandoned>>
     \/ /\ KillMayFail(r, cCmd[c]) /\ cOp[c] = "pause"
        /\ Goto(c, "idle")
        /\ cPend' = [cPend EXCEPT ![c] = {}]
        /\ cAwait' = [cAwait EXCEPT ![c] = {}]
        /\ abandoned' = abandoned \cup {r} \cup {q \in Runs : rWorker[q] \in cPend[c]}
  /\ cCmd' = [cCmd EXCEPT ![c] = 0]
  /\ UNCHANGED <<mgrVars, workerVars, rPc, rWorker, rTargets, rStop, rProcs,
                 cClose, crashed>>

\* Where a caller goes when r was the last run it waited for.
AfterAwait(c, r) ==
  IF cAwait[c] # {r} THEN "await" ELSE IF cOp[c] = "init" THEN "idle" ELSE "loop"

LeaveAwait(c, r) ==
  /\ cPc[c] = "await" /\ r \in cAwait[c]
  /\ cAwait' = [cAwait EXCEPT ![c] = @ \ {r}]
  /\ Goto(c, AfterAwait(c, r))
  /\ UNCHANGED <<mgrVars, workerVars, runVars, cPend, cClose, cCmd, crashed>>

\* (Faulty variant: a stop that does not wait for doneCh.)
AwaitDone_NoWait(c, r) ==
  /\ LeaveAwait(c, r)
  /\ UNCHANGED abandoned

\* <-doneCh
AwaitDone(c, r) ==
  /\ rPc[r] = "done"
  /\ LeaveAwait(c, r)
  /\ UNCHANGED abandoned

\* (Faulty variant: a stop that waits for doneCh without a timeout.)
AwaitTimeout_Never(c, r) == FALSE

\* <-time.After(5 * time.Second): only probing and waiting for a process can keep a
\* loop from noticing stopCh for that long.  (A timeout that fires in the short
\* steps that follow is one that fires just before them: it changes nothing there.)
AwaitTimeout(c, r) ==
  /\ rPc[r] \in {"launch", "wait"}
  /\ LeaveAwait(c, r)
  /\ abandoned' = abandoned \cup {r}

-----------------------------------------------------------------------------
(* runLoop.                                                                *)

At(r, pc) == rPc[r] = pc

RunGoto(r, pc) == rPc' = [rPc EXCEPT ![r] = pc]

\* isPaused: the mark of the worker's own URL; the shared key is never marked.
IsPaused(r) == wKey[rWorker[r]] \in paused

\* Everything a step of run r that only moves its goroutine leaves alone.
OnlyRunMoves ==
  UNCHANGED <<mgrVars, workerVars, rWorker, rTargets, rStop, rProc, rProcs,
              callVars, crashed, abandoned>>

\* (Faulty variant: a loop that does not look at the pause marks at its top.)
RunTop_NoPauseCheck(r) ==
  /\ At(r, "top")
  /\ RunGoto(r, "poll")
  /\ OnlyRunMoves

\* The pause check at the top of the loop.
RunTop(r) ==
  /\ At(r, "top")
  /\ RunGoto(r, IF IsPaused(r) THEN "exit" ELSE "poll")
  /\ OnlyRunMoves

\* (Faulty variant: a loop that looks at stopCh only after its process ended.)
RunPoll_NoStopCheck(r) ==
  /\ At(r, "poll")
  /\ RunGoto(r, "build")
  /\ OnlyRunMoves

\* The non-blocking look at stopCh that follows it.
RunPoll(r) ==
  /\ At(r, "poll")
  /\ RunGoto(r, IF rStop[r] THEN "exit" ELSE "build")
  /\ OnlyRunMoves

\* Read the targets the command line is built for.
RunBuild(r) ==
  /\ At(r, "build")
  /\ rTargets' = [rTargets EXCEPT ![r] = IF wTargets[rWorker[r]] = {}
                                         THEN {wKey[rWorker[r]]}
                                         ELSE wTargets[rWorker[r]]]
  /\ RunGoto(r, "launch")
  /\ UNCHANGED <<mgrVars, workerVars, rWorker, rStop, rProc, rProcs,
                 callVars, crashed, abandoned>>

\* buildFFmpegCommand (it probes devices and encoders, for seconds), StderrPipe
\* and cmd.Start: any of them may fail.
RunLaunch(r) ==
  /\ At(r, "launch")
  /\ \/ /\ rProcs[r] < MaxProcs
        /\ rProc' = [rProc EXCEPT ![r] = "live"]
        /\ rProcs' = [rProcs EXCEPT ![r] = @ + 1]
        /\ RunGoto(r, "register")
     \/ /\ RunGoto(r, "backoff")
        /\ UNCHANGED <<rProc, rProcs>>
  /\ UNCHANGED <<mgrVars, workerVars, rWorker, rTargets, rStop,
                 callVars, crashed, abandoned>>

\* Publish the process in w.cmd, spawn the monitor, enter cmd.Wait.
RunRegister(r) ==
  /\ At(r, "register")
  /\ wCmd' = [wCmd EXCEPT ![rWorker[r]] = rProcs[r]]
  /\ wStatus' = [wStatus EXCEPT ![rWorker[r]] = "Running"]
  /\ RunGoto(r, "wait")
  /\ UNCHANGED <<mgrVars, wKey, wTargets, wRunning, wRun, rWorker, rTargets, rStop,
                 rProc, rProcs, callVars, crashed, abandoned>>

\* (Faulty variant: a loop that ends on stopCh without waiting for its process.)
RunWait_LeavesOnStop(r) ==
  /\ At(r, "wait")
  /\ rProc[r] = "dead" \/ rStop[r]
  /\ RunGoto(r, "after")
  /\ OnlyRunMoves

\* cmd.Wait returns.
RunWait(r) ==
  /\ At(r, "wait")
  /\ rProc[r] = "dead"
  /\ rProc' = [rProc EXCEPT ![r] = "reaped"]
  /\ RunGoto(r, "after")
  /\ UNCHANGED <<mgrVars, workerVars, rWorker, rTargets, rStop, rProcs,
                 callVars, crashed, abandoned>>

\* The pause check and the look at stopCh once the process is gone.
RunAfter(r) ==
  /\ At(r, "after")
  /\ RunGoto(r, IF IsPaused(r) THEN "exit" ELSE "afterPoll")
  /\ OnlyRunMoves

RunAfterPoll(r) ==
  /\ At(r, "afterPoll")
  /\ RunGoto(r, IF rStop[r] THEN "exit" ELSE "backoff")
  /\ OnlyRunMoves

\* (Faulty variant: waitRetry that leaves the status of the ended process.)
RunBackoff_KeepsStatus(r) ==
  /\ At(r, "backoff")
  /\ RunGoto(r, "sleep")
  /\ OnlyRunMoves

\* waitRetry, up to its select.
RunBackoff(r) ==
  /\ At(r, "backoff")
  /\ wStatus' = [wStatus EXCEPT ![rWorker[r]] = "Retrying"]
  /\ rTargets' = [rTargets EXCEPT ![r] = {}]
  /\ RunGoto(r, "sleep")
  /\ UNCHANGED <<mgrVars, wKey, wTargets, wRunning, wCmd, wRun, rWorker, rStop, rProc,
                  rProcs, callVars, crashed, abandoned>>

\* (Faulty variant: waitRetry without its timer.)
RunSleep_NoTimer(r) ==
  /\ At(r, "sleep")
  /\ rStop[r]
  /\ RunGoto(r, "exit")
  /\ OnlyRunMoves

\* The select of waitRetry: stopCh or the timer, either when both are ready.
RunSleep(r) ==
  /\ At(r, "sleep")
  /\ \/ rStop[r] /\ RunGoto(r, "exit")
     \/ RunGoto(r, "top")
  /\ OnlyRunMoves

\* (Faulty variant: a loop that ends and leaves running set.)
ClearRunning_Forgotten(w) == UNCHANGED wRunning

\* The fields the deferred function of runLoop resets; it also closes doneCh.
ClearRunning(w) == wRunning' = [wRunning EXCEPT ![w] = FALSE]

RunExit(r) ==
  /\ At(r, "exit")
  /\ ClearRunning(rWorker[r])
  /\ wCmd' = [wCmd EXCEPT ![rWorker[r]] = 0]
  /\ wStatus' = [wStatus EXCEPT ![rWorker[r]] = "Stopped"]
  /\ rTargets' = [rTargets EXCEPT ![r] = {}]
  /\ RunGoto(r, "done")
  /\ UNCHANGED <<mgrVars, wKey, wTargets, wRun, rWorker, rStop, rProc, rProcs,
                 callVars, crashed, abandoned>>

RunStep(r) ==
  \/ RunTop(r) \/ RunPoll(r) \/ RunBuild(r) \/ RunLaunch(r) \/ RunRegister(r)
  \/ RunWait(r) \/ RunAfter(r) \/ RunAfterPoll(r) \/ RunBackoff(r) \/ RunSleep(r)
  \/ RunExit(r)

-----------------------------------------------------------------------------
(* monitorStallAndKill and the processes themselves.                       *)

OnlyProcMoves ==
  UNCHANGED <<mgrVars, workerVars, rPc, rWorker, rTargets, rStop, rProcs,
              callVars, crashed, abandoned>>

\* (Faulty variant: a monitor for the first process of a run only.)
MonitorKill_FirstOnly(r) ==
  /\ At(r, "wait") /\ ~rStop[r]
  /\ rProc[r] = "stalled" /\ rProcs[r] = 1
  /\ rProc' = [rProc EXCEPT ![r] = "killed"]
  /\ OnlyProcMoves

\* No progress for stallTimeout while cmd.Wait waits: kill.  The monitor returns
\* on stopCh: it kills no process of a loop that was told to stop.
MonitorKill(r) ==
  /\ At(r, "wait") /\ ~rStop[r]
  /\ rProc[r] = "stalled"
  /\ rProc' = [rProc EXCEPT ![r] = "killed"]
  /\ OnlyProcMoves

\* The environment: a process hangs, or exits (by itself, or because killed).
ProcStalls(r) ==
  /\ rProc[r] = "live"
  /\ rProc' = [rProc EXCEPT ![r] = "stalled"]
  /\ OnlyProcMoves

ProcExits(r) ==
  /\ Up(r)
  /\ rProc' = [rProc EXCEPT ![r] = "dead"]
  /\ OnlyProcMoves

-----------------------------------------------------------------------------

Command(c) ==
  \/ \E conf \in Configs : InitFFmpegPublisher(c, conf)
  \/ StartFFmpegPublisher(c)
  \/ StopFFmpegPublisher(c)
  \/ PauseFFmpegPublisher(c)
  \/ ResumeFFmpegPublisher(c)
  \/ \E url \in Targets : \/ PauseFFmpegPublisherByURL(c, url)
                          \/ ResumeFFmpegPublisherByURL(c, url)

CallStep(c) ==
  \/ \E w \in Workers : ResumeWorker(c, w) \/ StopWorker(c, w)
  \/ LoopEnds(c)
  \/ \E r \in Runs : \/ CloseStopCh(c, r) \/ KillProcess(c, r)
                     \/ AwaitDone(c, r) \/ AwaitTimeout(c, r)

Program ==
  \/ \E c \in Callers : Command(c) \/ CallStep(c)
  \/ \E r \in Runs : RunStep(r) \/ MonitorKill(r)

Environment == \E r \in Runs : ProcStalls(r) \/ ProcExits(r)

Next == (~crashed /\ Program) \/ Environment

Spec == Init /\ [][Next]_vars

\* Goroutines that can run are scheduled, a killed process dies, a timer fires,
\* and a command that was issued goes on.  Nobody has to issue a command, and a
\* process that was not killed may run for ever.
Fairness ==
  /\ \A r \in Runs : /\ WF_vars(~crashed /\ RunStep(r))
                     /\ WF_vars(~crashed /\ MonitorKill(r))
                     /\ WF_vars(rProc[r] = "killed" /\ ProcExits(r))
  /\ \A c \in Callers :
       WF_vars(/\ ~crashed
               /\ \/ CallStep(c)
                  \/ cPc[c] = "start" /\ StartFFmpegPublisher(c)
                  \/ cPc[c] = "snapshot" /\ StopFFmpegPublisher(c))

FairSpec == Spec /\ Fairness

-----------------------------------------------------------------------------
(* What the manager guarantees.                                            *)

\* A worker is running exactly while the one run it owns is unfinished, and no
\* other run of it is: two commands never leave two loops on one worker.
OneRunPerWorker ==
  /\ \A w \in Workers : wRunning[w] => /\ wRun[w] \in Runs /\ rWorker[wRun[w]] = w
                                      /\ Unfinished(wRun[w])
  /\ \A r \in Runs : Unfinished(r) => /\ rWorker[r] \in Workers
                                     /\ wRunning[rWorker[r]] /\ wRun[rWorker[r]] = r

\* A process that has not been waited for belongs to a run that is on its way to
\* or in cmd.Wait: no loop moves on or ends over a live process.
ProcessIsAwaited ==
  \A r \in Runs : Up(r) \/ rProc[r] = "dead" => rPc[r] \in {"register", "wait"}

\* The table holds exactly the workers the configuration asks for, under their
\* own keys: changing between shared and per-target mode leaves none behind.
TableMatchesConfig ==
  /\ cfg # None => {k \in Keys : workers[k] # None} = KeysOf(cfg)
  /\ \A k \in Keys : workers[k] # None => wKey[workers[k]] = k

\* A loop that no command can reach any more: Init removed its worker and told it to
\* stop, but killed no process, and gave up on it after five seconds.
LeftBehind(r) == rWorker[r] \notin Attached /\ rStop[r] /\ r \in abandoned

\* No target is published by two processes, but for one that outlives the Init that
\* removed its worker: it goes on until it exits by itself (ffmpeg_worker.go:221, 253, 743).
NoDuplicatePublish ==
  \A r1, r2 \in Runs :
    r1 # r2 /\ Up(r1) /\ Up(r2) /\ ~LeftBehind(r1) /\ ~LeftBehind(r2)
    => rTargets[r1] \cap rTargets[r2] = {}

\* GetPublisherStatusSnapshot for target t of the configuration.
WorkerStatus(w) ==
  IF w = None THEN "Stopped"
  ELSE IF wStatus[w] # "" THEN wStatus[w]
  ELSE IF wRunning[w] THEN "Running" ELSE "Stopped"

StatusSnapshot(t) ==
  IF t \in paused THEN "Stopped"
  ELSE WorkerStatus(workers[IF Shared(cfg) THEN SHARED ELSE t])

\* A target that is reported Stopped without being paused is not published by
\* any worker of the table; one reported Running has had its process registered.
StatusIsTruthful ==
  cfg # None =>
    \A t \in cfg.targets \ paused :
      LET w == workers[IF Shared(cfg) THEN SHARED ELSE t]
      IN /\ StatusSnapshot(t) = "Stopped" => \A r \in Runs : rWorker[r] = w => ~Up(r)
         /\ StatusSnapshot(t) = "Running" => wCmd[w] # 0 /\ wCmd[w] = rProcs[wRun[w]]

\* Some caller still has to close the stopCh of r.
WillClose(r) ==
  \E c \in Callers :
    \/ cPc[c] = "close" /\ r \in cClose[c]
    \/ cOp[c] # "resume" /\ rWorker[r] \in cPend[c]
    \/ cPc[c] = "snapshot" /\ rWorker[r] \in Attached

SomePanic == \E c \in Callers : cPc[c] = "panicked"

\* A run of the table that went past the pause check at the top of the loop while
\* its target is paused has been told to stop, or a caller is about to tell it:
\* no pause is lost to a Start, Resume or retry that overlaps it.  Only a pause that
\* reports a failed kill leaves one going on that it gave up on.
PauseIsNotLost ==
  \A r \in Runs :
    /\ Unfinished(r) /\ rWorker[r] \in Attached /\ IsPaused(r)
    /\ rPc[r] \in {"poll", "build", "launch", "register", "wait"}
    => rStop[r] \/ WillClose(r) \/ r \in abandoned \/ SomePanic

\* A paused target is in the command line of no loop of the table that nobody has
\* told or is about to tell to stop, whether it has a process of its own or shares
\* one.  Only where it has its own can a pause that reports a failed kill leave it.
PauseIsApplied ==
  \A r \in Runs :
    rWorker[r] \in Attached /\ rTargets[r] \cap paused # {}
    => \/ rStop[r] \/ WillClose(r) \/ SomePanic
       \/ ~Shared(cfg) /\ r \in abandoned

\* A loop whose worker is no longer in the table has been told to stop, or the
\* Init that removed it is about to: no Stop could reach it any more.
DetachedIsStopped ==
  \A r \in Runs :
    Unfinished(r) /\ rWorker[r] \notin Attached => rStop[r] \/ WillClose(r) \/ SomePanic

\* A caller still attends to r, whose stopCh it closed.
Attended(r) == \E c \in Callers : cPc[c] \in {"close", "kill", "await"} /\ r \in cAwait[c] \ cClose[c]

\* A loop told to stop that has not ended is attended by the caller that told it,
\* unless that caller gave up on it (timeout, failed kill) or died.
StoppingIsAttended ==
  \A r \in Runs :
    rStop[r] /\ Unfinished(r) => r \in abandoned \/ Attended(r) \/ SomePanic

\* No command is lost on a loop, whatever other commands overlap it: a pause is heard,
\* in shared mode too, and a stop is followed up (ffmpeg_worker.go:381, 555, 703).
CommandsAreHeard == PauseIsNotLost /\ PauseIsApplied /\ StoppingIsAttended

\* With one caller, closing a closed stopCh takes a stop it had given up on.
PanicNeedsAbandonedStop == SomePanic => abandoned # {}

\* Every command returns or panics: no wait of a command is unbounded.
CommandsReturn ==
  \A c \in Callers : cPc[c] # "idle" ~> cPc[c] \in {"idle", "panicked"} \/ crashed

\* A loop that was told to stop ends once its process was killed, and ends without
\* a kill when it was told between two processes.
StoppedRunEnds ==
  \A r \in Runs :
    /\ rStop[r]
    /\ rProc[r] = "killed" \/ rPc[r] \in {"top", "poll", "after", "afterPoll", "backoff", "sleep"}
    ~> rPc[r] = "done" \/ crashed

\* A hung process is killed unless the loop is told to stop first.
StallIsEnded ==
  \A r \in Runs : rPc[r] = "wait" /\ rProc[r] = "stalled" ~> rPc[r] # "wait" \/ rStop[r] \/ crashed

\* A loop whose process ended or could not be launched tries again or ends.
RetryIsAttempted ==
  \A r \in Runs : rPc[r] \in {"after", "backoff"} ~> rPc[r] \in {"build", "done"} \/ crashed

\* With goroutines that are scheduled, nothing hangs: commands return, told loops end,
\* hung processes are killed, failed ones are tried again (ffmpeg_worker.go:328, 580, 733).
Progress == CommandsReturn /\ StoppedRunEnds /\ StallIsEnded /\ RetryIsAttempted

-----------------------------------------------------------------------------
(* The workers implement WorkerSupervisor.                                 *)

PhaseOf(w) ==
  IF ~wRunning[w] THEN "idle" ELSE IF rStop[wRun[w]] THEN "stopping" ELSE "active"

CommittedOf(w) == wRunning[w] /\ rPc[wRun[w]] \in {"build", "launch"}

UpOf(w) == wRunning[w] /\ (Up(wRun[w]) \/ rProc[wRun[w]] = "dead")

Supervisor == INSTANCE WorkerSupervisor
              WITH phase <- [w \in Workers |-> PhaseOf(w)],
                   committed <- [w \in Workers |-> CommittedOf(w)],
                   up <- [w \in Workers |-> UpOf(w)]

\* Whatever the commands do, a worker never has two processes, goes idle only
\* without one, and launches at most once more after it was told to stop.
SupervisorSpec == Supervisor!Spec
=============================================================================
