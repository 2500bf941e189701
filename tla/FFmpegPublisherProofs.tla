------------------------ MODULE FFmpegPublisherProofs ------------------------
(***************************************************************************)
(* Proofs about the publisher manager, for any sets of targets, callers,   *)
(* worker objects and runs: the inductive invariant with the safety        *)
(* theorems, the refinement of WorkerSupervisor, and what the commands     *)
(* achieve when others overlap them.                                       *)
(***************************************************************************)
EXTENDS FFmpegPublisher, TLAPS

\* A worker object that something refers to has its key.
UsedWorkersHaveKeys == \A w \in Workers \ FreeWorkers : wKey[w] # None

\* The inductive invariant.  TypeOK alone is not inductive: that the receiver of a
\* run and the run of a running worker are there is OneRunPerWorker, that a key is
\* there for the command line is UsedWorkersHaveKeys.
IInv == TypeOK /\ OneRunPerWorker /\ ProcessIsAwaited /\ TableMatchesConfig
        /\ UsedWorkersHaveKeys

\* The parts of the state StartWorkers changes keep their types and the ownership
\* of runs, whatever set S of worker objects is started.
LEMMA StartWorkersKeeps ==
  ASSUME TypeOK, OneRunPerWorker, ProcessIsAwaited,
         NEW S \in SUBSET Workers, StartWorkers(S)
  PROVE  /\ wRunning' \in [Workers -> BOOLEAN]
         /\ wStatus' \in [Workers -> Statuses]
         /\ wCmd' \in [Workers -> Nat]
         /\ wRun' \in [Workers -> Runs \cup {None}]
         /\ rPc' \in [Runs -> RunPcs]
         /\ rWorker' \in [Runs -> Workers \cup {None}]
         /\ rTargets' \in [Runs -> SUBSET Keys]
         /\ rStop' \in [Runs -> BOOLEAN]
         /\ rProc' \in [Runs -> ProcStates]
         /\ rProcs' \in [Runs -> Nat]
         /\ abandoned' \subseteq Runs
         /\ OneRunPerWorker'
         /\ ProcessIsAwaited'
<1> DEFINE idle == {w \in S : ~StartIgnored(w)}
<1>1. PICK f \in Injections(idle, FreeRuns) :
        /\ wRunning' = [w \in Workers |-> w \in idle \/ wRunning[w]]
        /\ wStatus' = [w \in Workers |-> IF w \in idle THEN "Starting" ELSE wStatus[w]]
        /\ wRun' = [w \in Workers |-> IF w \in idle THEN f[w] ELSE wRun[w]]
        /\ rPc' = [r \in Runs |-> IF r \in {f[w] : w \in idle} THEN "top" ELSE rPc[r]]
        /\ rWorker' = [r \in Runs |-> IF r \in {f[w] : w \in idle}
                                      THEN CHOOSE w \in idle : f[w] = r ELSE rWorker[r]]
        /\ rStop' = [r \in Runs |-> r \notin {f[w] : w \in idle} /\ rStop[r]]
        /\ rProc' = [r \in Runs |-> IF r \in {f[w] : w \in idle} THEN "none" ELSE rProc[r]]
        /\ rProcs' = [r \in Runs |-> IF r \in {f[w] : w \in idle} THEN 0 ELSE rProcs[r]]
        /\ abandoned' = abandoned \ {f[w] : w \in idle}
        /\ UNCHANGED <<wCmd, rTargets>>
  BY DEF StartWorkers
<1> DEFINE new == {f[w] : w \in idle}
<1>2. /\ idle \subseteq Workers
      /\ \A w \in idle : ~wRunning[w]
      /\ \A w \in idle : f[w] \in FreeRuns
      /\ \A v, w \in idle : f[v] = f[w] => v = w
  BY DEF Injections, StartIgnored
<1>3. /\ new \subseteq Runs
      /\ \A r \in new : ~Unfinished(r)
      /\ \A r \in new : (CHOOSE w \in idle : f[w] = r) \in idle
                        /\ f[CHOOSE w \in idle : f[w] = r] = r
  BY <1>2 DEF FreeRuns, Unfinished
<1>4. \A w \in idle : (CHOOSE v \in idle : f[v] = f[w]) = w
  BY <1>2
<1>5. /\ wRunning' \in [Workers -> BOOLEAN]
      /\ wStatus' \in [Workers -> Statuses]
      /\ wCmd' \in [Workers -> Nat]
      /\ wRun' \in [Workers -> Runs \cup {None}]
  <2>1. \A w \in Workers : (w \in idle \/ wRunning[w]) \in BOOLEAN
    BY DEF TypeOK, WorkerTypeOK
  <2>2. wRunning' \in [Workers -> BOOLEAN]
    BY <1>1, <2>1
  <2>3. wStatus' \in [Workers -> Statuses]
    BY <1>1 DEF TypeOK, WorkerTypeOK, Statuses
  <2>4. wRun' \in [Workers -> Runs \cup {None}]
    <3>1. \A w \in idle : f[w] \in Runs
      BY <1>3
    <3>2. QED
      BY <1>1, <3>1 DEF TypeOK, WorkerTypeOK
  <2>5. QED
    BY <1>1, <2>2, <2>3, <2>4 DEF TypeOK, WorkerTypeOK
<1>6. /\ rPc' \in [Runs -> RunPcs]
      /\ rWorker' \in [Runs -> Workers \cup {None}]
      /\ rTargets' \in [Runs -> SUBSET Keys]
      /\ rStop' \in [Runs -> BOOLEAN]
      /\ rProc' \in [Runs -> ProcStates]
      /\ rProcs' \in [Runs -> Nat]
      /\ abandoned' \subseteq Runs
  BY <1>1, <1>2, <1>3 DEF TypeOK, RunTypeOK, RunPcs, ProcStates
<1>7. OneRunPerWorker'
  <2>1. ASSUME NEW w \in Workers, wRunning'[w]
        PROVE  /\ wRun'[w] \in Runs /\ rWorker'[wRun'[w]] = w
               /\ rPc'[wRun'[w]] \notin {"unused", "done"}
    <3>1. CASE w \in idle
      BY <3>1, <1>1, <1>2, <1>3, <1>4
    <3>2. CASE w \notin idle
      <4>1. wRunning[w] /\ wRun'[w] = wRun[w]
        BY <3>2, <2>1, <1>1
      <4>2. wRun[w] \in Runs /\ rWorker[wRun[w]] = w /\ Unfinished(wRun[w])
        BY <4>1 DEF OneRunPerWorker
      <4>3. wRun[w] \notin new
        BY <4>2, <1>3
      <4>4. rWorker'[wRun[w]] = rWorker[wRun[w]] /\ rPc'[wRun[w]] = rPc[wRun[w]]
        BY <4>2, <4>3, <1>1
      <4>5. QED
        BY <4>1, <4>2, <4>4 DEF Unfinished
    <3>3. QED
      BY <3>1, <3>2
  <2>2. ASSUME NEW r \in Runs, rPc'[r] \notin {"unused", "done"}
        PROVE  /\ rWorker'[r] \in Workers
               /\ wRunning'[rWorker'[r]] /\ wRun'[rWorker'[r]] = r
    <3>1. CASE r \in new
      BY <3>1, <1>1, <1>2, <1>3
    <3>2. CASE r \notin new
      <4>1. rPc'[r] = rPc[r] /\ rWorker'[r] = rWorker[r]
        BY <3>2, <1>1
      <4>2. rWorker[r] \in Workers /\ wRunning[rWorker[r]] /\ wRun[rWorker[r]] = r
        BY <4>1, <2>2 DEF OneRunPerWorker, Unfinished
      <4>3. rWorker[r] \notin idle
        BY <4>2, <1>2
      <4>4. wRunning'[rWorker[r]] /\ wRun'[rWorker[r]] = wRun[rWorker[r]]
        BY <4>2, <4>3, <1>1
      <4>5. QED
        BY <4>1, <4>2, <4>4
    <3>3. QED
      BY <3>1, <3>2
  <2>3. QED
    BY <2>1, <2>2 DEF OneRunPerWorker, Unfinished
<1>8. ProcessIsAwaited'
  BY <1>1, <1>3 DEF ProcessIsAwaited, Up, Unfinished
<1>9. QED
  BY <1>5, <1>6, <1>7, <1>8

-----------------------------------------------------------------------------
(* Steps of runs and processes.                                            *)

\* A goroutine that moves without ending keeps the ownership of runs.
LEMMA MoveKeepsOwnership ==
  ASSUME TypeOK, OneRunPerWorker,
         NEW r \in Runs, NEW pc \in RunPcs \ {"unused", "done"}, Unfinished(r),
         RunGoto(r, pc), UNCHANGED <<wRunning, wRun, rWorker>>
  PROVE  OneRunPerWorker' /\ rPc' \in [Runs -> RunPcs]
<1>1. /\ rPc' \in [Runs -> RunPcs]
      /\ rPc'[r] = pc
      /\ \A q \in Runs \ {r} : rPc'[q] = rPc[q]
  BY DEF RunGoto, TypeOK, RunTypeOK
<1>2. \A q \in Runs : (rPc'[q] \notin {"unused", "done"}) <=> Unfinished(q)
  BY <1>1 DEF Unfinished
<1>3. QED
  BY <1>1, <1>2 DEF OneRunPerWorker, Unfinished

\* The table, the keys and the references to workers are as they were.
LEMMA NoReferenceChanges ==
  ASSUME TableMatchesConfig, UsedWorkersHaveKeys,
         UNCHANGED <<cfg, workers, wKey, wRunning, cPend>>
  PROVE  TableMatchesConfig' /\ UsedWorkersHaveKeys'
<1>1. FreeWorkers' = FreeWorkers
  BY DEF FreeWorkers, Attached
<1>2. QED
  BY <1>1 DEF TableMatchesConfig, UsedWorkersHaveKeys

\* A step that only moves its goroutine, within its loop.
LEMMA OnlyMoveKeeps ==
  ASSUME IInv, NEW r \in Runs, NEW pc \in RunPcs \ {"unused", "done"}, Unfinished(r),
         RunGoto(r, pc), OnlyRunMoves,
         Up(r) \/ rProc[r] = "dead" => pc \in {"register", "wait"}
  PROVE  IInv'
<1> USE DEF OnlyRunMoves, mgrVars, workerVars, callVars
<1>1. OneRunPerWorker' /\ rPc' \in [Runs -> RunPcs]
  BY MoveKeepsOwnership DEF IInv
<1>2. TypeOK'
  BY <1>1 DEF IInv, TypeOK, MgrTypeOK, WorkerTypeOK, RunTypeOK, CallTypeOK
<1>3. ProcessIsAwaited'
  <2>1. rPc' = [rPc EXCEPT ![r] = pc] /\ rPc \in [Runs -> RunPcs]
    BY DEF RunGoto, IInv, TypeOK, RunTypeOK
  <2>2. QED
    BY <2>1 DEF IInv, ProcessIsAwaited, Up
<1>4. TableMatchesConfig' /\ UsedWorkersHaveKeys'
  BY NoReferenceChanges DEF IInv
<1>5. QED
  BY <1>1, <1>2, <1>3, <1>4 DEF IInv

\* No process to wait for anywhere but at "register" and "wait".
LEMMA NoProcessElsewhere ==
  ASSUME IInv, NEW r \in Runs, rPc[r] \notin {"register", "wait"}
  PROVE  ~(Up(r) \/ rProc[r] = "dead")
BY DEF IInv, ProcessIsAwaited

\* What an unfinished run has: a receiver that runs it and has a key.
LEMMA ReceiverOfRun ==
  ASSUME IInv, NEW r \in Runs, Unfinished(r)
  PROVE  /\ rWorker[r] \in Workers /\ wRunning[rWorker[r]] /\ wRun[rWorker[r]] = r
         /\ wKey[rWorker[r]] \in Keys
<1>1. rWorker[r] \in Workers /\ wRunning[rWorker[r]] /\ wRun[rWorker[r]] = r
  BY DEF IInv, OneRunPerWorker
<1>2. rWorker[r] \notin FreeWorkers
  BY <1>1 DEF FreeWorkers
<1>3. QED
  BY <1>1, <1>2 DEF IInv, UsedWorkersHaveKeys, TypeOK, WorkerTypeOK

\* Every step of a run's goroutine keeps the invariant.
LEMMA RunStepKeeps ==
  ASSUME IInv, NEW r \in Runs, RunStep(r)
  PROVE  IInv'
<1> USE DEF mgrVars, workerVars, callVars
<1>1. CASE RunTop(r)
  BY <1>1, OnlyMoveKeeps, NoProcessElsewhere DEF RunTop, At, Unfinished, RunPcs
<1>2. CASE RunPoll(r)
  BY <1>2, OnlyMoveKeeps, NoProcessElsewhere DEF RunPoll, At, Unfinished, RunPcs
<1>3. CASE RunAfter(r)
  BY <1>3, OnlyMoveKeeps, NoProcessElsewhere DEF RunAfter, At, Unfinished, RunPcs
<1>4. CASE RunAfterPoll(r)
  BY <1>4, OnlyMoveKeeps, NoProcessElsewhere DEF RunAfterPoll, At, Unfinished, RunPcs
<1>5. CASE RunSleep(r)
  BY <1>5, OnlyMoveKeeps, NoProcessElsewhere DEF RunSleep, At, Unfinished, RunPcs
<1>6. CASE RunBuild(r)
  <2>1. Unfinished(r) /\ "launch" \in RunPcs \ {"unused", "done"}
    BY <1>6 DEF RunBuild, At, Unfinished, RunPcs
  <2>2. OneRunPerWorker' /\ rPc' \in [Runs -> RunPcs]
    BY <1>6, <2>1, MoveKeepsOwnership DEF RunBuild, IInv
  <2>3. rTargets' \in [Runs -> SUBSET Keys]
    <3>1. rWorker[r] \in Workers /\ wKey[rWorker[r]] \in Keys
      BY <2>1, ReceiverOfRun
    <3>2. wTargets[rWorker[r]] \in SUBSET Keys
      BY <3>1 DEF IInv, TypeOK, WorkerTypeOK, Keys
    <3>3. QED
      BY <1>6, <3>1, <3>2 DEF RunBuild, IInv, TypeOK, RunTypeOK
  <2>4. TypeOK'
    BY <1>6, <2>2, <2>3
    DEF RunBuild, IInv, TypeOK, MgrTypeOK, WorkerTypeOK, RunTypeOK, CallTypeOK
  <2>5. ProcessIsAwaited'
    <3>1. ~(Up(r) \/ rProc[r] = "dead")
      BY <1>6, NoProcessElsewhere DEF RunBuild, At
    <3>2. QED
      BY <1>6, <3>1 DEF RunBuild, RunGoto, IInv, TypeOK, RunTypeOK, ProcessIsAwaited, Up
  <2>6. QED
    BY <1>6, <2>2, <2>4, <2>5, NoReferenceChanges DEF RunBuild, IInv
<1>7. CASE RunLaunch(r)
  <2>1. Unfinished(r) /\ {"register", "backoff"} \subseteq RunPcs \ {"unused", "done"}
    BY <1>7 DEF RunLaunch, At, Unfinished, RunPcs
  <2>2. PICK pc \in {"register", "backoff"} :
          /\ RunGoto(r, pc)
          /\ pc = "register" => /\ rProc' = [rProc EXCEPT ![r] = "live"]
                                /\ rProcs' = [rProcs EXCEPT ![r] = @ + 1]
          /\ pc = "backoff" => UNCHANGED <<rProc, rProcs>>
    BY <1>7 DEF RunLaunch
  <2>3. OneRunPerWorker' /\ rPc' \in [Runs -> RunPcs]
    BY <1>7, <2>1, <2>2, MoveKeepsOwnership DEF RunLaunch, IInv
  <2>4. rProc' \in [Runs -> ProcStates] /\ rProcs' \in [Runs -> Nat]
    BY <2>2 DEF IInv, TypeOK, RunTypeOK, ProcStates
  <2>5. TypeOK'
    BY <1>7, <2>3, <2>4
    DEF RunLaunch, IInv, TypeOK, MgrTypeOK, WorkerTypeOK, RunTypeOK, CallTypeOK
  <2>6. ProcessIsAwaited'
    <3>1. ~(Up(r) \/ rProc[r] = "dead")
      BY <1>7, NoProcessElsewhere DEF RunLaunch, At
    <3>2. QED
      BY <2>2, <3>1 DEF RunGoto, IInv, TypeOK, RunTypeOK, ProcessIsAwaited, Up
  <2>7. QED
    BY <1>7, <2>3, <2>5, <2>6, NoReferenceChanges DEF RunLaunch, IInv
<1>8. CASE RunRegister(r)
  <2>1. Unfinished(r) /\ "wait" \in RunPcs \ {"unused", "done"}
    BY <1>8 DEF RunRegister, At, Unfinished, RunPcs
  <2>2. OneRunPerWorker' /\ rPc' \in [Runs -> RunPcs]
    BY <1>8, <2>1, MoveKeepsOwnership DEF RunRegister, IInv
  <2>3. wCmd' \in [Workers -> Nat] /\ wStatus' \in [Workers -> Statuses]
    BY <1>8 DEF RunRegister, IInv, TypeOK, RunTypeOK, WorkerTypeOK, Statuses
  <2>4. TypeOK'
    BY <1>8, <2>2, <2>3
    DEF RunRegister, IInv, TypeOK, MgrTypeOK, WorkerTypeOK, RunTypeOK, CallTypeOK
  <2>5. ProcessIsAwaited'
    BY <1>8 DEF RunRegister, RunGoto, IInv, TypeOK, RunTypeOK, ProcessIsAwaited, Up
  <2>6. QED
    BY <1>8, <2>2, <2>4, <2>5, NoReferenceChanges DEF RunRegister, IInv
<1>9. CASE RunWait(r)
  <2>1. Unfinished(r) /\ "after" \in RunPcs \ {"unused", "done"}
    BY <1>9 DEF RunWait, At, Unfinished, RunPcs
  <2>2. OneRunPerWorker' /\ rPc' \in [Runs -> RunPcs]
    BY <1>9, <2>1, MoveKeepsOwnership DEF RunWait, IInv
  <2>3. rProc' \in [Runs -> ProcStates]
    BY <1>9 DEF RunWait, IInv, TypeOK, RunTypeOK, ProcStates
  <2>4. TypeOK'
    BY <1>9, <2>2, <2>3
    DEF RunWait, IInv, TypeOK, MgrTypeOK, WorkerTypeOK, RunTypeOK, CallTypeOK
  <2>5. ProcessIsAwaited'
    BY <1>9 DEF RunWait, RunGoto, IInv, TypeOK, RunTypeOK, ProcessIsAwaited, Up
  <2>6. QED
    BY <1>9, <2>2, <2>4, <2>5, NoReferenceChanges DEF RunWait, IInv
<1>10. CASE RunBackoff(r)
  <2>1. Unfinished(r) /\ "sleep" \in RunPcs \ {"unused", "done"}
    BY <1>10 DEF RunBackoff, At, Unfinished, RunPcs
  <2>2. OneRunPerWorker' /\ rPc' \in [Runs -> RunPcs]
    BY <1>10, <2>1, MoveKeepsOwnership DEF RunBackoff, IInv
  <2>3. wStatus' \in [Workers -> Statuses] /\ rTargets' \in [Runs -> SUBSET Keys]
    BY <1>10 DEF RunBackoff, IInv, TypeOK, RunTypeOK, WorkerTypeOK, Statuses
  <2>4. TypeOK'
    BY <1>10, <2>2, <2>3
    DEF RunBackoff, IInv, TypeOK, MgrTypeOK, WorkerTypeOK, RunTypeOK, CallTypeOK
  <2>5. ProcessIsAwaited'
    <3>1. ~(Up(r) \/ rProc[r] = "dead")
      BY <1>10, NoProcessElsewhere DEF RunBackoff, At
    <3>2. QED
      BY <1>10, <3>1 DEF RunBackoff, RunGoto, IInv, TypeOK, RunTypeOK, ProcessIsAwaited, Up
  <2>6. QED
    BY <1>10, <2>2, <2>4, <2>5, NoReferenceChanges DEF RunBackoff, IInv
<1>11. CASE RunExit(r)
  <2> DEFINE w == rWorker[r]
  <2>1. Unfinished(r) /\ w \in Workers /\ wRunning[w] /\ wRun[w] = r
    BY <1>11, ReceiverOfRun DEF RunExit, At, Unfinished
  <2>2. /\ wRunning' = [wRunning EXCEPT ![w] = FALSE]
        /\ wCmd' = [wCmd EXCEPT ![w] = 0]
        /\ wStatus' = [wStatus EXCEPT ![w] = "Stopped"]
        /\ rTargets' = [rTargets EXCEPT ![r] = {}]
        /\ rPc' = [rPc EXCEPT ![r] = "done"]
        /\ UNCHANGED <<mgrVars, wKey, wTargets, wRun, rWorker, rStop, rProc, rProcs,
                       callVars, crashed, abandoned>>
    BY <1>11 DEF RunExit, ClearRunning, RunGoto
  <2>3. /\ wRunning' \in [Workers -> BOOLEAN]
        /\ ~wRunning'[w]
        /\ \A v \in Workers \ {w} : wRunning'[v] = wRunning[v]
    BY <2>1, <2>2 DEF IInv, TypeOK, WorkerTypeOK
  <2>4. /\ rPc' \in [Runs -> RunPcs]
        /\ rPc'[r] = "done"
        /\ \A q \in Runs \ {r} : rPc'[q] = rPc[q]
    BY <2>2 DEF IInv, TypeOK, RunTypeOK, RunPcs
  <2>5. TypeOK'
    <3>1. /\ wCmd' \in [Workers -> Nat] /\ wStatus' \in [Workers -> Statuses]
          /\ rTargets' \in [Runs -> SUBSET Keys]
      BY <2>2 DEF IInv, TypeOK, WorkerTypeOK, RunTypeOK, Statuses
    <3>2. QED
      BY <2>2, <2>3, <2>4, <3>1
      DEF IInv, TypeOK, MgrTypeOK, WorkerTypeOK, RunTypeOK, CallTypeOK
  <2>6. OneRunPerWorker'
    <3>1. \A v \in Workers : wRunning'[v] => wRun[v] # r
      BY <2>1, <2>3 DEF IInv, OneRunPerWorker
    <3>2. \A q \in Runs \ {r} : Unfinished(q) => rWorker[q] # w
      BY <2>1 DEF IInv, OneRunPerWorker
    <3>3. QED
      BY <2>2, <2>3, <2>4, <3>1, <3>2 DEF IInv, OneRunPerWorker, Unfinished
  <2>7. ProcessIsAwaited'
    BY <1>11, <2>2, <2>4, NoProcessElsewhere DEF RunExit, At, IInv, ProcessIsAwaited, Up
  <2>8. TableMatchesConfig'
    BY <2>2 DEF IInv, TableMatchesConfig
  <2>9. UsedWorkersHaveKeys'
    <3>1. FreeWorkers \subseteq FreeWorkers'
      BY <2>1, <2>2, <2>3 DEF FreeWorkers, Attached
    <3>2. QED
      BY <2>2, <3>1 DEF IInv, UsedWorkersHaveKeys
  <2>10. QED
    BY <2>5, <2>6, <2>7, <2>8, <2>9 DEF IInv
<1>12. QED
  BY <1>1, <1>2, <1>3, <1>4, <1>5, <1>6, <1>7, <1>8, <1>9, <1>10, <1>11 DEF RunStep

\* So does every step of the stall monitor and of the processes.
LEMMA ProcStepKeeps ==
  ASSUME IInv, NEW r \in Runs, MonitorKill(r) \/ ProcStalls(r) \/ ProcExits(r)
  PROVE  IInv'
<1> USE DEF mgrVars, workerVars, callVars
<1>1. PICK p \in {"killed", "stalled", "dead"} :
        rProc' = [rProc EXCEPT ![r] = p] /\ OnlyProcMoves /\ Up(r)
  BY DEF MonitorKill, ProcStalls, ProcExits, Up
<1>2. TypeOK'
  BY <1>1 DEF OnlyProcMoves, IInv, TypeOK, MgrTypeOK, WorkerTypeOK, RunTypeOK,
              CallTypeOK, ProcStates
<1>3. OneRunPerWorker'
  BY <1>1 DEF OnlyProcMoves, IInv, OneRunPerWorker, Unfinished
<1>4. ProcessIsAwaited'
  BY <1>1 DEF OnlyProcMoves, IInv, TypeOK, RunTypeOK, ProcessIsAwaited, Up
<1>5. TableMatchesConfig' /\ UsedWorkersHaveKeys'
  BY <1>1, NoReferenceChanges DEF OnlyProcMoves, IInv
<1>6. QED
  BY <1>2, <1>3, <1>4, <1>5 DEF IInv

-----------------------------------------------------------------------------
(* Commands.                                                               *)

\* A caller that moves stays well typed.
LEMMA GotoTypes ==
  ASSUME CallTypeOK, NEW c \in Callers, NEW pc \in CallPcs, NEW op \in Procedures,
         Goto(c, pc) \/ GotoAs(c, op, pc)
  PROVE  cPc' \in [Callers -> CallPcs] /\ cOp' \in [Callers -> Procedures]
BY DEF CallTypeOK, Goto, GotoAs, Procedures

\* After EnsureWorkers exactly the keys asked for and those not dropped have a
\* worker, each under its own key, and no object loses its key.
LEMMA EnsureWorkersKeeps ==
  ASSUME IInv, NEW keys \in SUBSET Keys, NEW drop \in SUBSET Keys, keys \cap drop = {},
         EnsureWorkers(keys, drop)
  PROVE  /\ workers' \in [Keys -> Workers \cup {None}]
         /\ wKey' \in [Workers -> Keys \cup {None}]
         /\ \A k \in Keys : workers'[k] # None <=> k \in keys \/ (workers[k] # None /\ k \notin drop)
         /\ \A k \in Keys : workers'[k] # None => wKey'[workers'[k]] = k
         /\ \A w \in Workers : wKey[w] # None => wKey'[w] # None
<1> DEFINE missing == {k \in keys : workers[k] = None}
<1>1. PICK f \in Injections(missing, FreeWorkers) :
        /\ workers' = [k \in Keys |-> IF k \in missing THEN f[k]
                                      ELSE IF k \in drop THEN None ELSE workers[k]]
        /\ wKey' = [w \in Workers |-> IF w \in {f[k] : k \in missing}
                                      THEN CHOOSE k \in missing : f[k] = w ELSE wKey[w]]
  BY DEF EnsureWorkers
<1> DEFINE new == {f[k] : k \in missing}
<1>2. /\ \A k \in missing : f[k] \in FreeWorkers
      /\ \A j, k \in missing : f[j] = f[k] => j = k
  BY DEF Injections
<1>3. /\ new \subseteq Workers
      /\ \A w \in new : w \notin Attached
      /\ \A w \in new : (CHOOSE k \in missing : f[k] = w) \in missing
      /\ \A k \in missing : (CHOOSE j \in missing : f[j] = f[k]) = k
  BY <1>2 DEF FreeWorkers
<1>4. None \notin Workers /\ None \notin Keys /\ workers \in [Keys -> Workers \cup {None}]
      /\ wKey \in [Workers -> Keys \cup {None}]
  BY PublisherAssumption DEF IInv, TypeOK, MgrTypeOK, WorkerTypeOK
<1>5. workers' \in [Keys -> Workers \cup {None}]
  BY <1>1, <1>3, <1>4
<1>6. wKey' \in [Workers -> Keys \cup {None}]
  BY <1>1, <1>3, <1>4
<1>7. \A k \in Keys : workers'[k] # None <=> k \in keys \/ (workers[k] # None /\ k \notin drop)
  BY <1>1, <1>3, <1>4
<1>8. ASSUME NEW k \in Keys, workers'[k] # None PROVE wKey'[workers'[k]] = k
  <2>1. CASE k \in missing
    BY <2>1, <1>1, <1>3
  <2>2. CASE k \notin missing
    <3>1. workers'[k] = workers[k] /\ workers[k] # None
      BY <2>2, <1>1, <1>8
    <3>2. workers[k] \in Attached /\ workers[k] \in Workers /\ wKey[workers[k]] = k
      BY <3>1, <1>4 DEF Attached, IInv, TableMatchesConfig
    <3>3. QED
      BY <3>1, <3>2, <1>1, <1>3
  <2>3. QED
    BY <2>1, <2>2
<1>9. ASSUME NEW w \in Workers, wKey[w] # None PROVE wKey'[w] # None
  BY <1>1, <1>3, <1>4, <1>9
<1>10. QED
  BY <1>5, <1>6, <1>7, <1>8, <1>9

\* wTargets stays well typed.
LEMMA SetTargetsTypes ==
  ASSUME TypeOK, NEW shared, NEW ts \in SUBSET Targets, SetTargets(shared, ts)
  PROVE  wTargets' \in [Workers -> SUBSET Targets]
BY DEF SetTargets, TypeOK, WorkerTypeOK

\* The table holds worker objects.
LEMMA AttachedAreWorkers ==
  ASSUME TypeOK PROVE Attached \subseteq Workers
BY DEF Attached, TypeOK, MgrTypeOK

\* What KeysOf and Dropped range over.
LEMMA KeysOfConfig ==
  ASSUME NEW conf \in Config
  PROVE  KeysOf(conf) \subseteq Keys /\ Dropped(conf) \subseteq Keys
         /\ KeysOf(conf) \cap Dropped(conf) = {}
BY DEF KeysOf, Dropped, Keys, Config

\* InitFFmpegPublisher keeps the invariant: whatever the old and the new
\* configuration, the workers it drops and creates leave the table as asked for.
LEMMA InitPublisherKeeps ==
  ASSUME IInv, NEW c \in Callers, NEW conf \in Configs, InitFFmpegPublisher(c, conf)
  PROVE  IInv'
<1> DEFINE gone == {workers[k] : k \in Dropped(conf)}
           stopping == {wRun[w] : w \in {v \in gone : Stoppable(v)}}
<1>1. /\ cfg' = conf
      /\ EnsureWorkers(KeysOf(conf), Dropped(conf))
      /\ SetTargets(Shared(conf), conf.targets)
      /\ GotoAs(c, "init", IF stopping = {} THEN "idle" ELSE "close")
      /\ cClose' = [cClose EXCEPT ![c] = stopping]
      /\ cAwait' = [cAwait EXCEPT ![c] = stopping]
      /\ UNCHANGED <<paused, wRunning, wStatus, wCmd, wRun, cPend, cCmd, crashed, abandoned>>
      /\ UNCHANGED <<rPc, rWorker, rTargets, rStop, rProc, rProcs>>
  BY DEF InitFFmpegPublisher, runVars
<1>2. conf \in Config /\ conf # None /\ conf.targets \subseteq Targets
  BY PublisherAssumption DEF Config
<1>3. /\ workers' \in [Keys -> Workers \cup {None}]
      /\ wKey' \in [Workers -> Keys \cup {None}]
      /\ \A k \in Keys : workers'[k] # None <=> k \in KeysOf(conf) \/ (workers[k] # None /\ k \notin Dropped(conf))
      /\ \A k \in Keys : workers'[k] # None => wKey'[workers'[k]] = k
      /\ \A w \in Workers : wKey[w] # None => wKey'[w] # None
  BY <1>1, <1>2, KeysOfConfig, EnsureWorkersKeeps
<1>4. stopping \subseteq Runs
  <2>1. gone \subseteq Workers
    BY DEF Dropped, IInv, TypeOK, MgrTypeOK
  <2>2. QED
    BY <2>1 DEF Stoppable, IInv, OneRunPerWorker
<1>5. MgrTypeOK'
  BY <1>1, <1>2, <1>3 DEF IInv, TypeOK, MgrTypeOK
<1>6. WorkerTypeOK'
  BY <1>1, <1>2, <1>3, SetTargetsTypes DEF IInv, TypeOK, WorkerTypeOK
<1>7. CallTypeOK'
  <2>1. cPc' \in [Callers -> CallPcs] /\ cOp' \in [Callers -> Procedures]
    BY <1>1, GotoTypes DEF IInv, TypeOK, CallPcs, Procedures
  <2>2. QED
    BY <1>1, <1>4, <2>1 DEF IInv, TypeOK, CallTypeOK
<1>8. TypeOK'
  BY <1>1, <1>5, <1>6, <1>7 DEF IInv, TypeOK, RunTypeOK
<1>9. OneRunPerWorker' /\ ProcessIsAwaited'
  BY <1>1 DEF IInv, OneRunPerWorker, Unfinished, ProcessIsAwaited, Up
<1>10. TableMatchesConfig'
  <2>1. \A k \in Keys : workers'[k] # None <=> k \in KeysOf(conf)
    BY <1>3 DEF Dropped
  <2>2. {k \in Keys : workers'[k] # None} = KeysOf(conf)
    BY <2>1, <1>2, KeysOfConfig
  <2>3. QED
    BY <1>1, <1>3, <2>2 DEF TableMatchesConfig, KeysOf, Shared
<1>11. UsedWorkersHaveKeys'
  <2>1. ASSUME NEW w \in Workers, w \notin FreeWorkers' PROVE wKey'[w] # None
    <3>1. CASE \E k \in Keys : workers'[k] # None /\ workers'[k] = w
      BY <3>1, <1>3, PublisherAssumption
    <3>2. CASE wRunning[w] \/ \E d \in Callers : w \in cPend[d]
      <4>1. w \notin FreeWorkers
        BY <3>2 DEF FreeWorkers
      <4>2. QED
        BY <4>1, <1>3 DEF IInv, UsedWorkersHaveKeys
    <3>3. QED
      BY <1>1, <2>1, <3>1, <3>2 DEF FreeWorkers, Attached
  <2>2. QED
    BY <2>1 DEF UsedWorkersHaveKeys
<1>12. QED
  BY <1>8, <1>9, <1>10, <1>11 DEF IInv

\* StartFFmpegPublisher keeps the invariant.
LEMMA StartPublisherKeeps ==
  ASSUME IInv, NEW c \in Callers, StartFFmpegPublisher(c)
  PROVE  IInv'
<1> DEFINE keys == IF cfg = None \/ ActiveTargets = {} THEN {}
                   ELSE IF Shared(cfg) THEN {SHARED} ELSE ActiveTargets
<1>1. /\ EnsureWorkers(keys, {})
      /\ SetTargets(SHARED \in keys, ActiveTargets)
      /\ StartWorkers({workers'[k] : k \in keys})
      /\ Goto(c, "idle")
      /\ UNCHANGED <<cfg, paused, cPend, cClose, cAwait, cCmd, crashed>>
  BY DEF StartFFmpegPublisher
<1>2. /\ ActiveTargets \subseteq Targets
      /\ keys \subseteq Keys
      /\ keys # {} => cfg # None /\ keys \subseteq KeysOf(cfg)
  BY DEF ActiveTargets, ConfTargets, Keys, KeysOf, IInv, TypeOK, MgrTypeOK, Config
<1>3. /\ workers' \in [Keys -> Workers \cup {None}]
      /\ wKey' \in [Workers -> Keys \cup {None}]
      /\ \A k \in Keys : workers'[k] # None <=> k \in keys \/ workers[k] # None
      /\ \A k \in Keys : workers'[k] # None => wKey'[workers'[k]] = k
      /\ \A w \in Workers : wKey[w] # None => wKey'[w] # None
  <2>1. keys \in SUBSET Keys /\ {} \in SUBSET Keys /\ keys \cap {} = {}
    BY <1>2
  <2>2. EnsureWorkers(keys, {})
    BY <1>1
  <2> HIDE DEF keys
  <2>3. QED
    BY <2>1, <2>2, EnsureWorkersKeeps
<1>4. PICK S \in SUBSET Workers : S = {workers'[k] : k \in keys} /\ StartWorkers(S)
  BY <1>1, <1>2, <1>3
<1>5. /\ wRunning' \in [Workers -> BOOLEAN]
      /\ wStatus' \in [Workers -> Statuses]
      /\ wCmd' \in [Workers -> Nat]
      /\ wRun' \in [Workers -> Runs \cup {None}]
      /\ RunTypeOK'
      /\ abandoned' \subseteq Runs
      /\ OneRunPerWorker'
      /\ ProcessIsAwaited'
  BY <1>4, StartWorkersKeeps DEF IInv, RunTypeOK
<1>6. MgrTypeOK'
  BY <1>1, <1>3 DEF IInv, TypeOK, MgrTypeOK
<1>7. WorkerTypeOK'
  BY <1>1, <1>2, <1>3, <1>5, SetTargetsTypes DEF IInv, WorkerTypeOK
<1>8. CallTypeOK'
  <2>1. cPc' \in [Callers -> CallPcs] /\ cOp' \in [Callers -> Procedures]
    BY <1>1, GotoTypes DEF IInv, TypeOK, CallPcs, Procedures
  <2>2. QED
    BY <1>1, <2>1 DEF IInv, TypeOK, CallTypeOK
<1>9. TypeOK'
  BY <1>1, <1>5, <1>6, <1>7, <1>8 DEF IInv, TypeOK
<1>10. TableMatchesConfig'
  <2>1. ASSUME cfg # None PROVE {k \in Keys : workers'[k] # None} = KeysOf(cfg)
    BY <1>2, <1>3, <2>1 DEF IInv, TableMatchesConfig
  <2>2. QED
    BY <1>1, <1>3, <2>1 DEF TableMatchesConfig, KeysOf, Shared
<1>11. UsedWorkersHaveKeys'
  <2>1. ASSUME NEW w \in Workers, w \notin FreeWorkers' PROVE wKey'[w] # None
    <3>1. CASE \E k \in Keys : workers'[k] # None /\ workers'[k] = w
      BY <3>1, <1>3, PublisherAssumption
    <3>2. CASE wRunning[w] \/ \E d \in Callers : w \in cPend[d]
      <4>1. w \notin FreeWorkers
        BY <3>2 DEF FreeWorkers
      <4>2. QED
        BY <4>1, <1>3 DEF IInv, UsedWorkersHaveKeys
    <3>3. wRunning'[w] => wRunning[w] \/ \E k \in Keys : workers'[k] # None /\ workers'[k] = w
      <4>1. wRunning'[w] => wRunning[w] \/ w \in S
        BY <1>4 DEF StartWorkers
      <4>2. w \in S => \E k \in Keys : workers'[k] # None /\ workers'[k] = w
        BY <1>2, <1>3, <1>4
      <4>3. QED
        BY <4>1, <4>2
    <3>4. QED
      BY <1>1, <2>1, <3>1, <3>2, <3>3 DEF FreeWorkers, Attached
  <2>2. QED
    BY <2>1 DEF UsedWorkersHaveKeys
<1>12. QED
  BY <1>5, <1>9, <1>10, <1>11 DEF IInv

\* A step of a caller that leaves the table, the worker objects and the goroutines
\* alone and adds no worker to its list that is not in the table.
LEMMA CallerMoveKeeps ==
  ASSUME IInv, CallTypeOK',
         UNCHANGED <<cfg, workers, workerVars, rPc, rWorker, rTargets, rProcs>>,
         paused' \subseteq Targets, crashed' \in BOOLEAN, abandoned' \subseteq Runs,
         rStop' \in [Runs -> BOOLEAN], rProc' \in [Runs -> ProcStates],
         \A r \in Runs : rProc'[r] = rProc[r] \/ (Up(r) /\ rProc'[r] = "killed"),
         \A c \in Callers : cPend'[c] \subseteq cPend[c] \cup Attached
  PROVE  IInv'
<1>1. TypeOK'
  BY DEF IInv, TypeOK, MgrTypeOK, WorkerTypeOK, RunTypeOK, workerVars
<1>2. OneRunPerWorker'
  BY DEF IInv, OneRunPerWorker, Unfinished, workerVars
<1>3. ProcessIsAwaited'
  BY DEF IInv, ProcessIsAwaited, Up
<1>4. TableMatchesConfig'
  BY DEF IInv, TableMatchesConfig, workerVars
<1>5. UsedWorkersHaveKeys'
  <2>1. FreeWorkers \subseteq FreeWorkers'
    BY DEF FreeWorkers, Attached, workerVars
  <2>2. QED
    BY <2>1 DEF IInv, UsedWorkersHaveKeys, workerVars
<1>6. QED
  BY <1>1, <1>2, <1>3, <1>4, <1>5 DEF IInv

\* The commands' first steps that only read the table and set pause marks.
LEMMA CommandBeginsKeeps ==
  ASSUME IInv, NEW c \in Callers,
         \/ StopFFmpegPublisher(c) \/ PauseFFmpegPublisher(c) \/ ResumeFFmpegPublisher(c)
         \/ \E url \in Targets : \/ PauseFFmpegPublisherByURL(c, url)
                                 \/ ResumeFFmpegPublisherByURL(c, url)
  PROVE  IInv'
<1> USE DEF mgrVars, runVars
<1>1. Attached \subseteq Workers /\ paused \subseteq Targets /\ ConfTargets \subseteq Targets
      /\ \A url \in Targets : Resolve(url) \subseteq Targets
  BY AttachedAreWorkers DEF IInv, TypeOK, MgrTypeOK, ConfTargets, Config, Resolve
<1>2. CASE StopFFmpegPublisher(c)
  <2>1. cPc' \in [Callers -> CallPcs] /\ cOp' \in [Callers -> Procedures]
    BY <1>2, GotoTypes DEF StopFFmpegPublisher, IInv, TypeOK, CallTypeOK, CallPcs, Procedures
  <2>2. CallTypeOK'
    BY <1>1, <1>2, <2>1 DEF StopFFmpegPublisher, IInv, TypeOK, CallTypeOK
  <2>3. \A d \in Callers : cPend'[d] \subseteq cPend[d] \cup Attached
    BY <1>2 DEF StopFFmpegPublisher, IInv, TypeOK, CallTypeOK
  <2>4. QED
    BY <1>1, <1>2, <2>2, <2>3, CallerMoveKeeps
    DEF StopFFmpegPublisher, IInv, TypeOK, RunTypeOK
<1>3. CASE PauseFFmpegPublisher(c)
  <2>1. cPc' \in [Callers -> CallPcs] /\ cOp' \in [Callers -> Procedures]
    BY <1>3, GotoTypes DEF PauseFFmpegPublisher, IInv, TypeOK, CallPcs, Procedures
  <2>2. CallTypeOK'
    BY <1>3, <2>1 DEF PauseFFmpegPublisher, IInv, TypeOK, CallTypeOK
  <2>3. QED
    BY <1>1, <1>3, <2>2, CallerMoveKeeps DEF PauseFFmpegPublisher, IInv, TypeOK, RunTypeOK
<1>4. CASE ResumeFFmpegPublisher(c)
  <2>1. cPc' \in [Callers -> CallPcs] /\ cOp' \in [Callers -> Procedures]
    BY <1>4, GotoTypes DEF ResumeFFmpegPublisher, IInv, TypeOK, CallPcs, Procedures
  <2>2. CallTypeOK'
    BY <1>4, <2>1 DEF ResumeFFmpegPublisher, IInv, TypeOK, CallTypeOK
  <2>3. QED
    BY <1>1, <1>4, <2>2, CallerMoveKeeps DEF ResumeFFmpegPublisher, IInv, TypeOK, RunTypeOK
<1>5. ASSUME NEW url \in Targets,
             PauseFFmpegPublisherByURL(c, url) \/ ResumeFFmpegPublisherByURL(c, url)
      PROVE  IInv'
  <2>1. PICK marks \in SUBSET Targets, op \in Procedures, pc \in CallPcs :
          ByURL(c, url, marks, op, pc)
    BY <1>1, <1>5 DEF PauseFFmpegPublisherByURL, ResumeFFmpegPublisherByURL, CallPcs, Procedures
  <2>2. PICK P \in SUBSET Attached : cPend' = [cPend EXCEPT ![c] = P]
    <3>1. {workers[k] : k \in Resolve(url)} \ {None} \in SUBSET Attached
      BY <1>1 DEF Attached, Keys
    <3>2. QED
      BY <2>1, <3>1 DEF ByURL
  <2>3. cPc' \in [Callers -> CallPcs] /\ cOp' \in [Callers -> Procedures]
    BY <2>1, GotoTypes DEF ByURL, IInv, TypeOK, CallPcs, Procedures
  <2>4. CallTypeOK'
    BY <1>1, <2>1, <2>2, <2>3 DEF ByURL, IInv, TypeOK, CallTypeOK
  <2>5. \A d \in Callers : cPend'[d] \subseteq cPend[d] \cup Attached
    BY <2>2 DEF IInv, TypeOK, CallTypeOK
  <2>6. QED
    BY <2>1, <2>4, <2>5, CallerMoveKeeps DEF ByURL, IInv, TypeOK, RunTypeOK
<1>6. QED
  BY <1>2, <1>3, <1>4, <1>5

\* The startLocked of ResumeFFmpegPublisherByURL keeps the invariant.
LEMMA ResumeWorkerKeeps ==
  ASSUME IInv, NEW c \in Callers, NEW w \in Workers, ResumeWorker(c, w)
  PROVE  IInv'
<1> USE DEF mgrVars
<1>1. /\ w \in cPend[c]
      /\ StartWorkers({w})
      /\ cPend' = [cPend EXCEPT ![c] = @ \ {w}]
      /\ UNCHANGED <<cfg, workers, paused, wKey, wTargets, cPc, cOp, cClose, cAwait, cCmd, crashed>>
  BY DEF ResumeWorker
<1>2. /\ wRunning' \in [Workers -> BOOLEAN]
      /\ wStatus' \in [Workers -> Statuses]
      /\ wCmd' \in [Workers -> Nat]
      /\ wRun' \in [Workers -> Runs \cup {None}]
      /\ RunTypeOK'
      /\ abandoned' \subseteq Runs
      /\ OneRunPerWorker'
      /\ ProcessIsAwaited'
  BY <1>1, StartWorkersKeeps DEF IInv, RunTypeOK
<1>3. TypeOK'
  BY <1>1, <1>2 DEF IInv, TypeOK, MgrTypeOK, WorkerTypeOK, CallTypeOK
<1>4. TableMatchesConfig'
  BY <1>1 DEF IInv, TableMatchesConfig
<1>5. UsedWorkersHaveKeys'
  <2>1. \A v \in Workers : wRunning'[v] => wRunning[v] \/ v = w
    BY <1>1 DEF StartWorkers
  <2>2. w \notin FreeWorkers
    BY <1>1 DEF FreeWorkers
  <2>3. \A d \in Callers : cPend'[d] \subseteq cPend[d]
    BY <1>1 DEF IInv, TypeOK, CallTypeOK
  <2>4. FreeWorkers \subseteq FreeWorkers'
    BY <1>1, <2>1, <2>2, <2>3 DEF FreeWorkers, Attached
  <2>5. QED
    BY <1>1, <2>4 DEF IInv, UsedWorkersHaveKeys
<1>6. QED
  BY <1>2, <1>3, <1>4, <1>5 DEF IInv

\* Every step of a command after its first keeps the invariant.
LEMMA CallStepKeeps ==
  ASSUME IInv, NEW c \in Callers, CallStep(c)
  PROVE  IInv'
<1> USE DEF mgrVars, runVars
<1>1. CASE \E w \in Workers : ResumeWorker(c, w)
  BY <1>1, ResumeWorkerKeeps
<1>2. ASSUME NEW w \in Workers, StopWorker(c, w) PROVE IInv'
  <2>1. CallTypeOK'
    <3>1. CASE Stoppable(w)
      <4>1. cPc' \in [Callers -> CallPcs] /\ cOp' \in [Callers -> Procedures]
        BY <1>2, <3>1, GotoTypes DEF StopWorker, IInv, TypeOK, CallPcs, Procedures
      <4>2. wRun[w] \in Runs /\ wCmd[w] \in Nat
        BY <3>1 DEF Stoppable, IInv, OneRunPerWorker, TypeOK, WorkerTypeOK
      <4>3. /\ cPend' = [cPend EXCEPT ![c] = @ \ {w}]
            /\ cClose' = [cClose EXCEPT ![c] = {wRun[w]}]
            /\ cAwait' = [cAwait EXCEPT ![c] = {wRun[w]}]
            /\ cCmd' = [cCmd EXCEPT ![c] = wCmd[w]]
        BY <1>2, <3>1 DEF StopWorker
      <4>4. cPend' \in [Callers -> SUBSET Workers]
        BY <4>3 DEF IInv, TypeOK, CallTypeOK
      <4>5. /\ cClose' \in [Callers -> SUBSET Runs] /\ cAwait' \in [Callers -> SUBSET Runs]
            /\ cCmd' \in [Callers -> Nat]
        BY <4>2, <4>3 DEF IInv, TypeOK, CallTypeOK
      <4>6. QED
        BY <4>1, <4>4, <4>5 DEF CallTypeOK
    <3>2. CASE ~Stoppable(w)
      BY <1>2, <3>2 DEF StopWorker, IInv, TypeOK, CallTypeOK
    <3>3. QED
      BY <3>1, <3>2
  <2>2. \A d \in Callers : cPend'[d] \subseteq cPend[d] \cup Attached
    BY <1>2 DEF StopWorker, IInv, TypeOK, CallTypeOK
  <2>3. QED
    BY <1>2, <2>1, <2>2, CallerMoveKeeps DEF StopWorker, IInv, TypeOK, RunTypeOK, MgrTypeOK
<1>3. CASE LoopEnds(c)
  <2>1. cPc' \in [Callers -> CallPcs] /\ cOp' \in [Callers -> Procedures]
    BY <1>3, GotoTypes DEF LoopEnds, IInv, TypeOK, CallPcs, Procedures
  <2>2. CallTypeOK'
    BY <1>3, <2>1 DEF LoopEnds, IInv, TypeOK, CallTypeOK
  <2>3. QED
    BY <1>3, <2>2, CallerMoveKeeps DEF LoopEnds, IInv, TypeOK, RunTypeOK, MgrTypeOK
<1>4. ASSUME NEW r \in Runs, CloseStopCh(c, r) PROVE IInv'
  <2>1. cPc' \in [Callers -> CallPcs] /\ cOp' \in [Callers -> Procedures]
    BY <1>4, GotoTypes DEF CloseStopCh, IInv, TypeOK, CallPcs, Procedures
  <2>2. CallTypeOK'
    BY <1>4, <2>1 DEF CloseStopCh, IInv, TypeOK, CallTypeOK
  <2>3. rStop' \in [Runs -> BOOLEAN] /\ crashed' \in BOOLEAN
    BY <1>4 DEF CloseStopCh, IInv, TypeOK, RunTypeOK
  <2>4. \A d \in Callers : cPend'[d] \subseteq cPend[d] \cup Attached
    BY <1>4 DEF CloseStopCh, IInv, TypeOK, CallTypeOK
  <2>5. QED
    BY <1>4, <2>2, <2>3, <2>4, CallerMoveKeeps
    DEF CloseStopCh, IInv, TypeOK, RunTypeOK, MgrTypeOK
<1>5. ASSUME NEW r \in Runs, KillProcess(c, r) PROVE IInv'
  <2>1. cPc' \in [Callers -> CallPcs] /\ cOp' \in [Callers -> Procedures]
    BY <1>5, GotoTypes DEF KillProcess, IInv, TypeOK, CallPcs, Procedures
  <2>2. CallTypeOK'
    BY <1>5, <2>1 DEF KillProcess, IInv, TypeOK, CallTypeOK
  <2>3. /\ rProc' \in [Runs -> ProcStates]
        /\ \A q \in Runs : rProc'[q] = rProc[q] \/ (Up(q) /\ rProc'[q] = "killed")
    BY <1>5 DEF KillProcess, IInv, TypeOK, RunTypeOK, ProcStates, Up
  <2>4. \A d \in Callers : cPend'[d] \subseteq cPend[d] \cup Attached
    BY <1>5 DEF KillProcess, IInv, TypeOK, CallTypeOK
  <2>5. abandoned' \subseteq Runs
    BY <1>5 DEF KillProcess, IInv, TypeOK
  <2>6. QED
    BY <1>5, <2>2, <2>3, <2>4, <2>5, CallerMoveKeeps
    DEF KillProcess, IInv, TypeOK, RunTypeOK, MgrTypeOK
<1>6. ASSUME NEW r \in Runs, AwaitDone(c, r) \/ AwaitTimeout(c, r) PROVE IInv'
  <2>1. LeaveAwait(c, r) /\ abandoned' \subseteq Runs
    BY <1>6 DEF AwaitDone, AwaitTimeout, IInv, TypeOK
  <2>2. cPc' \in [Callers -> CallPcs] /\ cOp' \in [Callers -> Procedures]
    BY <2>1, GotoTypes DEF LeaveAwait, AfterAwait, IInv, TypeOK, CallPcs, Procedures
  <2>3. CallTypeOK'
    BY <2>1, <2>2 DEF LeaveAwait, IInv, TypeOK, CallTypeOK
  <2>4. QED
    BY <2>1, <2>3, CallerMoveKeeps DEF LeaveAwait, IInv, TypeOK, RunTypeOK, MgrTypeOK
<1>7. QED
  BY <1>1, <1>2, <1>3, <1>4, <1>5, <1>6 DEF CallStep

-----------------------------------------------------------------------------
(* The theorems.                                                           *)

\* The invariant holds before the first command.
LEMMA IInvInit == Init => IInv
<1> SUFFICES ASSUME Init PROVE IInv
  OBVIOUS
<1> USE PublisherAssumption DEF Init
<1>1. TypeOK
  BY DEF TypeOK, MgrTypeOK, WorkerTypeOK, RunTypeOK, CallTypeOK, RunPcs, ProcStates,
         Statuses, CallPcs, Procedures
<1>2. Attached = {}
  BY DEF Attached
<1>3. QED
  BY <1>1, <1>2 DEF IInv, OneRunPerWorker, Unfinished, ProcessIsAwaited, Up,
                    TableMatchesConfig, UsedWorkersHaveKeys, FreeWorkers

\* Every step of the program and of the processes keeps the invariant.
LEMMA IInvNext == IInv /\ [Next]_vars => IInv'
<1> SUFFICES ASSUME IInv, [Next]_vars PROVE IInv'
  OBVIOUS
<1>1. ASSUME NEW c \in Callers, Command(c) PROVE IInv'
  BY <1>1, InitPublisherKeeps, StartPublisherKeeps, CommandBeginsKeeps DEF Command
<1>2. ASSUME NEW c \in Callers, CallStep(c) PROVE IInv'
  BY <1>2, CallStepKeeps
<1>3. ASSUME NEW r \in Runs, RunStep(r) PROVE IInv'
  BY <1>3, RunStepKeeps
<1>4. ASSUME NEW r \in Runs, MonitorKill(r) \/ ProcStalls(r) \/ ProcExits(r) PROVE IInv'
  BY <1>4, ProcStepKeeps
<1>5. CASE UNCHANGED vars
  BY <1>5 DEF vars, mgrVars, workerVars, runVars, callVars, IInv, TypeOK, MgrTypeOK,
              WorkerTypeOK, RunTypeOK, CallTypeOK, OneRunPerWorker, Unfinished,
              ProcessIsAwaited, Up, TableMatchesConfig, UsedWorkersHaveKeys,
              FreeWorkers, Attached
<1>6. QED
  BY <1>1, <1>2, <1>3, <1>4, <1>5 DEF Next, Program, Environment

\* The inductive invariant holds in every reachable state of the publisher, for
\* any numbers of targets, callers, worker objects and runs.
THEOREM Invariance == Spec => []IInv
BY IInvInit, IInvNext, PTL DEF Spec

\* Every variable has its type: no run without a receiver, no channel that is
\* handed out before startLocked made it.
THEOREM TypeCorrect == Spec => []TypeOK
<1>1. IInv => TypeOK
  BY DEF IInv
<1>2. QED
  BY <1>1, Invariance, PTL

\* Whatever commands overlap, a worker object has at most one run loop, and is
\* marked running exactly while it has one (startLocked, runLoop's defer).
THEOREM RunOwnership == Spec => []OneRunPerWorker
<1>1. IInv => OneRunPerWorker
  BY DEF IInv
<1>2. QED
  BY <1>1, Invariance, PTL

\* runLoop never moves on, retries or ends over a process it has not waited for.
THEOREM NoOrphanProcess == Spec => []ProcessIsAwaited
<1>1. IInv => ProcessIsAwaited
  BY DEF IInv
<1>2. QED
  BY <1>1, Invariance, PTL

\* Init and Start leave in the table exactly the workers the configuration asks
\* for, each under its own key, from any configuration to any other.
THEOREM TableFollowsConfig == Spec => []TableMatchesConfig
<1>1. IInv => TableMatchesConfig
  BY DEF IInv
<1>2. QED
  BY <1>1, Invariance, PTL

-----------------------------------------------------------------------------
(* The publisher manager implements WorkerSupervisor: the step simulation.  *)

\* What WorkerSupervisor sees of one worker.
SameWorker(w) ==
  PhaseOf(w)' = PhaseOf(w) /\ CommittedOf(w)' = CommittedOf(w) /\ UpOf(w)' = UpOf(w)

\* A step that no worker shows is a stutter of the supervisor.
LEMMA InvisibleStep ==
  ASSUME \A w \in Workers : SameWorker(w)
  PROVE  UNCHANGED Supervisor!supervisorVars
BY DEF SameWorker, Supervisor!supervisorVars

\* A step that leaves the fields of the workers and of their runs alone.
LEMMA SameFields ==
  ASSUME UNCHANGED <<wRunning, wRun, rPc, rStop>>,
         \A r \in Runs : (Up(r) \/ rProc[r] = "dead")' = (Up(r) \/ rProc[r] = "dead"),
         IInv
  PROVE  UNCHANGED Supervisor!supervisorVars
<1>1. ASSUME NEW w \in Workers PROVE SameWorker(w)
  <2>1. wRunning[w] => wRun[w] \in Runs
    BY DEF IInv, OneRunPerWorker
  <2>2. QED
    BY <2>1 DEF SameWorker, PhaseOf, CommittedOf, UpOf
<1>2. QED
  BY <1>1, InvisibleStep

\* A step of run r shows at most at its own receiver.
LEMMA OthersAreUntouched ==
  ASSUME IInv, NEW r \in Runs, NEW w \in Workers,
         \A v \in Workers \ {w} : wRunning[v] => wRun[v] # r,
         UNCHANGED wRun, \A v \in Workers \ {w} : wRunning'[v] = wRunning[v],
         \A q \in Runs \ {r} : rPc'[q] = rPc[q] /\ rStop'[q] = rStop[q] /\ rProc'[q] = rProc[q]
  PROVE  \A v \in Workers \ {w} : SameWorker(v)
<1> SUFFICES ASSUME NEW v \in Workers \ {w} PROVE SameWorker(v)
  OBVIOUS
<1>1. CASE ~wRunning[v]
  BY <1>1 DEF SameWorker, PhaseOf, CommittedOf, UpOf
<1>2. CASE wRunning[v]
  <2>1. wRun[v] \in Runs \ {r}
    BY <1>2 DEF IInv, OneRunPerWorker
  <2>2. QED
    BY <1>2, <2>1 DEF SameWorker, PhaseOf, CommittedOf, UpOf, Up
<1>3. QED
  BY <1>1, <1>2

\* Starting a set of workers is Begin, or nothing if all of them are running.
LEMMA StartWorkersBegins ==
  ASSUME IInv, NEW S \in SUBSET Workers, StartWorkers(S)
  PROVE  [Supervisor!Next]_(Supervisor!supervisorVars)
<1> DEFINE idle == {w \in S : ~StartIgnored(w)}
<1>1. PICK f \in Injections(idle, FreeRuns) :
        /\ wRunning' = [w \in Workers |-> w \in idle \/ wRunning[w]]
        /\ wRun' = [w \in Workers |-> IF w \in idle THEN f[w] ELSE wRun[w]]
        /\ rPc' = [r \in Runs |-> IF r \in {f[w] : w \in idle} THEN "top" ELSE rPc[r]]
        /\ rStop' = [r \in Runs |-> r \notin {f[w] : w \in idle} /\ rStop[r]]
        /\ rProc' = [r \in Runs |-> IF r \in {f[w] : w \in idle} THEN "none" ELSE rProc[r]]
  BY DEF StartWorkers
<1> DEFINE new == {f[w] : w \in idle}
<1>2. /\ idle \subseteq Workers
      /\ \A w \in idle : ~wRunning[w] /\ f[w] \in new
      /\ new \subseteq Runs
      /\ \A r \in new : ~Unfinished(r)
  BY DEF Injections, StartIgnored, FreeRuns, Unfinished
<1>3. ASSUME NEW w \in idle
      PROVE  /\ PhaseOf(w) = "idle" /\ PhaseOf(w)' = "active"
             /\ ~CommittedOf(w) /\ ~CommittedOf(w)' /\ ~UpOf(w) /\ ~UpOf(w)'
  <2>1. w \in Workers /\ ~wRunning[w] /\ wRun'[w] = f[w] /\ f[w] \in Runs
    BY <1>1, <1>2
  <2>2. wRunning'[w]
    BY <1>1, <2>1
  <2>3. rPc'[f[w]] = "top" /\ rProc'[f[w]] = "none"
    BY <1>1, <1>2
  <2>4. ~rStop'[f[w]]
    BY <1>1, <1>2
  <2>5. QED
    BY <2>1, <2>2, <2>3, <2>4 DEF PhaseOf, CommittedOf, UpOf, Up
<1>4. ASSUME NEW w \in Workers \ idle PROVE SameWorker(w)
  <2>1. wRunning'[w] = wRunning[w] /\ wRun'[w] = wRun[w]
    <3>1. wRunning[w] \in BOOLEAN
      BY DEF IInv, TypeOK, WorkerTypeOK
    <3>2. wRunning'[w] = wRunning[w]
      BY <1>1, <3>1
    <3>3. QED
      BY <1>1, <3>2
  <2>2. CASE ~wRunning[w]
    BY <2>1, <2>2 DEF SameWorker, PhaseOf, CommittedOf, UpOf
  <2>3. CASE wRunning[w]
    <3>1. wRun[w] \in Runs \ new
      BY <1>2, <2>3 DEF IInv, OneRunPerWorker
    <3>2. rPc'[wRun[w]] = rPc[wRun[w]] /\ rProc'[wRun[w]] = rProc[wRun[w]]
      BY <1>1, <3>1
    <3>3. rStop'[wRun[w]] = rStop[wRun[w]]
      <4>1. rStop[wRun[w]] \in BOOLEAN
        BY <3>1 DEF IInv, TypeOK, RunTypeOK
      <4>2. QED
        BY <1>1, <3>1, <4>1
    <3>4. QED
      BY <2>1, <2>3, <3>2, <3>3 DEF SameWorker, PhaseOf, CommittedOf, UpOf, Up
  <2>4. QED
    BY <2>2, <2>3
<1>5. CASE idle = {}
  BY <1>4, <1>5, InvisibleStep
<1>6. CASE idle # {}
  <2>1. \A w \in Workers : CommittedOf(w)' = CommittedOf(w) /\ UpOf(w)' = UpOf(w)
    <3>1. \A w \in Workers : CommittedOf(w)' \in BOOLEAN /\ CommittedOf(w) \in BOOLEAN
                             /\ UpOf(w)' \in BOOLEAN /\ UpOf(w) \in BOOLEAN
      BY StartWorkersKeeps DEF IInv, TypeOK, WorkerTypeOK, CommittedOf, UpOf
    <3>2. QED
      BY <1>2, <1>3, <1>4, <3>1 DEF SameWorker
  <2>2. \A w \in Workers : PhaseOf(w)' = IF w \in idle THEN "active" ELSE PhaseOf(w)
    BY <1>3, <1>4 DEF SameWorker
  <2>3. Supervisor!Begin(idle)
    BY <1>2, <1>3, <1>6, <2>1, <2>2 DEF Supervisor!Begin
  <2>4. QED
    BY <1>2, <2>3 DEF Supervisor!Next
<1>7. QED
  BY <1>5, <1>6

-----------------------------------------------------------------------------
(* Steps of a run, seen at its receiver.                                   *)

\* Where run r stands, its receiver w shows it, and no other worker does.
LEMMA OwnerShows ==
  ASSUME IInv, NEW r \in Runs, Unfinished(r), NEW w \in Workers, w = rWorker[r]
  PROVE  /\ w \in Workers /\ wRunning[w] /\ wRun[w] = r
         /\ PhaseOf(w) = (IF rStop[r] THEN "stopping" ELSE "active")
         /\ CommittedOf(w) <=> (rPc[r] \in {"build", "launch"})
         /\ UpOf(w) <=> (Up(r) \/ rProc[r] = "dead")
         /\ \A v \in Workers \ {w} : wRunning[v] => wRun[v] # r
<1>1. w \in Workers /\ wRunning[w] /\ wRun[w] = r
  BY ReceiverOfRun
<1>2. \A v \in Workers \ {w} : wRunning[v] => wRun[v] # r
  BY DEF IInv, OneRunPerWorker
<1>3. QED
  BY <1>1, <1>2 DEF PhaseOf, CommittedOf, UpOf

\* A step of r within its loop: the receiver shows the new place and process.
LEMMA RunMoves ==
  ASSUME IInv, NEW r \in Runs, Unfinished(r), NEW w \in Workers, w = rWorker[r],
         NEW pc \in RunPcs, RunGoto(r, pc),
         UNCHANGED <<wRunning, wRun, rStop>>,
         \A q \in Runs \ {r} : rProc'[q] = rProc[q]
  PROVE  /\ \A v \in Workers \ {w} : SameWorker(v)
         /\ w \in Workers /\ wRunning[w] \in BOOLEAN /\ wRunning'[w] \in BOOLEAN
         /\ PhaseOf(w)' = PhaseOf(w) /\ PhaseOf(w) = (IF rStop[r] THEN "stopping" ELSE "active")
         /\ CommittedOf(w) <=> (rPc[r] \in {"build", "launch"})
         /\ CommittedOf(w)' <=> (pc \in {"build", "launch"})
         /\ UpOf(w) <=> (Up(r) \/ rProc[r] = "dead")
         /\ UpOf(w)' <=> (Up(r) \/ rProc[r] = "dead")'
<1>0. /\ wRunning[w] \in BOOLEAN /\ wRunning'[w] \in BOOLEAN
  BY DEF IInv, TypeOK, WorkerTypeOK
<1>1. /\ w \in Workers /\ wRunning[w] /\ wRun[w] = r
      /\ PhaseOf(w) = (IF rStop[r] THEN "stopping" ELSE "active")
      /\ CommittedOf(w) <=> (rPc[r] \in {"build", "launch"})
      /\ UpOf(w) <=> (Up(r) \/ rProc[r] = "dead")
      /\ \A v \in Workers \ {w} : wRunning[v] => wRun[v] # r
  BY OwnerShows
<1>2. rPc'[r] = pc /\ \A q \in Runs \ {r} : rPc'[q] = rPc[q]
  BY DEF RunGoto, IInv, TypeOK, RunTypeOK
<1>3. \A v \in Workers \ {w} : SameWorker(v)
  BY <1>1, <1>2, OthersAreUntouched
<1>4. /\ PhaseOf(w)' = PhaseOf(w)
      /\ CommittedOf(w)' <=> (pc \in {"build", "launch"})
      /\ UpOf(w)' <=> (Up(r) \/ rProc[r] = "dead")'
  BY <1>1, <1>2 DEF PhaseOf, CommittedOf, UpOf
<1>5. QED
  BY <1>0, <1>1, <1>3, <1>4

\* What a worker shows is Boolean.
LEMMA ShownIsBoolean ==
  ASSUME NEW w \in Workers, wRunning[w] \in BOOLEAN, wRunning'[w] \in BOOLEAN
  PROVE  /\ CommittedOf(w) \in BOOLEAN /\ CommittedOf(w)' \in BOOLEAN
         /\ UpOf(w) \in BOOLEAN /\ UpOf(w)' \in BOOLEAN
BY DEF CommittedOf, UpOf

\* Pointwise facts about all workers, as the supervisor's actions state them.
LEMMA SupervisorStep ==
  ASSUME NEW w \in Workers, \A v \in Workers \ {w} : SameWorker(v),
         PhaseOf(w)' = PhaseOf(w), wRunning[w] \in BOOLEAN, wRunning'[w] \in BOOLEAN
  PROVE  /\ ~CommittedOf(w) /\ CommittedOf(w)' /\ ~UpOf(w) /\ ~UpOf(w)'
              /\ PhaseOf(w) = "active" => Supervisor!Commit(w)
         /\ CommittedOf(w) /\ ~CommittedOf(w)' /\ ~UpOf(w) /\ UpOf(w)'
              => Supervisor!Spawn(w)
         /\ CommittedOf(w) /\ ~CommittedOf(w)' /\ (UpOf(w)' <=> UpOf(w))
              => Supervisor!LaunchFails(w)
         /\ (CommittedOf(w)' <=> CommittedOf(w)) /\ UpOf(w) /\ ~UpOf(w)' => Supervisor!Reap(w)
         /\ (CommittedOf(w)' <=> CommittedOf(w)) /\ (UpOf(w)' <=> UpOf(w))
              => UNCHANGED Supervisor!supervisorVars
<1> DEFINE ph == [v \in Workers |-> PhaseOf(v)]
           co == [v \in Workers |-> CommittedOf(v)]
           up == [v \in Workers |-> UpOf(v)]
<1>1. /\ ph' = ph
      /\ co' = [co EXCEPT ![w] = CommittedOf(w)']
      /\ up' = [up EXCEPT ![w] = UpOf(w)']
  BY DEF SameWorker
<1>2. /\ (CommittedOf(w)' <=> CommittedOf(w)) => co' = co
      /\ (UpOf(w)' <=> UpOf(w)) => up' = up
  BY ShownIsBoolean DEF SameWorker
<1>3. /\ CommittedOf(w)' => co' = [co EXCEPT ![w] = TRUE]
      /\ ~CommittedOf(w)' => co' = [co EXCEPT ![w] = FALSE]
      /\ UpOf(w)' => up' = [up EXCEPT ![w] = TRUE]
      /\ ~UpOf(w)' => up' = [up EXCEPT ![w] = FALSE]
  BY <1>1, ShownIsBoolean
<1>4. co[w] = CommittedOf(w) /\ up[w] = UpOf(w) /\ ph[w] = PhaseOf(w)
  OBVIOUS
<1>5. QED
  BY <1>1, <1>2, <1>3, <1>4
  DEF Supervisor!Commit, Supervisor!Spawn, Supervisor!LaunchFails, Supervisor!Reap,
      Supervisor!supervisorVars

\* A step of a run's goroutine is a step of the supervisor or invisible to it.
LEMMA RunStepSimulates ==
  ASSUME IInv, NEW r \in Runs, RunStep(r)
  PROVE  [Supervisor!Next]_(Supervisor!supervisorVars)
<1>0. PICK w \in Workers : w = rWorker[r]
  <2>1. Unfinished(r)
    BY DEF RunStep, RunTop, RunPoll, RunBuild, RunLaunch, RunRegister, RunWait, RunAfter,
           RunAfterPoll, RunBackoff, RunSleep, RunExit, At, Unfinished
  <2>2. QED
    BY <2>1, ReceiverOfRun
<1> USE DEF At, workerVars, mgrVars, OnlyRunMoves
<1>1. CASE \/ RunTop(r) /\ ~IsPaused(r)
           \/ RunPoll(r) /\ rStop[r]
           \/ RunRegister(r) \/ RunAfter(r) \/ RunAfterPoll(r) \/ RunBackoff(r) \/ RunSleep(r)
           \/ RunTop(r) /\ IsPaused(r)
           \/ RunBuild(r)
  <2>1. PICK pc \in RunPcs :
                  /\ RunGoto(r, pc)
                  /\ pc \in {"build", "launch"} <=> rPc[r] \in {"build", "launch"}
                  /\ Unfinished(r)
                  /\ UNCHANGED <<wRunning, wRun, rStop, rProc>>
    BY <1>1 DEF RunTop, RunPoll, RunRegister, RunAfter, RunAfterPoll, RunBackoff,
                RunSleep, RunBuild, RunPcs, Unfinished
  <2>2. /\ \A v \in Workers \ {w} : SameWorker(v)
        /\ w \in Workers /\ wRunning[w] \in BOOLEAN /\ wRunning'[w] \in BOOLEAN
        /\ PhaseOf(w)' = PhaseOf(w)
        /\ (CommittedOf(w)' <=> CommittedOf(w)) /\ (UpOf(w)' <=> UpOf(w))
    <3>1. (Up(r) \/ rProc[r] = "dead")' = (Up(r) \/ rProc[r] = "dead")
      BY <2>1 DEF Up
    <3>2. QED
      BY <1>0, <2>1, <3>1, RunMoves
  <2>3. QED
    BY <2>2, SupervisorStep
<1>2. CASE RunPoll(r) /\ ~rStop[r]
  <2>1. /\ "build" \in RunPcs /\ RunGoto(r, "build") /\ rPc[r] = "poll" /\ Unfinished(r)
        /\ UNCHANGED <<wRunning, wRun, rStop, rProc>>
        /\ ~(Up(r) \/ rProc[r] = "dead") /\ ~(Up(r) \/ rProc[r] = "dead")'
    BY <1>2, NoProcessElsewhere DEF RunPoll, Up, Unfinished, RunPcs
  <2>2. /\ \A v \in Workers \ {w} : SameWorker(v)
        /\ w \in Workers /\ wRunning[w] \in BOOLEAN /\ wRunning'[w] \in BOOLEAN
        /\ PhaseOf(w)' = PhaseOf(w) /\ PhaseOf(w) = "active"
        /\ ~CommittedOf(w) /\ CommittedOf(w)'
        /\ ~UpOf(w) /\ ~UpOf(w)'
    <3>1. /\ \A v \in Workers \ {w} : SameWorker(v)
          /\ wRunning[w] \in BOOLEAN /\ wRunning'[w] \in BOOLEAN
          /\ PhaseOf(w)' = PhaseOf(w) /\ PhaseOf(w) = (IF rStop[r] THEN "stopping" ELSE "active")
          /\ CommittedOf(w) <=> (rPc[r] \in {"build", "launch"})
          /\ CommittedOf(w)' <=> ("build" \in {"build", "launch"})
          /\ UpOf(w) <=> (Up(r) \/ rProc[r] = "dead")
          /\ UpOf(w)' <=> (Up(r) \/ rProc[r] = "dead")'
      BY <1>0, <2>1, RunMoves
    <3>2. QED
      BY <1>2, <2>1, <3>1
  <2>3. Supervisor!Commit(w)
    BY <2>2, SupervisorStep
  <2>4. QED
    BY <2>2, <2>3 DEF Supervisor!Next
<1>3. CASE RunLaunch(r)
  <2>1. PICK pc \in {"register", "backoff"} :
          /\ RunGoto(r, pc)
          /\ pc = "register" => rProc' = [rProc EXCEPT ![r] = "live"]
          /\ pc = "backoff" => rProc' = rProc
    BY <1>3 DEF RunLaunch
  <2>2. /\ rPc[r] = "launch" /\ Unfinished(r) /\ pc \in RunPcs
        /\ UNCHANGED <<wRunning, wRun, rStop>>
        /\ \A q \in Runs \ {r} : rProc'[q] = rProc[q]
        /\ ~(Up(r) \/ rProc[r] = "dead")
    BY <1>3, <2>1, NoProcessElsewhere DEF RunLaunch, IInv, TypeOK, RunTypeOK, Unfinished, RunPcs
  <2>3. /\ pc = "register" => (Up(r) \/ rProc[r] = "dead")'
        /\ pc = "backoff" => ~(Up(r) \/ rProc[r] = "dead")'
    BY <2>1, <2>2 DEF Up, IInv, TypeOK, RunTypeOK
  <2>4. /\ \A v \in Workers \ {w} : SameWorker(v)
        /\ w \in Workers /\ wRunning[w] \in BOOLEAN /\ wRunning'[w] \in BOOLEAN
        /\ PhaseOf(w)' = PhaseOf(w)
        /\ CommittedOf(w) /\ ~CommittedOf(w)'
        /\ ~UpOf(w) /\ (UpOf(w)' <=> pc = "register")
    <3>1. /\ \A v \in Workers \ {w} : SameWorker(v)
          /\ wRunning[w] \in BOOLEAN /\ wRunning'[w] \in BOOLEAN
          /\ PhaseOf(w)' = PhaseOf(w) /\ PhaseOf(w) = (IF rStop[r] THEN "stopping" ELSE "active")
          /\ CommittedOf(w) <=> (rPc[r] \in {"build", "launch"})
          /\ CommittedOf(w)' <=> (pc \in {"build", "launch"})
          /\ UpOf(w) <=> (Up(r) \/ rProc[r] = "dead")
          /\ UpOf(w)' <=> (Up(r) \/ rProc[r] = "dead")'
      BY <1>0, <2>1, <2>2, RunMoves
    <3>2. QED
      BY <2>1, <2>2, <2>3, <3>1
  <2>5. Supervisor!Spawn(w) \/ Supervisor!LaunchFails(w)
    BY <2>1, <2>4, SupervisorStep
  <2>6. QED
    BY <2>4, <2>5 DEF Supervisor!Next
<1>4. CASE RunWait(r)
  <2>1. /\ "after" \in RunPcs /\ RunGoto(r, "after") /\ rPc[r] = "wait" /\ Unfinished(r)
        /\ UNCHANGED <<wRunning, wRun, rStop>>
        /\ rProc[r] = "dead" /\ rProc' = [rProc EXCEPT ![r] = "reaped"]
    BY <1>4 DEF RunWait, Unfinished, RunPcs
  <2>2. /\ \A q \in Runs \ {r} : rProc'[q] = rProc[q]
        /\ ~(Up(r) \/ rProc[r] = "dead")'
    BY <2>1 DEF Up, IInv, TypeOK, RunTypeOK
  <2>3. /\ \A v \in Workers \ {w} : SameWorker(v)
        /\ w \in Workers /\ wRunning[w] \in BOOLEAN /\ wRunning'[w] \in BOOLEAN
        /\ PhaseOf(w)' = PhaseOf(w)
        /\ ~CommittedOf(w) /\ ~CommittedOf(w)'
        /\ UpOf(w) /\ ~UpOf(w)'
    <3>1. /\ \A v \in Workers \ {w} : SameWorker(v)
          /\ wRunning[w] \in BOOLEAN /\ wRunning'[w] \in BOOLEAN
          /\ PhaseOf(w)' = PhaseOf(w) /\ PhaseOf(w) = (IF rStop[r] THEN "stopping" ELSE "active")
          /\ CommittedOf(w) <=> (rPc[r] \in {"build", "launch"})
          /\ CommittedOf(w)' <=> ("after" \in {"build", "launch"})
          /\ UpOf(w) <=> (Up(r) \/ rProc[r] = "dead")
          /\ UpOf(w)' <=> (Up(r) \/ rProc[r] = "dead")'
      BY <1>0, <2>1, <2>2, RunMoves
    <3>2. QED
      BY <2>1, <2>2, <3>1
  <2>4. Supervisor!Reap(w)
    BY <2>3, SupervisorStep
  <2>5. QED
    BY <2>3, <2>4 DEF Supervisor!Next
<1>5. CASE RunExit(r)
  <2>1. /\ rPc[r] = "exit" /\ Unfinished(r)
        /\ wRunning' = [wRunning EXCEPT ![w] = FALSE]
        /\ RunGoto(r, "done")
        /\ UNCHANGED <<wRun, rStop, rProc>>
        /\ ~(Up(r) \/ rProc[r] = "dead")
    BY <1>0, <1>5, NoProcessElsewhere DEF RunExit, ClearRunning, Unfinished
  <2>2. /\ w \in Workers /\ PhaseOf(w) \in {"active", "stopping"}
        /\ ~CommittedOf(w) /\ ~UpOf(w)
        /\ \A v \in Workers \ {w} : wRunning[v] => wRun[v] # r
    <3>1. /\ PhaseOf(w) = (IF rStop[r] THEN "stopping" ELSE "active")
          /\ CommittedOf(w) <=> (rPc[r] \in {"build", "launch"})
          /\ UpOf(w) <=> (Up(r) \/ rProc[r] = "dead")
          /\ \A v \in Workers \ {w} : wRunning[v] => wRun[v] # r
      BY <1>0, <2>1, OwnerShows
    <3>2. QED
      BY <2>1, <3>1
  <2>3. /\ ~wRunning'[w] /\ \A v \in Workers \ {w} : wRunning'[v] = wRunning[v]
        /\ \A q \in Runs \ {r} : rPc'[q] = rPc[q]
    BY <2>1, <2>2 DEF RunGoto, IInv, TypeOK, WorkerTypeOK, RunTypeOK
  <2>4. \A v \in Workers \ {w} : SameWorker(v)
    BY <2>1, <2>2, <2>3, OthersAreUntouched
  <2>5. PhaseOf(w)' = "idle" /\ ~CommittedOf(w)' /\ ~UpOf(w)'
    BY <2>2, <2>3 DEF PhaseOf, CommittedOf, UpOf
  <2>6. Supervisor!Finish(w)
    <3>1. CommittedOf(w)' = CommittedOf(w) /\ UpOf(w)' = UpOf(w)
      <4>1. wRunning[w] \in BOOLEAN /\ wRunning'[w] \in BOOLEAN
        BY <2>1, <2>2 DEF IInv, TypeOK, WorkerTypeOK
      <4>2. QED
        BY <2>2, <2>5, <4>1, ShownIsBoolean
    <3>2. QED
      BY <2>2, <2>4, <2>5, <3>1 DEF Supervisor!Finish, SameWorker
  <2>7. QED
    BY <2>2, <2>6 DEF Supervisor!Next
<1>6. QED
  BY <1>1, <1>2, <1>3, <1>4, <1>5 DEF RunStep

-----------------------------------------------------------------------------
(* Steps of callers and processes.                                         *)

\* close(stopCh) of a run that is not finished tells its receiver to stop.
LEMMA CloseSimulates ==
  ASSUME IInv, NEW c \in Callers, NEW r \in Runs, CloseStopCh(c, r)
  PROVE  [Supervisor!Next]_(Supervisor!supervisorVars)
<1>1. /\ UNCHANGED <<wRunning, wRun, rPc, rProc>>
      /\ IF rStop[r] THEN UNCHANGED rStop ELSE rStop' = [rStop EXCEPT ![r] = TRUE]
  BY DEF CloseStopCh, workerVars
<1>2. \A q \in Runs : (Up(q) \/ rProc[q] = "dead")' = (Up(q) \/ rProc[q] = "dead")
  BY <1>1 DEF Up
<1>3. CASE rStop[r]
  BY <1>1, <1>2, <1>3, SameFields
<1>4. CASE ~rStop[r]
  <2>1. /\ rStop'[r] = TRUE /\ \A q \in Runs \ {r} : rStop'[q] = rStop[q]
    BY <1>1, <1>4 DEF IInv, TypeOK, RunTypeOK
  <2>2. CASE ~Unfinished(r)
    <3>1. ASSUME NEW v \in Workers PROVE SameWorker(v)
      <4>1. wRunning[v] => wRun[v] \in Runs \ {r}
        BY <2>2 DEF IInv, OneRunPerWorker
      <4>2. QED
        BY <1>1, <1>2, <2>1, <4>1 DEF SameWorker, PhaseOf, CommittedOf, UpOf
    <3>2. QED
      BY <3>1, InvisibleStep
  <2>3. CASE Unfinished(r)
    <3>0. PICK w \in Workers : w = rWorker[r]
      BY <2>3, ReceiverOfRun
    <3>1. /\ w \in Workers /\ wRunning[w] /\ wRun[w] = r /\ PhaseOf(w) = "active"
          /\ \A v \in Workers \ {w} : wRunning[v] => wRun[v] # r
      BY <1>4, <2>3, <3>0, OwnerShows
    <3>2. \A v \in Workers \ {w} : SameWorker(v)
      BY <1>1, <2>1, <3>1, OthersAreUntouched
    <3>3. PhaseOf(w)' = "stopping" /\ CommittedOf(w)' = CommittedOf(w) /\ UpOf(w)' = UpOf(w)
      BY <1>1, <1>2, <2>1, <3>1 DEF PhaseOf, CommittedOf, UpOf
    <3>4. Supervisor!TellToStop(w)
      BY <3>1, <3>2, <3>3 DEF Supervisor!TellToStop, SameWorker
    <3>5. QED
      BY <3>1, <3>4 DEF Supervisor!Next
  <2>4. QED
    BY <2>2, <2>3
<1>5. QED
  BY <1>3, <1>4

\* So is every step of a command after its first.
LEMMA CallStepSimulates ==
  ASSUME IInv, NEW c \in Callers, CallStep(c)
  PROVE  [Supervisor!Next]_(Supervisor!supervisorVars)
<1>1. ASSUME NEW w \in Workers, ResumeWorker(c, w)
      PROVE  [Supervisor!Next]_(Supervisor!supervisorVars)
  BY <1>1, StartWorkersBegins DEF ResumeWorker
<1>2. ASSUME NEW w \in Workers, StopWorker(c, w)
      PROVE  UNCHANGED Supervisor!supervisorVars
  BY <1>2, SameFields DEF StopWorker, workerVars, runVars, Up
<1>3. CASE LoopEnds(c)
  BY <1>3, SameFields DEF LoopEnds, workerVars, runVars, Up
<1>4. ASSUME NEW r \in Runs, CloseStopCh(c, r)
      PROVE  [Supervisor!Next]_(Supervisor!supervisorVars)
  BY <1>4, CloseSimulates
<1>5. ASSUME NEW r \in Runs, KillProcess(c, r)
      PROVE  UNCHANGED Supervisor!supervisorVars
  <2>1. \A q \in Runs : (Up(q) \/ rProc[q] = "dead")' = (Up(q) \/ rProc[q] = "dead")
    BY <1>5 DEF KillProcess, IInv, TypeOK, RunTypeOK, Up
  <2>2. QED
    BY <1>5, <2>1, SameFields DEF KillProcess, workerVars
<1>6. ASSUME NEW r \in Runs, AwaitDone(c, r) \/ AwaitTimeout(c, r)
      PROVE  UNCHANGED Supervisor!supervisorVars
  BY <1>6, SameFields DEF AwaitDone, AwaitTimeout, LeaveAwait, workerVars, runVars, Up
<1>7. QED
  BY <1>1, <1>2, <1>3, <1>4, <1>5, <1>6 DEF CallStep

\* So is the first step of every command.
LEMMA CommandSimulates ==
  ASSUME IInv, NEW c \in Callers, Command(c)
  PROVE  [Supervisor!Next]_(Supervisor!supervisorVars)
<1>1. CASE StartFFmpegPublisher(c)
  <2> DEFINE keys == IF cfg = None \/ ActiveTargets = {} THEN {}
                     ELSE IF Shared(cfg) THEN {SHARED} ELSE ActiveTargets
  <2>1. EnsureWorkers(keys, {}) /\ StartWorkers({workers'[k] : k \in keys})
    BY <1>1 DEF StartFFmpegPublisher
  <2>2. keys \in SUBSET Keys /\ {} \in SUBSET Keys /\ keys \cap {} = {}
    BY DEF ActiveTargets, ConfTargets, Keys, IInv, TypeOK, MgrTypeOK, Config
  <2>3. {workers'[k] : k \in keys} \subseteq Workers
    <3> HIDE DEF keys
    <3>1. QED
      BY <2>1, <2>2, EnsureWorkersKeeps
  <2>4. PICK S \in SUBSET Workers : StartWorkers(S)
    BY <2>1, <2>3
  <2>5. QED
    BY <2>4, StartWorkersBegins
<1>2. CASE ~StartFFmpegPublisher(c)
  <2>1. UNCHANGED <<wRunning, wRun, rPc, rStop, rProc>>
    BY <1>2 DEF Command, InitFFmpegPublisher, StopFFmpegPublisher, PauseFFmpegPublisher,
                ResumeFFmpegPublisher, PauseFFmpegPublisherByURL,
                ResumeFFmpegPublisherByURL, ByURL, workerVars, runVars
  <2>2. QED
    BY <2>1, SameFields DEF Up
<1>3. QED
  BY <1>1, <1>2

-----------------------------------------------------------------------------

\* Every step of the publisher maps to a step of the supervisor or a stutter.
LEMMA NextSimulates ==
  ASSUME IInv, [Next]_vars
  PROVE  [Supervisor!Next]_(Supervisor!supervisorVars)
<1>1. ASSUME NEW c \in Callers, Command(c) \/ CallStep(c)
      PROVE  [Supervisor!Next]_(Supervisor!supervisorVars)
  BY <1>1, CommandSimulates, CallStepSimulates
<1>2. ASSUME NEW r \in Runs, RunStep(r)
      PROVE  [Supervisor!Next]_(Supervisor!supervisorVars)
  BY <1>2, RunStepSimulates
<1>3. ASSUME NEW r \in Runs, MonitorKill(r) \/ ProcStalls(r) \/ ProcExits(r)
      PROVE  UNCHANGED Supervisor!supervisorVars
  <2>1. \A q \in Runs : (Up(q) \/ rProc[q] = "dead")' = (Up(q) \/ rProc[q] = "dead")
    BY <1>3 DEF MonitorKill, ProcStalls, ProcExits, IInv, TypeOK, RunTypeOK, Up
  <2>2. QED
    BY <1>3, <2>1, SameFields
    DEF MonitorKill, ProcStalls, ProcExits, OnlyProcMoves, workerVars
<1>4. CASE UNCHANGED vars
  BY <1>4, SameFields DEF vars, workerVars, runVars, Up
<1>5. QED
  BY <1>1, <1>2, <1>3, <1>4 DEF Next, Program, Environment

\* The publisher implements the supervisor: for any number of targets, callers and
\* workers a worker has at most one process, is idle only without one, and launches
\* at most once after it was told to stop (runLoop and its callers).
THEOREM ImplementsSupervisor == Spec => SupervisorSpec
<1>1. Init => Supervisor!Init
  BY DEF Init, Supervisor!Init, PhaseOf, CommittedOf, UpOf
<1>2. IInv /\ [Next]_vars => [Supervisor!Next]_(Supervisor!supervisorVars)
  BY NextSimulates
<1>3. QED
  BY <1>1, <1>2, Invariance, PTL DEF Spec, SupervisorSpec, Supervisor!Spec

-----------------------------------------------------------------------------
(***************************************************************************)
(* What the commands achieve, whatever other commands overlap them.        *)
(***************************************************************************)

\* Where a loop is between the pause check at its top and the end of its process.
Going == {"poll", "build", "launch", "register", "wait"}

\* A caller holds channels only while it stops a worker, one worker at a time unless
\* it is Init, and workers to stop or resume only inside the loop over them.
Shape(c) ==
  /\ cPc[c] \notin {"close", "kill", "await"} => cAwait[c] = {}
  /\ cPc[c] # "close" => cClose[c] = {}
  /\ cClose[c] \subseteq cAwait[c]
  /\ cPc[c] \in {"close", "kill"} /\ cOp[c] # "init" => \E r \in Runs : cAwait[c] = {r}
  /\ cPc[c] = "kill" => cOp[c] # "init"
  /\ cPc[c] \in {"idle", "snapshot", "start", "panicked"} => cPend[c] = {}
  /\ cOp[c] = "init" => cPend[c] = {}
  /\ cPc[c] = "snapshot" => cOp[c] \in {"stop", "restart"}
  /\ cPc[c] = "resume" => cOp[c] = "resume"

CallerShape == \A c \in Callers : Shape(c)

-----------------------------------------------------------------------------
(* What the steps do.                                                      *)

\* StartWorkers gives every worker of S that is not running a run nobody refers to,
\* and changes no other worker and no other run.
LEMMA StartWorkersEffect ==
  ASSUME IInv, NEW S \in SUBSET Workers, StartWorkers(S)
  PROVE  \E new \in SUBSET FreeRuns :
           /\ \A r \in new : /\ rPc'[r] = "top" /\ ~rStop'[r]
                             /\ rProc'[r] = "none" /\ rProcs'[r] = 0
                             /\ rWorker'[r] \in S /\ ~wRunning[rWorker'[r]]
           /\ \A r \in Runs \ new : /\ rPc'[r] = rPc[r] /\ rStop'[r] = rStop[r]
                                    /\ rProc'[r] = rProc[r] /\ rProcs'[r] = rProcs[r]
                                    /\ rWorker'[r] = rWorker[r]
           /\ \A w \in Workers : w \in S /\ ~wRunning[w]
                => wRunning'[w] /\ wStatus'[w] = "Starting" /\ wRun'[w] \in new
           /\ \A w \in Workers : ~(w \in S /\ ~wRunning[w])
                => wRunning'[w] = wRunning[w] /\ wStatus'[w] = wStatus[w] /\ wRun'[w] = wRun[w]
           /\ abandoned' = abandoned \ new
           /\ UNCHANGED <<wCmd, rTargets>>
<1> DEFINE idle == {w \in S : ~StartIgnored(w)}
<1>1. PICK f \in Injections(idle, FreeRuns) :
        /\ wRunning' = [w \in Workers |-> w \in idle \/ wRunning[w]]
        /\ wStatus' = [w \in Workers |-> IF w \in idle THEN "Starting" ELSE wStatus[w]]
        /\ wRun' = [w \in Workers |-> IF w \in idle THEN f[w] ELSE wRun[w]]
        /\ rPc' = [r \in Runs |-> IF r \in {f[w] : w \in idle} THEN "top" ELSE rPc[r]]
        /\ rWorker' = [r \in Runs |-> IF r \in {f[w] : w \in idle}
                                      THEN CHOOSE w \in idle : f[w] = r ELSE rWorker[r]]
        /\ rStop' = [r \in Runs |-> r \notin {f[w] : w \in idle} /\ rStop[r]]
        /\ rProc' = [r \in Runs |-> IF r \in {f[w] : w \in idle} THEN "none" ELSE rProc[r]]
        /\ rProcs' = [r \in Runs |-> IF r \in {f[w] : w \in idle} THEN 0 ELSE rProcs[r]]
        /\ abandoned' = abandoned \ {f[w] : w \in idle}
        /\ UNCHANGED <<wCmd, rTargets>>
  BY DEF StartWorkers
<1> DEFINE new == {f[w] : w \in idle}
<1>2. /\ new \subseteq FreeRuns /\ new \subseteq Runs
      /\ \A r \in new : (CHOOSE w \in idle : f[w] = r) \in idle
      /\ \A w \in Workers : w \in idle <=> w \in S /\ ~wRunning[w]
  BY DEF Injections, FreeRuns, StartIgnored
<1>3. \A r \in new : /\ rPc'[r] = "top" /\ ~rStop'[r]
                     /\ rProc'[r] = "none" /\ rProcs'[r] = 0
                     /\ rWorker'[r] \in S /\ ~wRunning[rWorker'[r]]
  BY <1>1, <1>2
<1>4. /\ rStop \in [Runs -> BOOLEAN] /\ wRunning \in [Workers -> BOOLEAN]
  BY DEF IInv, TypeOK, RunTypeOK, WorkerTypeOK
<1>5. \A r \in Runs \ new : /\ rPc'[r] = rPc[r] /\ rProc'[r] = rProc[r]
                            /\ rProcs'[r] = rProcs[r] /\ rWorker'[r] = rWorker[r]
  BY <1>1
<1>6. \A r \in Runs \ new : rStop'[r] = rStop[r]
  BY <1>1, <1>4
<1>7. \A w \in Workers : w \in S /\ ~wRunning[w]
        => wRunning'[w] /\ wStatus'[w] = "Starting" /\ wRun'[w] \in new
  BY <1>1, <1>2
<1>8. \A w \in Workers : ~(w \in S /\ ~wRunning[w])
        => wRunning'[w] = wRunning[w] /\ wStatus'[w] = wStatus[w] /\ wRun'[w] = wRun[w]
  BY <1>1, <1>2, <1>4
<1>9. abandoned' = abandoned \ new /\ UNCHANGED <<wCmd, rTargets>>
  BY <1>1
<1>10. new \in SUBSET FreeRuns
  BY <1>2
<1> HIDE DEF new
<1>11. QED
  BY <1>3, <1>5, <1>6, <1>7, <1>8, <1>9, <1>10

LEMMA StartNothing ==
  ASSUME IInv, StartWorkers({})
  PROVE  \A r \in Runs : rPc'[r] = rPc[r]
<1>1. {} \in SUBSET Workers
  OBVIOUS
<1>2. QED
  BY <1>1, StartWorkersEffect

\* EnsureWorkers puts objects nobody refers to into the table, under keys that had
\* none, and takes none out but those of drop; no other object changes its key.
LEMMA EnsureWorkersEffect ==
  ASSUME IInv, NEW keys \in SUBSET Keys, NEW drop \in SUBSET Keys,
         EnsureWorkers(keys, drop)
  PROVE  \E made \in SUBSET FreeWorkers :
           /\ \A w \in Workers \ made : wKey'[w] = wKey[w]
           /\ \A k \in Keys : \/ workers'[k] = workers[k]
                              \/ k \in drop /\ workers'[k] = None
                              \/ workers[k] = None /\ workers'[k] \in made /\ k \in keys
           /\ Attached' \subseteq Attached \cup made
           /\ made \subseteq Attached'
<1> DEFINE missing == {k \in keys : workers[k] = None}
<1>1. PICK f \in Injections(missing, FreeWorkers) :
        /\ workers' = [k \in Keys |-> IF k \in missing THEN f[k]
                                      ELSE IF k \in drop THEN None ELSE workers[k]]
        /\ wKey' = [w \in Workers |-> IF w \in {f[k] : k \in missing}
                                      THEN CHOOSE k \in missing : f[k] = w ELSE wKey[w]]
  BY DEF EnsureWorkers
<1> DEFINE made == {f[k] : k \in missing}
<1>2. made \subseteq FreeWorkers /\ made \subseteq Workers /\ None \notin made
  BY PublisherAssumption DEF Injections, FreeWorkers
<1>3. \A w \in Workers \ made : wKey'[w] = wKey[w]
  BY <1>1
<1>4. \A k \in Keys : \/ workers'[k] = workers[k]
                      \/ k \in drop /\ workers'[k] = None
                      \/ workers[k] = None /\ workers'[k] \in made /\ k \in keys
  BY <1>1
<1>5. Attached' \subseteq Attached \cup made
  BY <1>4 DEF Attached
<1>6. made \subseteq Attached'
  BY <1>1, <1>2 DEF Attached
<1>7. QED
  BY <1>2, <1>3, <1>4, <1>5, <1>6

\* The workers Start gives a run to: objects that are in the table afterwards, of keys
\* the configuration asks for.
StartKeys == IF cfg = None \/ ActiveTargets = {} THEN {}
             ELSE IF Shared(cfg) THEN {SHARED} ELSE ActiveTargets

LEMMA StartPublisherStarts ==
  ASSUME IInv, NEW c \in Callers, StartFFmpegPublisher(c)
  PROVE  \E S \in SUBSET Workers :
           StartWorkers(S) /\ S = {workers'[k] : k \in StartKeys} /\ S \subseteq Attached'
<1>1. EnsureWorkers(StartKeys, {}) /\ StartWorkers({workers'[k] : k \in StartKeys})
  BY DEF StartFFmpegPublisher, StartKeys
<1>2. StartKeys \in SUBSET Keys /\ {} \in SUBSET Keys /\ StartKeys \cap {} = {}
  BY DEF StartKeys, ActiveTargets, ConfTargets, Keys, IInv, TypeOK, MgrTypeOK, Config
<1>3. /\ workers' \in [Keys -> Workers \cup {None}]
      /\ \A k \in StartKeys : workers'[k] # None
  <2> HIDE DEF StartKeys
  <2>1. QED
    BY <1>1, <1>2, EnsureWorkersKeeps
<1>4. {workers'[k] : k \in StartKeys} \subseteq Workers \cap Attached'
  BY <1>2, <1>3 DEF Attached
<1>5. QED
  BY <1>1, <1>4

\* What a step of a run changes outside its own goroutine is its receiver's state
\* and its own process; it gets past the pause check only if it is not paused.
LEMMA RunStepEffect ==
  ASSUME IInv, NEW r \in Runs, RunStep(r)
  PROVE  /\ UNCHANGED <<mgrVars, wKey, wTargets, wRun, rWorker, rStop, callVars,
                        crashed, abandoned>>
         /\ Unfinished(r)
         /\ \A q \in Runs \ {r} : rPc'[q] = rPc[q]
         /\ rPc'[r] \in Going => rPc[r] \in Going \/ ~IsPaused(r)
<1> USE DEF OnlyRunMoves, workerVars, RunGoto, At, Unfinished, Going
<1>1. rPc \in [Runs -> RunPcs]
  BY DEF IInv, TypeOK, RunTypeOK
<1>2. CASE RunTop(r)
  BY <1>1, <1>2 DEF RunTop
<1>3. CASE RunPoll(r)
  BY <1>1, <1>3 DEF RunPoll
<1>4. CASE RunBuild(r)
  BY <1>1, <1>4 DEF RunBuild
<1>5. CASE RunLaunch(r)
  BY <1>1, <1>5 DEF RunLaunch
<1>6. CASE RunRegister(r)
  BY <1>1, <1>6 DEF RunRegister
<1>7. CASE RunWait(r)
  BY <1>1, <1>7 DEF RunWait
<1>8. CASE RunAfter(r)
  BY <1>1, <1>8 DEF RunAfter
<1>9. CASE RunAfterPoll(r)
  BY <1>1, <1>9 DEF RunAfterPoll
<1>10. CASE RunBackoff(r)
  BY <1>1, <1>10 DEF RunBackoff
<1>11. CASE RunSleep(r)
  BY <1>1, <1>11 DEF RunSleep
<1>12. CASE RunExit(r)
  BY <1>1, <1>12 DEF RunExit
<1>13. QED
  BY <1>2, <1>3, <1>4, <1>5, <1>6, <1>7, <1>8, <1>9, <1>10, <1>11, <1>12 DEF RunStep

\* A step of one caller leaves the others where they are.
OnlyCallerMoves(c) ==
  \A d \in Callers \ {c} :
    /\ cPc'[d] = cPc[d] /\ cOp'[d] = cOp[d] /\ cPend'[d] = cPend[d]
    /\ cClose'[d] = cClose[d] /\ cAwait'[d] = cAwait[d]

\* Where a caller is after Goto and GotoAs.
LEMMA GotoEffect ==
  ASSUME CallTypeOK, NEW c \in Callers, NEW pc, Goto(c, pc)
  PROVE  /\ cPc'[c] = pc
         /\ pc \in {"idle", "panicked"} => cOp'[c] = "none"
         /\ pc \notin {"idle", "panicked"} => cOp'[c] = cOp[c]
         /\ \A d \in Callers \ {c} : cPc'[d] = cPc[d] /\ cOp'[d] = cOp[d]
BY DEF CallTypeOK, Goto

LEMMA GotoAsEffect ==
  ASSUME CallTypeOK, NEW c \in Callers, NEW pc, NEW op, GotoAs(c, op, pc)
  PROVE  /\ cPc'[c] = pc
         /\ pc = "idle" => cOp'[c] = "none"
         /\ pc # "idle" => cOp'[c] = op
         /\ \A d \in Callers \ {c} : cPc'[d] = cPc[d] /\ cOp'[d] = cOp[d]
BY DEF CallTypeOK, GotoAs

-----------------------------------------------------------------------------
(* The shape of the callers.                                               *)

\* Only the caller that moves can lose its shape.
LEMMA ShapeOfOthers ==
  ASSUME CallerShape, NEW c \in Callers, OnlyCallerMoves(c), Shape(c)'
  PROVE  CallerShape'
<1>1. ASSUME NEW d \in Callers \ {c} PROVE Shape(d)'
  BY DEF CallerShape, Shape, OnlyCallerMoves
<1>2. QED
  BY <1>1 DEF CallerShape

\* Every command keeps the shape of its caller, and moves no other caller.
LEMMA CommandShape ==
  ASSUME IInv, CallerShape, NEW c \in Callers, Command(c)
  PROVE  Shape(c)' /\ OnlyCallerMoves(c)
<1> USE DEF Shape, OnlyCallerMoves
<1>1. CallTypeOK /\ Shape(c)
  BY DEF IInv, TypeOK, CallerShape
<1>2. ASSUME NEW conf \in Configs, InitFFmpegPublisher(c, conf)
      PROVE  Shape(c)' /\ OnlyCallerMoves(c)
  <2> DEFINE stopping == {wRun[w] : w \in {v \in {workers[k] : k \in Dropped(conf)} : Stoppable(v)}}
  <2>1. /\ cPc[c] = "idle"
        /\ GotoAs(c, "init", IF stopping = {} THEN "idle" ELSE "close")
        /\ cClose' = [cClose EXCEPT ![c] = stopping]
        /\ cAwait' = [cAwait EXCEPT ![c] = stopping]
        /\ UNCHANGED cPend
    BY <1>2 DEF InitFFmpegPublisher
  <2> HIDE DEF stopping
  <2>2. QED
    BY <1>1, <2>1, GotoAsEffect DEF CallTypeOK
<1>3. CASE StartFFmpegPublisher(c)
  BY <1>1, <1>3, GotoEffect DEF StartFFmpegPublisher, Enters, CallTypeOK
<1>4. CASE StopFFmpegPublisher(c)
  BY <1>1, <1>4, GotoAsEffect DEF StopFFmpegPublisher, Enters, CallTypeOK
<1>5. CASE PauseFFmpegPublisher(c)
  BY <1>1, <1>5, GotoAsEffect DEF PauseFFmpegPublisher, CallTypeOK
<1>6. CASE ResumeFFmpegPublisher(c)
  BY <1>1, <1>6, GotoAsEffect DEF ResumeFFmpegPublisher, CallTypeOK
<1>7. ASSUME NEW url \in Targets, NEW marks, NEW op, NEW pc, ByURL(c, url, marks, op, pc),
             <<op, pc>> \in {<<"pause", "loop">>, <<"resume", "resume">>}
      PROVE  Shape(c)' /\ OnlyCallerMoves(c)
  <2>1. PICK P : cPend' = [cPend EXCEPT ![c] = P] /\ (cfg # None /\ Shared(cfg) => P = {})
    BY <1>7 DEF ByURL
  <2>2. CASE cfg # None /\ Shared(cfg)
    BY <1>1, <1>7, <2>1, <2>2, GotoAsEffect DEF ByURL, CallTypeOK
  <2>3. CASE ~(cfg # None /\ Shared(cfg))
    BY <1>1, <1>7, <2>1, <2>3, GotoAsEffect DEF ByURL, CallTypeOK
  <2>4. QED
    BY <2>2, <2>3
<1>8. ASSUME NEW url \in Targets,
             PauseFFmpegPublisherByURL(c, url) \/ ResumeFFmpegPublisherByURL(c, url)
      PROVE  Shape(c)' /\ OnlyCallerMoves(c)
  BY <1>7, <1>8 DEF PauseFFmpegPublisherByURL, ResumeFFmpegPublisherByURL
<1>9. QED
  BY <1>2, <1>3, <1>4, <1>5, <1>6, <1>8 DEF Command

\* So does every later step of a command.
LEMMA CallStepShape ==
  ASSUME IInv, CallerShape, NEW c \in Callers, CallStep(c)
  PROVE  Shape(c)' /\ OnlyCallerMoves(c)
<1> USE DEF Shape, OnlyCallerMoves
<1>1. CallTypeOK /\ Shape(c)
  BY DEF IInv, TypeOK, CallerShape
<1>2. ASSUME NEW w \in Workers, ResumeWorker(c, w)
      PROVE  Shape(c)' /\ OnlyCallerMoves(c)
  BY <1>1, <1>2 DEF ResumeWorker, CallTypeOK
<1>3. ASSUME NEW w \in Workers, StopWorker(c, w)
      PROVE  Shape(c)' /\ OnlyCallerMoves(c)
  <2>1. CASE Stoppable(w)
    <3>1. wRun[w] \in Runs
      BY <2>1 DEF Stoppable, IInv, OneRunPerWorker
    <3>2. QED
      BY <1>1, <1>3, <2>1, <3>1, GotoEffect DEF StopWorker, CallTypeOK
  <2>2. CASE ~Stoppable(w)
    BY <1>1, <1>3, <2>2 DEF StopWorker, CallTypeOK
  <2>3. QED
    BY <2>1, <2>2
<1>4. CASE LoopEnds(c)
  <2>1. CASE cOp[c] = "restart"
    BY <1>1, <1>4, <2>1, GotoEffect DEF LoopEnds, CallTypeOK
  <2>2. CASE cOp[c] # "restart"
    BY <1>1, <1>4, <2>2, GotoEffect DEF LoopEnds, CallTypeOK
  <2>3. QED
    BY <2>1, <2>2
<1>5. ASSUME NEW r \in Runs, CloseStopCh(c, r)
      PROVE  Shape(c)' /\ OnlyCallerMoves(c)
  <2>1. CASE rStop[r]
    BY <1>1, <1>5, <2>1, GotoEffect DEF CloseStopCh, CallTypeOK
  <2>2. CASE ~rStop[r]
    <3>1. PICK pc \in {"close", "await", "kill"} :
            /\ Goto(c, pc)
            /\ pc # "close" => cClose[c] = {r}
            /\ pc = "kill" => cOp[c] # "init"
      BY <1>5, <2>2 DEF CloseStopCh
    <3>2. cClose' = [cClose EXCEPT ![c] = @ \ {r}] /\ UNCHANGED <<cAwait, cPend>> /\ cPc[c] = "close"
      BY <1>5, <2>2 DEF CloseStopCh
    <3>3. QED
      BY <1>1, <3>1, <3>2, GotoEffect DEF CallTypeOK
  <2>3. QED
    BY <2>1, <2>2
<1>6. ASSUME NEW r \in Runs, KillProcess(c, r)
      PROVE  Shape(c)' /\ OnlyCallerMoves(c)
  BY <1>1, <1>6, GotoEffect DEF KillProcess, CallTypeOK
<1>7. ASSUME NEW r \in Runs, LeaveAwait(c, r)
      PROVE  Shape(c)' /\ OnlyCallerMoves(c)
  <2>1. PICK pc \in {"await", "idle", "loop"} :
          /\ Goto(c, pc)
          /\ pc # "await" => cAwait[c] = {r}
          /\ pc = "idle" => cOp[c] = "init"
          /\ pc = "loop" => cOp[c] # "init"
    BY <1>7 DEF LeaveAwait, AfterAwait
  <2>2. /\ cAwait' = [cAwait EXCEPT ![c] = @ \ {r}] /\ UNCHANGED <<cClose, cPend>>
        /\ cPc[c] = "await"
    BY <1>7 DEF LeaveAwait
  <2>3. QED
    BY <1>1, <2>1, <2>2, GotoEffect DEF CallTypeOK
<1>8. QED
  BY <1>2, <1>3, <1>4, <1>5, <1>6, <1>7 DEF CallStep, AwaitDone, AwaitTimeout

LEMMA ShapeInit == Init => CallerShape
BY DEF Init, CallerShape, Shape

LEMMA ShapeNext == IInv /\ CallerShape /\ [Next]_vars => CallerShape'
<1> SUFFICES ASSUME IInv, CallerShape, [Next]_vars PROVE CallerShape'
  OBVIOUS
<1>1. ASSUME NEW c \in Callers, Command(c) \/ CallStep(c) PROVE CallerShape'
  BY <1>1, CommandShape, CallStepShape, ShapeOfOthers
<1>2. CASE UNCHANGED callVars
  BY <1>2 DEF callVars, CallerShape, Shape
<1>3. ASSUME NEW r \in Runs, RunStep(r) PROVE UNCHANGED callVars
  BY <1>3, RunStepEffect
<1>4. ASSUME NEW r \in Runs, MonitorKill(r) \/ ProcStalls(r) \/ ProcExits(r)
      PROVE  UNCHANGED callVars
  BY <1>4 DEF MonitorKill, ProcStalls, ProcExits, OnlyProcMoves
<1>5. CASE UNCHANGED vars
  BY <1>2, <1>5 DEF vars
<1>6. QED
  BY <1>1, <1>2, <1>3, <1>4, <1>5 DEF Next, Program, Environment

-----------------------------------------------------------------------------
(* A loop that was told to stop is attended.                               *)

\* A caller that panicked does nothing any more.
LEMMA PanicIsFinal ==
  ASSUME NEW c \in Callers, Command(c) \/ CallStep(c)
  PROVE  cPc[c] # "panicked"
BY DEF Command, CallStep, InitFFmpegPublisher, StartFFmpegPublisher, StopFFmpegPublisher,
       PauseFFmpegPublisher, ResumeFFmpegPublisher, PauseFFmpegPublisherByURL,
       ResumeFFmpegPublisherByURL, ByURL, Enters, ResumeWorker, StopWorker, LoopEnds,
       CloseStopCh, KillProcess, AwaitDone, AwaitTimeout, LeaveAwait

LEMMA PanicStays ==
  ASSUME IInv, CallerShape, NEW c \in Callers, Command(c) \/ CallStep(c), SomePanic
  PROVE  SomePanic'
BY PanicIsFinal, CommandShape, CallStepShape DEF SomePanic, OnlyCallerMoves

\* What the other callers attend to they go on attending to.
LEMMA OthersAttend ==
  ASSUME NEW c \in Callers, OnlyCallerMoves(c), NEW r \in Runs, Attended(r),
         ~(cPc[c] \in {"close", "kill", "await"} /\ r \in cAwait[c] \ cClose[c])
  PROVE  Attended(r)'
BY DEF Attended, OnlyCallerMoves

\* The commands start loops, which were told nothing, and tell none to stop.
LEMMA CommandAttends ==
  ASSUME IInv, CallerShape, StoppingIsAttended, NEW c \in Callers, Command(c)
  PROVE  StoppingIsAttended'
<1> SUFFICES ASSUME NEW r \in Runs, rStop'[r], Unfinished(r)', ~SomePanic'
             PROVE  r \in abandoned' \/ Attended(r)'
  BY DEF StoppingIsAttended
<1>1. OnlyCallerMoves(c) /\ ~SomePanic
  BY CommandShape, PanicStays
<1>2. cPc[c] \in {"idle", "snapshot", "start"}
  BY DEF Command, InitFFmpegPublisher, StartFFmpegPublisher, StopFFmpegPublisher,
         PauseFFmpegPublisher, ResumeFFmpegPublisher, PauseFFmpegPublisherByURL,
         ResumeFFmpegPublisherByURL, ByURL, Enters
<1>3. rStop[r] /\ Unfinished(r) /\ (r \in abandoned => r \in abandoned')
  <2>1. CASE StartFFmpegPublisher(c)
    <3>1. PICK S \in SUBSET Workers : StartWorkers(S)
      BY <2>1, StartPublisherStarts
    <3>2. QED
      BY <3>1, StartWorkersEffect DEF Unfinished
  <2>2. CASE UNCHANGED <<runVars, abandoned>>
    BY <2>2 DEF runVars, Unfinished
  <2>3. QED
    BY <2>1, <2>2 DEF Command, InitFFmpegPublisher, StopFFmpegPublisher,
         PauseFFmpegPublisher, ResumeFFmpegPublisher, PauseFFmpegPublisherByURL,
         ResumeFFmpegPublisherByURL, ByURL
<1>4. r \in abandoned \/ Attended(r)
  BY <1>1, <1>3 DEF StoppingIsAttended
<1>5. QED
  BY <1>1, <1>2, <1>3, <1>4, OthersAttend

\* A caller that tells a loop to stop attends to it until it ended, or gives it up.
LEMMA CallStepAttends ==
  ASSUME IInv, CallerShape, StoppingIsAttended, NEW c \in Callers, CallStep(c)
  PROVE  StoppingIsAttended'
<1> SUFFICES ASSUME NEW r \in Runs, rStop'[r], Unfinished(r)', ~SomePanic'
             PROVE  r \in abandoned' \/ Attended(r)'
  BY DEF StoppingIsAttended
<1>1. /\ OnlyCallerMoves(c) /\ ~SomePanic /\ CallTypeOK /\ Shape(c)
      /\ rStop[r] /\ Unfinished(r) => r \in abandoned \/ Attended(r)
  BY CallStepShape, PanicStays DEF StoppingIsAttended, IInv, TypeOK, CallerShape
<1>2. ASSUME NEW w \in Workers, ResumeWorker(c, w)
      PROVE  r \in abandoned' \/ Attended(r)'
  <2>1. StartWorkers({w}) /\ cPc[c] = "resume"
    BY <1>2 DEF ResumeWorker
  <2>2. rStop[r] /\ Unfinished(r) /\ (r \in abandoned => r \in abandoned')
    BY <2>1, StartWorkersEffect DEF Unfinished
  <2>3. QED
    BY <1>1, <2>1, <2>2, OthersAttend
<1>3. ASSUME NEW w \in Workers, StopWorker(c, w)
      PROVE  r \in abandoned' \/ Attended(r)'
  BY <1>1, <1>3, OthersAttend DEF StopWorker, runVars, Unfinished
<1>4. CASE LoopEnds(c)
  BY <1>1, <1>4, OthersAttend DEF LoopEnds, runVars, Unfinished
<1>5. ASSUME NEW q \in Runs, CloseStopCh(c, q)
      PROVE  r \in abandoned' \/ Attended(r)'
  <2>1. ~rStop[q]
    BY <1>1, <1>5, GotoEffect DEF CloseStopCh, SomePanic
  <2>2. /\ cPc[c] = "close" /\ q \in cClose[c] /\ UNCHANGED <<rPc, cAwait, abandoned>>
        /\ rStop' = [rStop EXCEPT ![q] = TRUE]
        /\ cClose' = [cClose EXCEPT ![c] = @ \ {q}]
    BY <1>5, <2>1 DEF CloseStopCh
  <2>3. cPc'[c] \in {"close", "kill", "await"}
    <3>1. PICK pc \in {"close", "kill", "await"} : Goto(c, pc)
      BY <1>5, <2>1 DEF CloseStopCh
    <3>2. QED
      BY <1>1, <3>1, GotoEffect
  <2>4. CASE r = q
    BY <1>1, <2>2, <2>3, <2>4 DEF Shape, Attended, CallTypeOK
  <2>5. CASE r # q
    <3>1. r \in abandoned \/ Attended(r)
      BY <1>1, <2>2, <2>5 DEF Unfinished
    <3>2. CASE r \in cAwait[c] \ cClose[c]
      BY <2>2, <2>3, <3>2 DEF Attended, CallTypeOK
    <3>3. CASE r \notin cAwait[c] \ cClose[c]
      BY <1>1, <2>2, <3>1, <3>3, OthersAttend
    <3>4. QED
      BY <3>2, <3>3
  <2>6. QED
    BY <2>4, <2>5
<1>6. ASSUME NEW q \in Runs, KillProcess(c, q)
      PROVE  r \in abandoned' \/ Attended(r)'
  <2>1. /\ cPc[c] = "kill" /\ q \in cAwait[c] /\ UNCHANGED <<rPc, rStop, cClose>>
        /\ cAwait[c] = {q}
    BY <1>1, <1>6 DEF KillProcess, Shape
  <2>2. r \in abandoned \/ Attended(r)
    BY <1>1, <2>1 DEF Unfinished
  <2>3. CASE r = q
    <3>1. CASE Goto(c, "await") /\ UNCHANGED cAwait
      BY <1>1, <2>1, <2>3, <3>1, GotoEffect DEF Attended, Shape
    <3>2. CASE abandoned' = abandoned \cup {q} \cup {p \in Runs : rWorker[p] \in cPend[c]}
      BY <2>3, <3>2
    <3>3. QED
      BY <1>6, <3>1, <3>2 DEF KillProcess
  <2>4. CASE r # q
    BY <1>1, <1>6, <2>1, <2>2, <2>4, OthersAttend DEF KillProcess
  <2>5. QED
    BY <2>3, <2>4
<1>7. ASSUME NEW q \in Runs, AwaitDone(c, q) \/ AwaitTimeout(c, q)
      PROVE  r \in abandoned' \/ Attended(r)'
  <2>1. /\ LeaveAwait(c, q) /\ UNCHANGED <<rPc, rStop, cClose>>
        /\ cPc[c] = "await" /\ q \in cAwait[c]
        /\ cAwait' = [cAwait EXCEPT ![c] = @ \ {q}]
        /\ abandoned \subseteq abandoned'
        /\ r = q => r \in abandoned'
    BY <1>7 DEF AwaitDone, AwaitTimeout, LeaveAwait, Unfinished, runVars
  <2>2. r \in abandoned \/ Attended(r)
    BY <1>1, <2>1 DEF Unfinished
  <2>3. CASE r # q /\ r \in cAwait[c]
    <3>1. Goto(c, "await")
      BY <2>1, <2>3 DEF LeaveAwait, AfterAwait
    <3>2. QED
      BY <1>1, <2>1, <2>3, <3>1, GotoEffect DEF Attended, Shape, CallTypeOK
  <2>4. CASE r \notin cAwait[c]
    BY <1>1, <2>1, <2>2, <2>4, OthersAttend
  <2>5. QED
    BY <2>1, <2>3, <2>4
<1>8. QED
  BY <1>2, <1>3, <1>4, <1>5, <1>6, <1>7 DEF CallStep

LEMMA AttendsNext ==
  IInv /\ CallerShape /\ StoppingIsAttended /\ [Next]_vars => StoppingIsAttended'
<1> SUFFICES ASSUME IInv, CallerShape, StoppingIsAttended, [Next]_vars
             PROVE  StoppingIsAttended'
  OBVIOUS
<1>1. ASSUME NEW c \in Callers, Command(c) \/ CallStep(c) PROVE StoppingIsAttended'
  BY <1>1, CommandAttends, CallStepAttends
<1>2. ASSUME UNCHANGED <<rStop, callVars, abandoned>>,
             \A r \in Runs : Unfinished(r)' => Unfinished(r)
      PROVE  StoppingIsAttended'
  BY <1>2 DEF callVars, StoppingIsAttended, Attended, SomePanic
<1>3. ASSUME NEW r \in Runs, RunStep(r) PROVE StoppingIsAttended'
  BY <1>2, <1>3, RunStepEffect DEF Unfinished
<1>4. ASSUME NEW r \in Runs, MonitorKill(r) \/ ProcStalls(r) \/ ProcExits(r)
      PROVE  StoppingIsAttended'
  BY <1>2, <1>4 DEF MonitorKill, ProcStalls, ProcExits, OnlyProcMoves, Unfinished
<1>5. CASE UNCHANGED vars
  BY <1>2, <1>5 DEF vars, runVars, Unfinished
<1>6. QED
  BY <1>1, <1>3, <1>4, <1>5 DEF Next, Program, Environment

-----------------------------------------------------------------------------
(* What a caller has begun to tell a loop arrives.                         *)

\* r was told to stop, or will be, or a caller died.
Told(r) == rStop[r] \/ WillClose(r) \/ SomePanic

\* Caller c still has to close the stopCh of r.
Tells(c, r) ==
  \/ cPc[c] = "close" /\ r \in cClose[c]
  \/ cOp[c] # "resume" /\ rWorker[r] \in cPend[c]
  \/ cPc[c] = "snapshot" /\ rWorker[r] \in Attached

\* A step of a caller starts a loop only in a run that was free, keeps the receivers
\* of the others, and takes back neither a stop nor what was given up.
LEMMA CallerKeepsRuns ==
  ASSUME IInv, CallerShape, NEW c \in Callers, Command(c) \/ CallStep(c),
         NEW r \in Runs, Unfinished(r)
  PROVE  /\ rPc'[r] = rPc[r] /\ rWorker'[r] = rWorker[r] /\ rTargets'[r] = rTargets[r]
         /\ rStop[r] => rStop'[r]
         /\ r \in abandoned => r \in abandoned'
         /\ wRunning'[rWorker[r]]
<1>1. rWorker[r] \in Workers /\ wRunning[rWorker[r]]
  BY DEF IInv, OneRunPerWorker
<1>2. ASSUME NEW S \in SUBSET Workers, StartWorkers(S)
      PROVE  /\ rPc'[r] = rPc[r] /\ rWorker'[r] = rWorker[r] /\ rTargets'[r] = rTargets[r]
             /\ rStop[r] => rStop'[r]
             /\ r \in abandoned => r \in abandoned'
             /\ wRunning'[rWorker[r]]
  <2>1. r \notin FreeRuns
    BY DEF FreeRuns, Unfinished
  <2>2. QED
    BY <1>1, <1>2, <2>1, StartWorkersEffect
<1>3. CASE StartFFmpegPublisher(c)
  BY <1>2, <1>3, StartPublisherStarts
<1>4. ASSUME NEW w \in Workers, ResumeWorker(c, w)
      PROVE  \E S \in SUBSET Workers : StartWorkers(S)
  BY <1>4 DEF ResumeWorker
<1>5. ASSUME NEW q \in Runs, CloseStopCh(c, q)
      PROVE  rStop[r] => rStop'[r]
  BY <1>5 DEF CloseStopCh, IInv, TypeOK, RunTypeOK
<1>6. CASE UNCHANGED <<runVars, wRunning, abandoned>>
  BY <1>1, <1>6 DEF runVars
<1>7. ASSUME NEW q \in Runs, CloseStopCh(c, q) \/ KillProcess(c, q)
      PROVE  /\ UNCHANGED <<rPc, rWorker, rTargets, wRunning>>
             /\ rStop[r] => rStop'[r]
             /\ r \in abandoned => r \in abandoned'
  BY <1>5, <1>7 DEF CloseStopCh, KillProcess, workerVars
<1>8. ASSUME NEW q \in Runs, AwaitDone(c, q) \/ AwaitTimeout(c, q)
      PROVE  /\ UNCHANGED <<runVars, wRunning>>
             /\ r \in abandoned => r \in abandoned'
  BY <1>8 DEF AwaitDone, AwaitTimeout, LeaveAwait, workerVars
<1>9. CASE Command(c)
  BY <1>3, <1>6, <1>9 DEF Command, InitFFmpegPublisher, StopFFmpegPublisher,
     PauseFFmpegPublisher, ResumeFFmpegPublisher, PauseFFmpegPublisherByURL,
     ResumeFFmpegPublisherByURL, ByURL, workerVars
<1>10. CASE CallStep(c)
  <2>1. ASSUME NEW w \in Workers, ResumeWorker(c, w) \/ StopWorker(c, w)
        PROVE  \/ UNCHANGED <<runVars, wRunning, abandoned>>
               \/ \E S \in SUBSET Workers : StartWorkers(S)
    BY <1>4, <2>1 DEF StopWorker, workerVars
  <2>2. CASE LoopEnds(c)
    BY <1>6, <2>2 DEF LoopEnds, workerVars
  <2>3. QED
    BY <1>1, <1>2, <1>6, <1>7, <1>8, <1>10, <2>1, <2>2 DEF CallStep, runVars
<1>11. QED
  BY <1>9, <1>10

\* An unfinished run whose receiver is in the table after a command had it there,
\* under the same key, before.
LEMMA ReceiverStaysInTable ==
  ASSUME IInv, NEW c \in Callers, Command(c) \/ CallStep(c),
         NEW r \in Runs, Unfinished(r)
  PROVE  /\ wKey'[rWorker[r]] = wKey[rWorker[r]]
         /\ rWorker[r] \in Attached' => rWorker[r] \in Attached
         /\ rWorker[r] \in Attached /\ ~(\E conf \in Configs : InitFFmpegPublisher(c, conf))
              => rWorker[r] \in Attached'
<1>1. rWorker[r] \in Workers /\ wRunning[rWorker[r]] /\ rWorker[r] \notin FreeWorkers
  BY DEF IInv, OneRunPerWorker, FreeWorkers
<1>2. ASSUME NEW keys \in SUBSET Keys, NEW drop \in SUBSET Keys, EnsureWorkers(keys, drop)
      PROVE  /\ wKey'[rWorker[r]] = wKey[rWorker[r]]
             /\ rWorker[r] \in Attached' => rWorker[r] \in Attached
             /\ rWorker[r] \in Attached /\ drop = {} => rWorker[r] \in Attached'
  <2>1. PICK made \in SUBSET FreeWorkers :
           /\ \A w \in Workers \ made : wKey'[w] = wKey[w]
           /\ \A k \in Keys : \/ workers'[k] = workers[k]
                              \/ k \in drop /\ workers'[k] = None
                              \/ workers[k] = None /\ workers'[k] \in made /\ k \in keys
           /\ Attached' \subseteq Attached \cup made
    BY <1>2, EnsureWorkersEffect
  <2>2. rWorker[r] \in Attached /\ drop = {} => rWorker[r] \in Attached'
    BY <2>1 DEF Attached
  <2>3. QED
    BY <1>1, <2>1, <2>2
<1>3. CASE UNCHANGED <<workers, wKey>>
  BY <1>3 DEF Attached
<1>4. CASE StartFFmpegPublisher(c)
  <2>1. PICK keys \in SUBSET Keys : EnsureWorkers(keys, {})
    <3>1. StartKeys \in SUBSET Keys
      BY DEF StartKeys, ActiveTargets, ConfTargets, Keys, IInv, TypeOK, MgrTypeOK, Config
    <3>2. QED
      BY <1>4, <3>1 DEF StartFFmpegPublisher, StartKeys
  <2>2. QED
    BY <1>2, <2>1
<1>5. ASSUME NEW conf \in Configs, InitFFmpegPublisher(c, conf)
      PROVE  \E keys, drop \in SUBSET Keys : EnsureWorkers(keys, drop)
  <2>1. conf \in Config
    BY PublisherAssumption
  <2>2. QED
    BY <1>5, <2>1, KeysOfConfig DEF InitFFmpegPublisher
<1>6. ASSUME NEW q \in Runs,
             CloseStopCh(c, q) \/ KillProcess(c, q) \/ AwaitDone(c, q) \/ AwaitTimeout(c, q)
      PROVE  UNCHANGED <<workers, wKey>>
  BY <1>6 DEF CloseStopCh, KillProcess, AwaitDone, AwaitTimeout, LeaveAwait, mgrVars, workerVars
<1>7. CASE Command(c)
  BY <1>2, <1>3, <1>4, <1>5, <1>7 DEF Command, StopFFmpegPublisher,
     PauseFFmpegPublisher, ResumeFFmpegPublisher, PauseFFmpegPublisherByURL,
     ResumeFFmpegPublisherByURL, ByURL, mgrVars, workerVars
<1>8. CASE CallStep(c)
  <2>1. UNCHANGED <<workers, wKey>>
    BY <1>6, <1>8 DEF CallStep, ResumeWorker, StopWorker, LoopEnds, mgrVars, workerVars
  <2>2. QED
    BY <1>3, <2>1
<1>9. QED
  BY <1>7, <1>8

\* What the other callers still have to tell they still have to tell afterwards.
LEMMA OthersTell ==
  ASSUME NEW c \in Callers, OnlyCallerMoves(c), NEW r \in Runs,
         rWorker'[r] = rWorker[r], rWorker[r] \in Attached => rWorker[r] \in Attached',
         NEW d \in Callers \ {c}, Tells(d, r)
  PROVE  WillClose(r)'
BY DEF Tells, WillClose, OnlyCallerMoves

\* A caller on its way to tell a loop to stop gets on, whatever step it takes; only a
\* pause that reports a failed kill gives up the workers it has not come to.
LEMMA TellerGoesOn ==
  ASSUME IInv, CallerShape, NEW c \in Callers, Command(c) \/ CallStep(c),
         NEW r \in Runs, Unfinished(r), Tells(c, r),
         rWorker[r] \in Attached => rWorker[r] \in Attached'
  PROVE  Told(r)' \/ (r \in abandoned' /\ cOp[c] = "pause" /\ rWorker[r] \in cPend[c])
<1>1. /\ CallTypeOK /\ Shape(c) /\ OnlyCallerMoves(c)
      /\ rWorker'[r] = rWorker[r] /\ rWorker[r] \in Workers
      /\ wRunning[rWorker[r]] /\ wRun[rWorker[r]] = r
  BY CommandShape, CallStepShape, CallerKeepsRuns
  DEF IInv, TypeOK, CallerShape, OneRunPerWorker
<1>2. CASE Command(c)
  <2>1. cPc[c] \in {"idle", "snapshot", "start"}
    BY <1>2 DEF Command, InitFFmpegPublisher, StartFFmpegPublisher, StopFFmpegPublisher,
         PauseFFmpegPublisher, ResumeFFmpegPublisher, PauseFFmpegPublisherByURL,
         ResumeFFmpegPublisherByURL, ByURL, Enters
  <2>2. cPc[c] = "snapshot" /\ rWorker[r] \in Attached
    BY <1>1, <2>1 DEF Shape, Tells
  <2>3. StopFFmpegPublisher(c)
    BY <1>2, <2>2 DEF Command, InitFFmpegPublisher, StartFFmpegPublisher,
         PauseFFmpegPublisher, ResumeFFmpegPublisher, PauseFFmpegPublisherByURL,
         ResumeFFmpegPublisherByURL, ByURL, Enters
  <2>4. cPend'[c] = Attached /\ cOp'[c] # "resume"
    BY <1>1, <2>2, <2>3, GotoAsEffect DEF StopFFmpegPublisher, Shape, CallTypeOK
  <2>5. QED
    BY <1>1, <2>2, <2>4 DEF Told, WillClose
<1>3. ASSUME NEW w \in Workers, ResumeWorker(c, w) PROVE FALSE
  BY <1>1, <1>3 DEF ResumeWorker, Shape, Tells
<1>4. ASSUME NEW w \in Workers, StopWorker(c, w) PROVE Told(r)'
  <2>1. rWorker[r] \in cPend[c] /\ cOp[c] # "resume" /\ cPc[c] = "loop"
    BY <1>1, <1>4 DEF StopWorker, Tells
  <2>2. CASE w = rWorker[r]
    <3>1. cPc'[c] = "close" /\ cClose'[c] = {r}
      BY <1>1, <1>4, <2>2, GotoEffect DEF StopWorker, Stoppable, CallTypeOK
    <3>2. QED
      BY <3>1 DEF Told, WillClose
  <2>3. CASE w # rWorker[r]
    <3>1. rWorker[r] \in cPend'[c]
      BY <1>4, <2>1, <2>3 DEF StopWorker, CallTypeOK, IInv, TypeOK
    <3>2. cOp'[c] = cOp[c]
      BY <1>1, <1>4, GotoEffect DEF StopWorker
    <3>3. QED
      BY <1>1, <2>1, <3>1, <3>2 DEF Told, WillClose
  <2>4. QED
    BY <2>2, <2>3
<1>5. CASE LoopEnds(c)
  BY <1>1, <1>5 DEF LoopEnds, Tells
<1>6. ASSUME NEW q \in Runs, CloseStopCh(c, q) PROVE Told(r)'
  <2>1. CASE rStop[q]
    BY <1>1, <1>6, <2>1, GotoEffect DEF CloseStopCh, Told, SomePanic
  <2>2. CASE ~rStop[q]
    <3>1. PICK pc \in {"close", "kill", "await"} :
            Goto(c, pc) /\ (cClose[c] # {q} => pc = "close")
      BY <1>6, <2>2 DEF CloseStopCh
    <3>2. /\ cPc'[c] = pc /\ cOp'[c] = cOp[c] /\ cPend'[c] = cPend[c]
          /\ cClose'[c] = cClose[c] \ {q} /\ rStop'[q]
          /\ cPc[c] = "close" /\ q \in cClose[c]
      BY <1>1, <1>6, <2>2, <3>1, GotoEffect DEF CloseStopCh, IInv, TypeOK, RunTypeOK, CallTypeOK
    <3>3. CASE r = q
      BY <3>2, <3>3 DEF Told
    <3>4. CASE r # q /\ r \in cClose[c]
      BY <3>1, <3>2, <3>4 DEF Told, WillClose
    <3>5. CASE r \notin cClose[c]
      BY <1>1, <3>2, <3>5 DEF Told, WillClose, Tells
    <3>6. QED
      BY <3>3, <3>4, <3>5
  <2>3. QED
    BY <2>1, <2>2
<1>7. ASSUME NEW q \in Runs, KillProcess(c, q)
      PROVE  Told(r)' \/ (r \in abandoned' /\ cOp[c] = "pause" /\ rWorker[r] \in cPend[c])
  <2>1. rWorker[r] \in cPend[c] /\ cOp[c] # "resume"
    BY <1>7 DEF KillProcess, Tells
  <2>2. CASE Goto(c, "await") /\ UNCHANGED cPend
    BY <1>1, <2>1, <2>2, GotoEffect DEF Told, WillClose
  <2>3. CASE cOp[c] = "pause" /\ abandoned' = abandoned \cup {q} \cup {p \in Runs : rWorker[p] \in cPend[c]}
    BY <2>1, <2>3
  <2>4. QED
    BY <1>7, <2>2, <2>3 DEF KillProcess
<1>8. ASSUME NEW q \in Runs, LeaveAwait(c, q) PROVE Told(r)'
  <2>1. rWorker[r] \in cPend[c] /\ cOp[c] # "resume" /\ UNCHANGED cPend
    BY <1>8 DEF LeaveAwait, Tells
  <2>2. PICK pc : Goto(c, pc)
    BY <1>8 DEF LeaveAwait
  <2>3. cOp'[c] # "resume"
    BY <1>1, <2>1, <2>2, GotoEffect
  <2>4. QED
    BY <1>1, <2>1, <2>3 DEF Told, WillClose
<1>9. QED
  BY <1>2, <1>3, <1>4, <1>5, <1>6, <1>7, <1>8 DEF CallStep, AwaitDone, AwaitTimeout

\* So a loop that was told, or will be, stays so.
LEMMA ToldStays ==
  ASSUME IInv, CallerShape, NEW c \in Callers, Command(c) \/ CallStep(c),
         NEW r \in Runs, Unfinished(r), Told(r),
         rWorker[r] \in Attached => rWorker[r] \in Attached'
  PROVE  Told(r)' \/ (r \in abandoned' /\ cOp[c] = "pause" /\ rWorker[r] \in cPend[c])
<1>1. CASE rStop[r]
  BY <1>1, CallerKeepsRuns DEF Told
<1>2. CASE SomePanic
  BY <1>2, PanicStays DEF Told
<1>3. CASE WillClose(r)
  <2>1. PICK d \in Callers : Tells(d, r)
    BY <1>3 DEF WillClose, Tells
  <2>2. CASE d = c
    BY <2>1, <2>2, TellerGoesOn
  <2>3. CASE d # c
    BY <2>1, <2>3, OthersTell, CommandShape, CallStepShape, CallerKeepsRuns DEF Told
  <2>4. QED
    BY <2>2, <2>3
<1>4. QED
  BY <1>1, <1>2, <1>3 DEF Told

-----------------------------------------------------------------------------
(* No pause is lost.                                                       *)

\* A run that is unfinished after a step of a caller and past the top of its loop
\* was so before.
LEMMA NotJustStarted ==
  ASSUME IInv, CallerShape, NEW c \in Callers, Command(c) \/ CallStep(c),
         NEW r \in Runs, Unfinished(r)', rPc'[r] # "top"
  PROVE  Unfinished(r) /\ rPc'[r] = rPc[r]
<1>1. ASSUME ~Unfinished(r) PROVE FALSE
  <2>1. ASSUME NEW S \in SUBSET Workers, StartWorkers(S) PROVE FALSE
    BY <1>1, <2>1, StartWorkersEffect DEF Unfinished
  <2>2. ~StartFFmpegPublisher(c)
    BY <2>1, StartPublisherStarts
  <2>3. ASSUME NEW w \in Workers PROVE ~ResumeWorker(c, w)
    BY <2>1 DEF ResumeWorker
  <2>4. UNCHANGED rPc => FALSE
    BY <1>1 DEF Unfinished
  <2>5. ~Command(c)
    BY <2>2, <2>4 DEF Command, InitFFmpegPublisher, StopFFmpegPublisher,
       PauseFFmpegPublisher, ResumeFFmpegPublisher, PauseFFmpegPublisherByURL,
       ResumeFFmpegPublisherByURL, ByURL, runVars
  <2>6. ~CallStep(c)
    BY <2>3, <2>4 DEF CallStep, StopWorker, LoopEnds, CloseStopCh, KillProcess,
       AwaitDone, AwaitTimeout, LeaveAwait, runVars
  <2>7. QED
    BY <2>5, <2>6
<1>2. QED
  BY <1>1, CallerKeepsRuns

\* Who marks a target as paused is about to tell the loop that publishes it.
LEMMA MarkingTells ==
  ASSUME IInv, CallerShape, NEW c \in Callers, Command(c) \/ CallStep(c),
         NEW r \in Runs, Unfinished(r), rWorker[r] \in Attached,
         NEW t \in paused' \ paused,
         \/ t = wKey[rWorker[r]]
         \/ cfg # None /\ Shared(cfg)
  PROVE  WillClose(r)'
<1>1. CallTypeOK /\ rWorker'[r] = rWorker[r] /\ wKey[rWorker[r]] \in Keys
      /\ workers[wKey[rWorker[r]]] = rWorker[r] /\ rWorker[r] # None
  <2>1. rWorker'[r] = rWorker[r] /\ rWorker[r] \in Workers
    BY CallerKeepsRuns DEF IInv, OneRunPerWorker
  <2>2. PICK k \in Keys : rWorker[r] = workers[k]
    BY DEF Attached
  <2>3. wKey[rWorker[r]] = k
    BY <2>1, <2>2, PublisherAssumption DEF IInv, TableMatchesConfig
  <2>4. QED
    BY <2>1, <2>2, <2>3, PublisherAssumption DEF IInv, TypeOK
<1>2. CASE PauseFFmpegPublisher(c)
  <2>1. cPc'[c] = "snapshot" /\ rWorker[r] \in Attached'
    BY <1>1, <1>2, GotoAsEffect DEF PauseFFmpegPublisher, Attached
  <2>2. QED
    BY <1>1, <2>1 DEF WillClose
<1>3. ASSUME NEW url \in Targets, PauseFFmpegPublisherByURL(c, url)
      PROVE  WillClose(r)'
  <2>1. ByURL(c, url, paused \cup Resolve(url), "pause", "loop") /\ t \in Resolve(url)
    BY <1>3 DEF PauseFFmpegPublisherByURL, ByURL
  <2>2. CASE cfg # None /\ Shared(cfg)
    <3>1. cPc'[c] = "snapshot" /\ rWorker[r] \in Attached'
      BY <1>1, <2>1, <2>2, GotoAsEffect DEF ByURL, Attached
    <3>2. QED
      BY <1>1, <3>1 DEF WillClose
  <2>3. CASE ~(cfg # None /\ Shared(cfg))
    <3>1. cPend'[c] = {workers[k] : k \in Resolve(url)} \ {None}
      BY <1>1, <2>1, <2>3 DEF ByURL, CallTypeOK
    <3>2. cOp'[c] = "pause"
      BY <1>1, <2>1, <2>3, GotoAsEffect DEF ByURL
    <3>3. rWorker[r] \in cPend'[c]
      BY <1>1, <2>1, <2>3, <3>1
    <3>4. QED
      BY <1>1, <3>2, <3>3 DEF WillClose
  <2>4. QED
    BY <2>2, <2>3
<1>4. ASSUME ~PauseFFmpegPublisher(c), \A url \in Targets : ~PauseFFmpegPublisherByURL(c, url)
      PROVE  paused' \subseteq paused
  <2>1. CASE Command(c)
    BY <1>4, <2>1 DEF Command, InitFFmpegPublisher, StartFFmpegPublisher, StopFFmpegPublisher,
       ResumeFFmpegPublisher, ResumeFFmpegPublisherByURL, ByURL, mgrVars
  <2>2. CASE CallStep(c)
    BY <2>2 DEF CallStep, ResumeWorker, StopWorker, LoopEnds, CloseStopCh, KillProcess,
       AwaitDone, AwaitTimeout, LeaveAwait, mgrVars
  <2>3. QED
    BY <2>1, <2>2
<1>5. QED
  BY <1>2, <1>3, <1>4

\* A pause reaches every loop that got past the pause check at its top.
LEMMA PauseNext ==
  IInv /\ CallerShape /\ PauseIsNotLost /\ [Next]_vars => PauseIsNotLost'
<1> SUFFICES ASSUME IInv, CallerShape, PauseIsNotLost, [Next]_vars
             PROVE  PauseIsNotLost'
  OBVIOUS
<1>1. ASSUME NEW c \in Callers, Command(c) \/ CallStep(c) PROVE PauseIsNotLost'
  <2> SUFFICES ASSUME NEW r \in Runs, Unfinished(r)', rWorker'[r] \in Attached',
                      IsPaused(r)', rPc'[r] \in Going
               PROVE  Told(r)' \/ r \in abandoned'
    BY DEF PauseIsNotLost, Told, Going
  <2>1. Unfinished(r) /\ rPc[r] \in Going
    BY <1>1, NotJustStarted DEF Going
  <2>2. /\ rWorker'[r] = rWorker[r] /\ wKey'[rWorker[r]] = wKey[rWorker[r]]
        /\ rWorker[r] \in Attached /\ rWorker[r] \in Attached'
        /\ r \in abandoned => r \in abandoned'
    BY <1>1, <2>1, CallerKeepsRuns, ReceiverStaysInTable
  <2>3. CASE IsPaused(r)
    <3>1. Told(r) \/ r \in abandoned
      BY <2>1, <2>2, <2>3 DEF PauseIsNotLost, Told, Going
    <3>2. QED
      BY <1>1, <2>1, <2>2, <3>1, ToldStays
  <2>4. CASE ~IsPaused(r)
    <3>1. wKey[rWorker[r]] \in paused' \ paused
      BY <2>2, <2>4 DEF IsPaused
    <3>2. QED
      BY <1>1, <2>1, <2>2, <3>1, MarkingTells DEF Told
  <2>5. QED
    BY <2>3, <2>4
<1>2. ASSUME NEW r \in Runs, RunStep(r) PROVE PauseIsNotLost'
  <2>1. /\ UNCHANGED <<mgrVars, wKey, rWorker, rStop, callVars, abandoned>>
        /\ Unfinished(r)
        /\ \A q \in Runs \ {r} : rPc'[q] = rPc[q]
        /\ rPc'[r] \in Going => rPc[r] \in Going \/ ~IsPaused(r)
    BY <1>2, RunStepEffect
  <2> SUFFICES ASSUME NEW q \in Runs, Unfinished(q)', rWorker'[q] \in Attached',
                      IsPaused(q)', rPc'[q] \in Going
               PROVE  Told(q)' \/ q \in abandoned'
    BY DEF PauseIsNotLost, Told, Going
  <2>2. Unfinished(q) /\ rWorker[q] \in Attached /\ IsPaused(q) /\ rPc[q] \in Going
    BY <2>1 DEF Unfinished, IsPaused, Attached, mgrVars
  <2>3. Told(q) \/ q \in abandoned
    BY <2>2 DEF PauseIsNotLost, Told, Going
  <2>4. QED
    BY <2>1, <2>3 DEF Told, WillClose, SomePanic, Attached, mgrVars, callVars
<1>3. CASE UNCHANGED <<mgrVars, workerVars, rPc, rWorker, rStop, callVars, abandoned>>
  BY <1>3 DEF PauseIsNotLost, Unfinished, IsPaused, WillClose, SomePanic, Attached,
              mgrVars, workerVars, callVars
<1>4. ASSUME NEW r \in Runs, MonitorKill(r) \/ ProcStalls(r) \/ ProcExits(r)
      PROVE  PauseIsNotLost'
  BY <1>3, <1>4 DEF MonitorKill, ProcStalls, ProcExits, OnlyProcMoves
<1>5. CASE UNCHANGED vars
  BY <1>3, <1>5 DEF vars, runVars
<1>6. QED
  BY <1>1, <1>2, <1>4, <1>5 DEF Next, Program, Environment

-----------------------------------------------------------------------------
(* Command lines.                                                          *)

\* The worker of a single target has no list of targets, the loop of one that is in
\* the table has no target but its own in its command line, an ended loop has none.
LineShape ==
  /\ cfg = None => Attached = {}
  /\ \A k \in Targets : workers[k] # None => wTargets[workers[k]] = {}
  /\ \A r \in Runs :
       /\ ~Unfinished(r) => rTargets[r] = {}
       /\ rWorker[r] \in Attached /\ wKey[rWorker[r]] \in Targets
            => rTargets[r] \subseteq {wKey[rWorker[r]]}

\* Only runs change command lines.
LEMMA CallerKeepsLines ==
  ASSUME IInv, NEW c \in Callers, Command(c) \/ CallStep(c)
  PROVE  UNCHANGED rTargets
<1>1. ASSUME NEW S, StartWorkers(S) PROVE UNCHANGED rTargets
  BY <1>1 DEF StartWorkers
<1>2. CASE Command(c)
  <2>1. StartFFmpegPublisher(c) => \E S : StartWorkers(S)
    BY DEF StartFFmpegPublisher
  <2>2. QED
    BY <1>1, <1>2, <2>1 DEF Command, InitFFmpegPublisher, StopFFmpegPublisher,
       PauseFFmpegPublisher, ResumeFFmpegPublisher, PauseFFmpegPublisherByURL,
       ResumeFFmpegPublisherByURL, ByURL, runVars
<1>3. CASE CallStep(c)
  <2>1. ASSUME NEW w \in Workers, ResumeWorker(c, w) PROVE \E S : StartWorkers(S)
    BY <2>1 DEF ResumeWorker
  <2>2. QED
    BY <1>1, <1>3, <2>1 DEF CallStep, StopWorker, LoopEnds, CloseStopCh, KillProcess,
       AwaitDone, AwaitTimeout, LeaveAwait, runVars
<1>4. QED
  BY <1>2, <1>3

\* A run builds a command line from its receiver, keeps it until its process is gone,
\* and has none when it ends.
LEMMA RunStepLine ==
  ASSUME IInv, NEW r \in Runs, RunStep(r)
  PROVE  /\ \A q \in Runs \ {r} : rTargets'[q] = rTargets[q]
         /\ \/ rTargets'[r] = rTargets[r] /\ Unfinished(r)'
            \/ rTargets'[r] = {}
            \/ /\ rPc[r] = "build" /\ Unfinished(r)'
               /\ rTargets'[r] = IF wTargets[rWorker[r]] = {} THEN {wKey[rWorker[r]]}
                                 ELSE wTargets[rWorker[r]]
<1> USE DEF OnlyRunMoves, RunGoto, At, Unfinished
<1>1. rPc \in [Runs -> RunPcs] /\ rTargets \in [Runs -> SUBSET Keys]
  BY DEF IInv, TypeOK, RunTypeOK
<1>2. CASE RunTop(r)
  BY <1>1, <1>2 DEF RunTop
<1>3. CASE RunPoll(r)
  BY <1>1, <1>3 DEF RunPoll
<1>4. CASE RunBuild(r)
  BY <1>1, <1>4 DEF RunBuild
<1>5. CASE RunLaunch(r)
  BY <1>1, <1>5 DEF RunLaunch
<1>6. CASE RunRegister(r)
  BY <1>1, <1>6 DEF RunRegister
<1>7. CASE RunWait(r)
  BY <1>1, <1>7 DEF RunWait
<1>8. CASE RunAfter(r)
  BY <1>1, <1>8 DEF RunAfter
<1>9. CASE RunAfterPoll(r)
  BY <1>1, <1>9 DEF RunAfterPoll
<1>10. CASE RunBackoff(r)
  BY <1>1, <1>10 DEF RunBackoff
<1>11. CASE RunSleep(r)
  BY <1>1, <1>11 DEF RunSleep
<1>12. CASE RunExit(r)
  BY <1>1, <1>12 DEF RunExit
<1>13. QED
  BY <1>2, <1>3, <1>4, <1>5, <1>6, <1>7, <1>8, <1>9, <1>10, <1>11, <1>12 DEF RunStep

\* A worker object of the table is there under its key only.
LEMMA TableIsInjective ==
  ASSUME IInv, NEW k \in Keys, workers[k] # None
  PROVE  workers[k] \in Workers \cap Attached /\ wKey[workers[k]] = k
BY DEF IInv, TypeOK, MgrTypeOK, TableMatchesConfig, Attached

LEMMA TableHolds ==
  ASSUME IInv, NEW w \in Attached
  PROVE  w \in Workers /\ wKey[w] \in Keys /\ workers[wKey[w]] = w
<1>1. PICK k \in Keys : w = workers[k] /\ w # None
  BY DEF Attached
<1>2. QED
  BY <1>1, TableIsInjective

\* After Init and Start the workers of single targets have no list of targets.
LEMMA SetTargetsKeeps ==
  ASSUME IInv, LineShape, NEW keys \in SUBSET Keys, NEW drop \in SUBSET Keys,
         keys \cap drop = {},
         EnsureWorkers(keys, drop), NEW shared, NEW ts, SetTargets(shared, ts),
         NEW k \in Targets, workers'[k] # None,
         shared => workers'[k] # workers'[SHARED]
  PROVE  wTargets'[workers'[k]] = {}
<1>1. PICK made \in SUBSET FreeWorkers :
        /\ \A w \in Workers \ made : wKey'[w] = wKey[w]
        /\ \A j \in Keys : \/ workers'[j] = workers[j]
                           \/ j \in drop /\ workers'[j] = None
                           \/ workers[j] = None /\ workers'[j] \in made /\ j \in keys
        /\ Attached' \subseteq Attached \cup made
        /\ made \subseteq Attached'
  BY EnsureWorkersEffect
<1>2. k \in Keys /\ workers'[k] \in Workers
  <2>1. workers' \in [Keys -> Workers \cup {None}]
    BY EnsureWorkersKeeps
  <2>2. QED
    BY <2>1 DEF Keys
<1>3. CASE workers'[k] \in made
  <2>1. workers'[k] \notin Attached
    BY <1>3 DEF FreeWorkers
  <2>2. QED
    BY <1>2, <2>1 DEF SetTargets
<1>4. CASE workers'[k] \notin made
  <2>1. workers'[k] = workers[k] /\ workers[k] # None
    BY <1>1, <1>2, <1>4
  <2>2. workers[k] \in Attached
    BY <1>2, <2>1 DEF Attached
  <2>3. wTargets'[workers'[k]] = wTargets[workers[k]]
    BY <1>2, <2>1, <2>2 DEF SetTargets
  <2>4. QED
    BY <2>1, <2>3 DEF LineShape
<1>5. QED
  BY <1>3, <1>4

\* The keys of the table of a shared configuration.
LEMMA SharedTable ==
  ASSUME TableMatchesConfig, TypeOK, cfg # None, Shared(cfg)
  PROVE  \A k \in Targets : workers[k] = None
BY PublisherAssumption DEF TableMatchesConfig, KeysOf, Keys

LEMMA LineNext == IInv /\ CallerShape /\ LineShape /\ [Next]_vars => LineShape'
<1> SUFFICES ASSUME IInv, CallerShape, LineShape, [Next]_vars PROVE LineShape'
  OBVIOUS
<1>1. IInv'
  BY IInvNext
<1>2. ASSUME NEW c \in Callers, Command(c) \/ CallStep(c)
      PROVE  \A r \in Runs :
               /\ ~Unfinished(r)' => rTargets'[r] = {}
               /\ rWorker'[r] \in Attached' /\ wKey'[rWorker'[r]] \in Targets
                    => rTargets'[r] \subseteq {wKey'[rWorker'[r]]}
  <2> TAKE r \in Runs
  <2>1. rTargets'[r] = rTargets[r]
    BY <1>2, CallerKeepsLines
  <2>2. CASE Unfinished(r)
    BY <1>2, <2>1, <2>2, CallerKeepsRuns, ReceiverStaysInTable DEF LineShape, Unfinished
  <2>3. CASE ~Unfinished(r)
    BY <2>1, <2>3 DEF LineShape
  <2>4. QED
    BY <2>2, <2>3
<1>3. ASSUME NEW c \in Callers, NEW conf \in Configs, InitFFmpegPublisher(c, conf)
      PROVE  /\ cfg' # None
             /\ \A k \in Targets : workers'[k] # None => wTargets'[workers'[k]] = {}
  <2>1. /\ cfg' = conf /\ conf \in Config /\ conf # None
        /\ EnsureWorkers(KeysOf(conf), Dropped(conf))
        /\ SetTargets(Shared(conf), conf.targets)
    BY <1>3, PublisherAssumption DEF InitFFmpegPublisher
  <2>2. ASSUME Shared(conf) PROVE \A k \in Targets : workers'[k] = None
    BY <1>1, <2>1, <2>2, PublisherAssumption
    DEF IInv, TableMatchesConfig, KeysOf, Shared, Keys
  <2>3. ASSUME NEW k \in Targets, workers'[k] # None PROVE wTargets'[workers'[k]] = {}
    <3>1. ~Shared(conf)
      BY <2>2, <2>3
    <3>2. /\ KeysOf(conf) \in SUBSET Keys /\ Dropped(conf) \in SUBSET Keys
          /\ KeysOf(conf) \cap Dropped(conf) = {}
      BY <2>1, KeysOfConfig
    <3>3. QED
      BY <2>1, <2>3, <3>1, <3>2, SetTargetsKeeps
  <2>4. QED
    BY <2>1, <2>3
<1>4. ASSUME NEW c \in Callers, StartFFmpegPublisher(c)
      PROVE  /\ cfg = None => Attached' = {}
             /\ \A k \in Targets : workers'[k] # None => wTargets'[workers'[k]] = {}
  <2>1. /\ EnsureWorkers(StartKeys, {}) /\ StartKeys \in SUBSET Keys
        /\ SetTargets(SHARED \in StartKeys, ActiveTargets) /\ UNCHANGED cfg
    BY <1>4 DEF StartFFmpegPublisher, StartKeys, ActiveTargets, ConfTargets, Keys, IInv,
                TypeOK, MgrTypeOK, Config
  <2>2. cfg = None => Attached' = {}
    <3>1. ASSUME cfg = None, NEW k \in Keys PROVE workers'[k] = None
      <4>1. PICK made \in SUBSET FreeWorkers :
              \A j \in Keys : workers'[j] = workers[j] \/ j \in {} \/ j \in StartKeys
        BY <2>1, EnsureWorkersEffect
      <4>2. StartKeys = {} /\ workers[k] = None
        BY <3>1 DEF StartKeys, LineShape, Attached
      <4>3. QED
        BY <4>1, <4>2
    <3>2. QED
      BY <3>1 DEF Attached
  <2>3. ASSUME SHARED \in StartKeys PROVE \A k \in Targets : workers'[k] = None
    <3>1. cfg # None /\ Shared(cfg)
      BY <2>3, PublisherAssumption DEF StartKeys, ActiveTargets, ConfTargets, IInv, TypeOK,
                MgrTypeOK, Config
    <3>2. \A k \in Targets : workers[k] = None
      BY <3>1, SharedTable DEF IInv
    <3>3. StartKeys \subseteq {SHARED}
      BY <3>1 DEF StartKeys
    <3>4. QED
      BY <2>1, <3>2, <3>3, EnsureWorkersEffect, PublisherAssumption DEF Keys
  <2>4. ASSUME NEW k \in Targets, workers'[k] # None PROVE wTargets'[workers'[k]] = {}
    <3>1. SHARED \notin StartKeys
      BY <2>3, <2>4
    <3>2. {} \in SUBSET Keys /\ StartKeys \cap {} = {}
      OBVIOUS
    <3>3. SetTargets(FALSE, ActiveTargets)
      BY <2>1, <3>1 DEF SetTargets
    <3>4. QED
      BY <2>1, <2>4, <3>2, <3>3, SetTargetsKeeps
  <2>5. QED
    BY <2>2, <2>4
<1>5. ASSUME NEW c \in Callers, Command(c) \/ CallStep(c), ~StartFFmpegPublisher(c),
             \A conf \in Configs : ~InitFFmpegPublisher(c, conf)
      PROVE  UNCHANGED <<cfg, workers, wTargets>>
  <2>1. CASE Command(c)
    BY <1>5, <2>1 DEF Command, StopFFmpegPublisher, PauseFFmpegPublisher,
       ResumeFFmpegPublisher, PauseFFmpegPublisherByURL, ResumeFFmpegPublisherByURL,
       ByURL, mgrVars, workerVars
  <2>2. CASE CallStep(c)
    BY <1>5, <2>2 DEF CallStep, ResumeWorker, StopWorker, LoopEnds, CloseStopCh,
       KillProcess, AwaitDone, AwaitTimeout, LeaveAwait, mgrVars, workerVars
  <2>3. QED
    BY <1>5, <2>1, <2>2
<1>6. ASSUME NEW c \in Callers, Command(c) \/ CallStep(c) PROVE LineShape'
  <2>1. CASE UNCHANGED <<cfg, workers, wTargets>>
    BY <1>2, <1>6, <2>1 DEF LineShape, Attached
  <2>2. ASSUME NEW conf \in Configs, InitFFmpegPublisher(c, conf) PROVE LineShape'
    BY <1>2, <1>3, <1>6, <2>2 DEF LineShape
  <2>3. CASE StartFFmpegPublisher(c)
    BY <1>2, <1>4, <1>6, <2>3 DEF LineShape, StartFFmpegPublisher
  <2>4. QED
    BY <1>5, <1>6, <2>1, <2>2, <2>3
<1>7. ASSUME NEW r \in Runs, RunStep(r) PROVE LineShape'
  <2>1. /\ UNCHANGED <<mgrVars, wKey, wTargets, rWorker>> /\ Unfinished(r)
        /\ \A q \in Runs \ {r} : rPc'[q] = rPc[q] /\ rTargets'[q] = rTargets[q]
    BY <1>7, RunStepEffect, RunStepLine
  <2>2. /\ ~Unfinished(r)' => rTargets'[r] = {}
        /\ rWorker[r] \in Attached /\ wKey[rWorker[r]] \in Targets
             => rTargets'[r] \subseteq {wKey[rWorker[r]]}
    <3>1. rWorker[r] \in Attached /\ wKey[rWorker[r]] \in Targets
            => wTargets[rWorker[r]] = {}
      BY TableHolds, PublisherAssumption DEF LineShape, Keys
    <3>2. rWorker[r] \in Attached /\ wKey[rWorker[r]] \in Targets
            => rTargets[r] \subseteq {wKey[rWorker[r]]}
      BY DEF LineShape
    <3>3. QED
      BY <1>7, <3>1, <3>2, RunStepLine
  <2>3. Attached' = Attached
    BY <2>1 DEF Attached, mgrVars
  <2>4. QED
    BY <2>1, <2>2, <2>3 DEF LineShape, Unfinished, mgrVars
<1>8. CASE UNCHANGED <<mgrVars, workerVars, rPc, rWorker, rTargets>>
  BY <1>8 DEF LineShape, Unfinished, Attached, mgrVars, workerVars
<1>9. ASSUME NEW r \in Runs, MonitorKill(r) \/ ProcStalls(r) \/ ProcExits(r)
      PROVE  LineShape'
  BY <1>8, <1>9 DEF MonitorKill, ProcStalls, ProcExits, OnlyProcMoves
<1>10. CASE UNCHANGED vars
  BY <1>8, <1>10 DEF vars, runVars
<1>11. QED
  BY <1>6, <1>7, <1>9, <1>10 DEF Next, Program, Environment

\* Two processes of the table never publish the same target: they have different
\* workers, so both have a target of their own.
TableLinesApart ==
  \A r1, r2 \in Runs :
    /\ r1 # r2 /\ Up(r1) /\ Up(r2)
    /\ rWorker[r1] \in Attached /\ rWorker[r2] \in Attached
    => rTargets[r1] \cap rTargets[r2] = {}

LEMMA LinesAreDisjoint == IInv /\ LineShape => TableLinesApart
<1> SUFFICES ASSUME IInv, LineShape, NEW r1 \in Runs, NEW r2 \in Runs, r1 # r2,
                    Up(r1), Up(r2), rWorker[r1] \in Attached, rWorker[r2] \in Attached
             PROVE  rTargets[r1] \cap rTargets[r2] = {}
  BY DEF TableLinesApart
<1> DEFINE k1 == wKey[rWorker[r1]]
           k2 == wKey[rWorker[r2]]
<1>1. Unfinished(r1) /\ Unfinished(r2)
  BY DEF IInv, ProcessIsAwaited, Unfinished
<1>2. rWorker[r1] # rWorker[r2]
  BY <1>1 DEF IInv, OneRunPerWorker
<1>3. /\ k1 \in Keys /\ k2 \in Keys /\ k1 # k2
      /\ workers[k1] # None /\ workers[k2] # None
  BY <1>2, TableHolds, PublisherAssumption
<1>4. cfg # None
  BY DEF LineShape
<1>5. {k1, k2} \subseteq KeysOf(cfg)
  BY <1>3, <1>4 DEF IInv, TableMatchesConfig
<1>6. KeysOf(cfg) = {SHARED} \/ KeysOf(cfg) \subseteq Targets
  BY <1>4 DEF KeysOf, IInv, TypeOK, MgrTypeOK, Config
<1>7. k1 \in Targets /\ k2 \in Targets
  BY <1>3, <1>5, <1>6
<1>8. QED
  BY <1>3, <1>7 DEF LineShape

-----------------------------------------------------------------------------
(* Pauses in the command lines, when Init is called once.                  *)

\* Before Init nothing is paused and nothing runs; where the targets share a process
\* no caller is in the loop of a pause or resume by URL.
ModeShape ==
  /\ cfg = None => paused = {} /\ \A r \in Runs : ~Unfinished(r)
  /\ cfg = None \/ Shared(cfg) => \A c \in Callers : cOp[c] \notin {"pause", "resume"}

\* The targets in the command line of r, and in the next one where it is shared.
LineOf(r) == rTargets[r] \cup (IF Shared(cfg) THEN wTargets[rWorker[r]] ELSE {})

\* PauseIsApplied, for the next command line too.
PauseReachesLine ==
  \A r \in Runs :
    Unfinished(r) /\ rWorker[r] \in Attached /\ LineOf(r) \cap paused # {}
    => Told(r) \/ (~Shared(cfg) /\ r \in abandoned)

LEMMA ModeNext ==
  ASSUME "init" \notin Ops, IInv, CallerShape, ModeShape, [Next]_vars
  PROVE  ModeShape'
<1>1. CallTypeOK
  BY DEF IInv, TypeOK
<1>2. ASSUME NEW c \in Callers, Command(c) \/ CallStep(c)
      PROVE  /\ cfg = None \/ Shared(cfg) => cOp'[c] \notin {"pause", "resume"}
             /\ \A d \in Callers \ {c} : cOp'[d] = cOp[d]
  <2>1. \A d \in Callers \ {c} : cOp'[d] = cOp[d]
    BY <1>2, CommandShape, CallStepShape DEF OnlyCallerMoves
  <2>2. ASSUME cfg = None \/ Shared(cfg) PROVE cOp'[c] \notin {"pause", "resume"}
    <3>1. cOp[c] \notin {"pause", "resume"}
      BY <2>2 DEF ModeShape
    <3>2. CASE \E pc : Goto(c, pc)
      BY <1>1, <3>1, <3>2, GotoEffect
    <3>3. CASE \E pc, op : GotoAs(c, op, pc) /\ op \in {"init", "start", "stop", "restart", cOp[c]}
      BY <1>1, <3>1, <3>3, GotoAsEffect
    <3>4. CASE UNCHANGED cOp
      BY <3>1, <3>4
    <3>5. ASSUME NEW url, NEW marks, NEW op, NEW pc, ByURL(c, url, marks, op, pc)
          PROVE  \E p : GotoAs(c, "restart", p)
      <4>1. Resolve(url) # {}
        BY <3>5 DEF ByURL
      <4>2. cfg # None
        BY <4>1 DEF Resolve, ConfTargets
      <4>3. QED
        BY <2>2, <3>5, <4>2 DEF ByURL
    <3>6. CASE Command(c)
      BY <3>2, <3>3, <3>5, <3>6 DEF Command, InitFFmpegPublisher, StartFFmpegPublisher,
         StopFFmpegPublisher, PauseFFmpegPublisher, ResumeFFmpegPublisher,
         PauseFFmpegPublisherByURL, ResumeFFmpegPublisherByURL
    <3>7. CASE CallStep(c)
      BY <3>2, <3>4, <3>7 DEF CallStep, ResumeWorker, StopWorker, LoopEnds, CloseStopCh,
         KillProcess, AwaitDone, AwaitTimeout, LeaveAwait
    <3>8. QED
      BY <1>2, <3>6, <3>7
  <2>3. QED
    BY <2>1, <2>2
<1>3. ASSUME NEW c \in Callers, Command(c) \/ CallStep(c), cfg' = None
      PROVE  cfg = None /\ paused' = {} /\ \A r \in Runs : ~Unfinished(r)'
  <2>1. \A conf \in Configs : ~InitFFmpegPublisher(c, conf)
    BY <1>3, PublisherAssumption DEF InitFFmpegPublisher
  <2>2. cfg = None /\ ConfTargets = {} /\ \A url : Resolve(url) = {}
    <3>1. UNCHANGED cfg
      BY <1>3, <2>1 DEF Command, StartFFmpegPublisher,
         StopFFmpegPublisher, PauseFFmpegPublisher, ResumeFFmpegPublisher,
         PauseFFmpegPublisherByURL, ResumeFFmpegPublisherByURL, ByURL, CallStep, ResumeWorker,
         StopWorker, LoopEnds, CloseStopCh, KillProcess, AwaitDone, AwaitTimeout, LeaveAwait,
         mgrVars
    <3>2. QED
      BY <1>3, <3>1 DEF ConfTargets, Resolve
  <2>3. paused = {} /\ cOp[c] # "resume" /\ \A r \in Runs : ~Unfinished(r)
    BY <2>2 DEF ModeShape
  <2>4. \A w \in Workers : ~ResumeWorker(c, w)
    BY <2>3 DEF ResumeWorker, CallerShape, Shape
  <2>5. \A url : ~PauseFFmpegPublisherByURL(c, url) /\ ~ResumeFFmpegPublisherByURL(c, url)
    BY <2>2 DEF PauseFFmpegPublisherByURL, ResumeFFmpegPublisherByURL, ByURL
  <2>6. CASE StartFFmpegPublisher(c)
    <3>1. StartKeys = {}
      BY <2>2 DEF StartKeys
    <3>2. PICK S \in SUBSET Workers : StartWorkers(S) /\ S = {workers'[k] : k \in StartKeys}
      BY <2>6, StartPublisherStarts
    <3>3. S = {}
      BY <3>1, <3>2
    <3>4. \A r \in Runs : rPc'[r] = rPc[r]
      BY <3>2, <3>3, StartNothing
    <3>5. QED
      BY <2>2, <2>3, <2>6, <3>4 DEF StartFFmpegPublisher, Unfinished
  <2>7. CASE ~StartFFmpegPublisher(c)
    <3>1. UNCHANGED rPc /\ paused' = {}
      BY <1>3, <2>1, <2>2, <2>3, <2>4, <2>5, <2>7 DEF Command,
         StopFFmpegPublisher, PauseFFmpegPublisher, ResumeFFmpegPublisher, CallStep,
         StopWorker, LoopEnds, CloseStopCh, KillProcess, AwaitDone, AwaitTimeout, LeaveAwait,
         mgrVars, runVars
    <3>2. QED
      BY <2>2, <2>3, <3>1 DEF Unfinished
  <2>8. QED
    BY <2>6, <2>7
<1>4. ASSUME NEW c \in Callers, Command(c) \/ CallStep(c) PROVE cfg = None \/ cfg' = cfg
  BY <1>4 DEF Command, InitFFmpegPublisher, StartFFmpegPublisher,
     StopFFmpegPublisher, PauseFFmpegPublisher, ResumeFFmpegPublisher,
     PauseFFmpegPublisherByURL, ResumeFFmpegPublisherByURL, ByURL, CallStep, ResumeWorker,
     StopWorker, LoopEnds, CloseStopCh, KillProcess, AwaitDone, AwaitTimeout, LeaveAwait,
     mgrVars
<1>5. ASSUME NEW c \in Callers, Command(c) \/ CallStep(c) PROVE ModeShape'
  <2>1. ASSUME cfg' = None \/ Shared(cfg)'
        PROVE  \A d \in Callers : cOp'[d] \notin {"pause", "resume"}
    <3>1. cfg = None \/ Shared(cfg)
      BY <1>4, <1>5, <2>1 DEF Shared
    <3>2. QED
      BY <1>2, <1>5, <3>1 DEF ModeShape
  <2>2. QED
    BY <1>3, <1>5, <2>1 DEF ModeShape
<1>6. ASSUME NEW r \in Runs, RunStep(r) PROVE ModeShape'
  <2>1. /\ UNCHANGED <<cfg, paused, cOp>> /\ Unfinished(r)
        /\ \A q \in Runs \ {r} : rPc'[q] = rPc[q]
    BY <1>6, RunStepEffect DEF mgrVars, callVars
  <2>2. QED
    BY <2>1 DEF ModeShape, Unfinished, Shared
<1>7. CASE UNCHANGED <<mgrVars, rPc, callVars>>
  BY <1>7 DEF ModeShape, Unfinished, Shared, mgrVars, callVars
<1>8. ASSUME NEW r \in Runs, MonitorKill(r) \/ ProcStalls(r) \/ ProcExits(r) PROVE ModeShape'
  BY <1>7, <1>8 DEF MonitorKill, ProcStalls, ProcExits, OnlyProcMoves
<1>9. CASE UNCHANGED vars
  BY <1>7, <1>9 DEF vars, runVars
<1>10. QED
  BY <1>5, <1>6, <1>8, <1>9 DEF Next, Program, Environment

\* What a step of a caller leaves in the command lines: the lines of the loops that
\* ran, and for a shared loop the targets Start found not paused.
LEMMA CallerLines ==
  ASSUME "init" \notin Ops, IInv, CallerShape, LineShape, ModeShape,
         NEW c \in Callers, Command(c) \/ CallStep(c), cfg # None,
         NEW r \in Runs, Unfinished(r)', rWorker'[r] \in Attached'
  PROVE  /\ UNCHANGED cfg
         /\ Unfinished(r) => LineOf(r)' \cap paused' \subseteq LineOf(r)
         /\ ~Unfinished(r) => LineOf(r)' \cap paused' = {}
<1>1. UNCHANGED cfg /\ rTargets' = rTargets /\ Shared(cfg)' = Shared(cfg)
      /\ \A conf \in Configs : ~InitFFmpegPublisher(c, conf)
  <2>1. \A conf \in Configs : ~InitFFmpegPublisher(c, conf)
    BY DEF InitFFmpegPublisher
  <2>2. UNCHANGED cfg
    BY <2>1 DEF Command, StartFFmpegPublisher,
       StopFFmpegPublisher, PauseFFmpegPublisher, ResumeFFmpegPublisher,
       PauseFFmpegPublisherByURL, ResumeFFmpegPublisherByURL, ByURL, CallStep, ResumeWorker,
       StopWorker, LoopEnds, CloseStopCh, KillProcess, AwaitDone, AwaitTimeout, LeaveAwait,
       mgrVars
  <2>3. QED
    BY <2>1, <2>2, CallerKeepsLines DEF Shared
<1>2. /\ Unfinished(r) => rWorker'[r] = rWorker[r] /\ rWorker[r] \in Attached
      /\ ~Unfinished(r) => rTargets[r] = {}
  BY CallerKeepsRuns, ReceiverStaysInTable DEF LineShape
<1>3. CASE ~Shared(cfg)
  BY <1>1, <1>2, <1>3 DEF LineOf
<1>4. CASE Shared(cfg) /\ StartFFmpegPublisher(c)
  <2>1. /\ EnsureWorkers(StartKeys, {}) /\ UNCHANGED paused
        /\ SetTargets(SHARED \in StartKeys, ActiveTargets)
    BY <1>4 DEF StartFFmpegPublisher, StartKeys
  <2>2. /\ StartKeys = {} \/ StartKeys = {SHARED}
        /\ \A k \in Targets : workers[k] = None
        /\ SHARED \in Keys
        /\ {} \in SUBSET Keys
    BY <1>4, SharedTable DEF StartKeys, IInv, Keys
  <2>3. PICK S \in SUBSET Workers : StartWorkers(S) /\ S = {workers'[k] : k \in StartKeys}
    BY <1>4, StartPublisherStarts
  <2>4. CASE StartKeys = {}
    <3>1. S = {}
      BY <2>3, <2>4
    <3>2. rPc'[r] = rPc[r]
      BY <2>3, <3>1, StartNothing
    <3>3. Unfinished(r)
      BY <3>2 DEF Unfinished
    <3>4. wTargets'[rWorker[r]] = wTargets[rWorker[r]]
      <4>1. rWorker[r] \in Workers /\ rWorker[r] \in Attached
        BY <1>2, <3>3, AttachedAreWorkers DEF IInv
      <4>2. SHARED \notin StartKeys
        BY <2>4
      <4>3. QED
        BY <2>1, <4>1, <4>2 DEF SetTargets
    <3>5. QED
      BY <1>1, <1>2, <3>3, <3>4 DEF LineOf
  <2>5. CASE StartKeys = {SHARED}
    <3>1. \A k \in Targets : workers'[k] = None
      <4>1. IInv'
        BY <1>4, StartPublisherKeeps
      <4>2. QED
        BY <1>1, <1>4, <4>1, PublisherAssumption
        DEF IInv, TableMatchesConfig, KeysOf, Shared, Keys
    <3>2. rWorker'[r] = workers'[SHARED]
      BY <3>1 DEF Attached, Keys
    <3>3. rWorker'[r] \in Workers
      <4>1. IInv'
        BY <1>4, StartPublisherKeeps
      <4>2. QED
        BY <4>1 DEF IInv, OneRunPerWorker
    <3>4. wTargets'[rWorker'[r]] = ActiveTargets
      <4>1. SHARED \in StartKeys
        BY <2>5
      <4>2. QED
        BY <2>1, <3>2, <3>3, <4>1 DEF SetTargets
    <3>5. wTargets'[rWorker'[r]] \cap paused' = {}
      BY <2>1, <3>4 DEF ActiveTargets
    <3>6. QED
      BY <1>1, <1>2, <3>5 DEF LineOf
  <2>6. QED
    BY <2>2, <2>4, <2>5
<1>5. CASE Shared(cfg) /\ ~StartFFmpegPublisher(c)
  <2>1. cOp[c] # "resume"
    BY <1>5 DEF ModeShape
  <2>2. \A w \in Workers : ~ResumeWorker(c, w)
    BY <2>1 DEF ResumeWorker, CallerShape, Shape
  <2>3. UNCHANGED <<wTargets, rPc>>
    BY <1>1, <1>5, <2>2 DEF Command,
       StopFFmpegPublisher, PauseFFmpegPublisher, ResumeFFmpegPublisher,
       PauseFFmpegPublisherByURL, ResumeFFmpegPublisherByURL, ByURL, CallStep,
       StopWorker, LoopEnds, CloseStopCh, KillProcess, AwaitDone, AwaitTimeout, LeaveAwait,
       workerVars, runVars
  <2>4. Unfinished(r)
    BY <2>3 DEF Unfinished
  <2>5. QED
    BY <1>1, <1>2, <2>3, <2>4 DEF LineOf
<1>6. QED
  BY <1>3, <1>4, <1>5

\* A paused target leaves every command line of the table, or its loop is told.
LEMMA LinePauseNext ==
  ASSUME "init" \notin Ops, IInv, CallerShape, LineShape, ModeShape, PauseIsNotLost,
         PauseReachesLine, [Next]_vars
  PROVE  PauseReachesLine'
<1>1. ASSUME NEW c \in Callers, Command(c) \/ CallStep(c) PROVE PauseReachesLine'
  <2> SUFFICES ASSUME NEW r \in Runs, Unfinished(r)', rWorker'[r] \in Attached',
                      NEW t \in LineOf(r)' \cap paused'
               PROVE  Told(r)' \/ (~Shared(cfg)' /\ r \in abandoned')
    BY DEF PauseReachesLine
  <2>1. CASE cfg # None
    <3>1. UNCHANGED cfg /\ Unfinished(r) /\ t \in LineOf(r)
      BY <1>1, <2>1, CallerLines
    <3>2. /\ rWorker[r] \in Attached /\ rWorker'[r] = rWorker[r]
          /\ r \in abandoned => r \in abandoned'
      BY <1>1, <3>1, CallerKeepsRuns, ReceiverStaysInTable
    <3>3. Shared(cfg)' = Shared(cfg)
      BY <3>1 DEF Shared
    <3>4. CASE t \in paused
      <4>1. Told(r) \/ (~Shared(cfg) /\ r \in abandoned)
        BY <3>1, <3>2, <3>4 DEF PauseReachesLine
      <4>2. Told(r) => Told(r)' \/ (r \in abandoned' /\ cOp[c] = "pause" /\ rWorker[r] \in cPend[c])
        BY <1>1, <3>1, <3>2, ToldStays
      <4>3. Shared(cfg) => cOp[c] # "pause"
        BY DEF ModeShape
      <4>4. QED
        BY <3>2, <3>3, <4>1, <4>2, <4>3
    <3>5. CASE t \notin paused
      <4>1. t = wKey[rWorker[r]] \/ Shared(cfg)
        <5>1. ASSUME ~Shared(cfg) PROVE wKey[rWorker[r]] \in Targets
          <6>1. wKey[rWorker[r]] \in KeysOf(cfg)
            BY <2>1, <3>2, TableHolds, PublisherAssumption DEF IInv, TableMatchesConfig
          <6>2. QED
            BY <2>1, <5>1, <6>1 DEF KeysOf, IInv, TypeOK, MgrTypeOK, Config
        <5>2. QED
          BY <3>1, <3>2, <5>1 DEF LineShape, LineOf
      <4>2. QED
        BY <1>1, <2>1, <3>1, <3>2, <3>5, <4>1, MarkingTells DEF Told
    <3>6. QED
      BY <3>4, <3>5
  <2>2. CASE cfg = None
    <3>1. ~Unfinished(r)
      BY <2>2 DEF ModeShape
    <3>2. \A conf \in Configs : ~InitFFmpegPublisher(c, conf)
      <4>1. ASSUME NEW conf \in Configs, InitFFmpegPublisher(c, conf) PROVE Unfinished(r)
        BY <4>1 DEF InitFFmpegPublisher, runVars, Unfinished
      <4>2. QED
        BY <3>1, <4>1
    <3>3. cOp[c] # "resume"
      BY <2>2 DEF ModeShape
    <3>4. \A w \in Workers : ~ResumeWorker(c, w)
      BY <3>3 DEF ResumeWorker, CallerShape, Shape
    <3>5. ~StartFFmpegPublisher(c)
      <4>1. ASSUME StartFFmpegPublisher(c) PROVE FALSE
        <5>1. PICK S \in SUBSET Workers : StartWorkers(S) /\ S = {workers'[k] : k \in StartKeys}
          BY <4>1, StartPublisherStarts
        <5>2. S = {}
          BY <2>2, <5>1 DEF StartKeys
        <5>3. rPc'[r] = rPc[r]
          BY <5>1, <5>2, StartNothing
        <5>4. QED
          BY <3>1, <5>3 DEF Unfinished
      <4>2. QED
        BY <4>1
    <3>6. UNCHANGED rPc
      BY <1>1, <3>2, <3>4, <3>5 DEF Command,
         StopFFmpegPublisher, PauseFFmpegPublisher, ResumeFFmpegPublisher,
         PauseFFmpegPublisherByURL, ResumeFFmpegPublisherByURL, ByURL, CallStep,
         StopWorker, LoopEnds, CloseStopCh, KillProcess, AwaitDone, AwaitTimeout, LeaveAwait,
         runVars
    <3>7. QED
      BY <3>1, <3>6 DEF Unfinished
  <2>3. QED
    BY <2>1, <2>2
<1>2. ASSUME NEW r \in Runs, RunStep(r) PROVE PauseReachesLine'
  <2>1. /\ UNCHANGED <<mgrVars, wKey, wTargets, rWorker, rStop, callVars, abandoned>>
        /\ Unfinished(r)
        /\ \A q \in Runs \ {r} : rPc'[q] = rPc[q] /\ rTargets'[q] = rTargets[q]
    BY <1>2, RunStepEffect, RunStepLine
  <2>2. /\ Attached' = Attached /\ paused' = paused /\ Shared(cfg)' = Shared(cfg)
        /\ \A q \in Runs : Told(q)' = Told(q)
    BY <2>1 DEF Attached, Shared, Told, WillClose, SomePanic, mgrVars, callVars
  <2>3. cfg # None
    BY <2>1 DEF ModeShape
  <2>4. ASSUME rWorker[r] \in Attached, NEW t \in LineOf(r)' \cap paused
        PROVE  Told(r) \/ (~Shared(cfg) /\ r \in abandoned)
    <3>1. CASE t \in LineOf(r)
      BY <2>1, <2>4, <3>1 DEF PauseReachesLine
    <3>2. CASE t \notin LineOf(r)
      <4>1. rTargets'[r] # rTargets[r] /\ t \in rTargets'[r]
        BY <2>1, <2>2, <3>2 DEF LineOf
      <4>2. /\ rPc[r] = "build"
            /\ rTargets'[r] = IF wTargets[rWorker[r]] = {} THEN {wKey[rWorker[r]]}
                              ELSE wTargets[rWorker[r]]
        BY <1>2, <4>1, RunStepLine
      <4>3. wKey[rWorker[r]] \in KeysOf(cfg) /\ workers[wKey[rWorker[r]]] = rWorker[r]
            /\ rWorker[r] # None
        BY <2>3, <2>4, TableHolds, PublisherAssumption DEF IInv, TableMatchesConfig
      <4>4. CASE Shared(cfg)
        <5>1. wKey[rWorker[r]] = SHARED
          BY <4>3, <4>4 DEF KeysOf
        <5>2. t # SHARED
          BY <2>4, PublisherAssumption DEF IInv, TypeOK, MgrTypeOK
        <5>3. t \in wTargets[rWorker[r]]
          BY <4>1, <4>2, <5>1, <5>2
        <5>4. QED
          BY <3>2, <4>4, <5>3 DEF LineOf
      <4>5. CASE ~Shared(cfg)
        <5>1. wKey[rWorker[r]] \in Targets
          BY <2>3, <4>3, <4>5 DEF KeysOf, IInv, TypeOK, MgrTypeOK, Config
        <5>2. wTargets[rWorker[r]] = {}
          BY <4>3, <5>1 DEF LineShape
        <5>3. t = wKey[rWorker[r]]
          BY <4>1, <4>2, <5>2
        <5>4. IsPaused(r)
          BY <2>4, <5>3 DEF IsPaused
        <5>5. QED
          BY <2>1, <2>4, <4>2, <4>5, <5>4 DEF PauseIsNotLost, Told
      <4>6. QED
        BY <4>4, <4>5
    <3>3. QED
      BY <3>1, <3>2
  <2>5. ASSUME NEW q \in Runs, Unfinished(q)', rWorker'[q] \in Attached',
               LineOf(q)' \cap paused' # {}
        PROVE  Told(q)' \/ (~Shared(cfg)' /\ q \in abandoned')
    <3>1. CASE q = r
      BY <2>1, <2>2, <2>4, <2>5, <3>1
    <3>2. CASE q # r
      <4>1. Unfinished(q) /\ LineOf(q)' = LineOf(q)
        BY <2>1, <2>2, <2>5, <3>2 DEF Unfinished, LineOf
      <4>2. QED
        BY <2>1, <2>2, <2>5, <4>1 DEF PauseReachesLine
    <3>3. QED
      BY <3>1, <3>2
  <2>6. QED
    BY <2>5 DEF PauseReachesLine
<1>3. CASE UNCHANGED <<mgrVars, workerVars, rPc, rWorker, rTargets, rStop, callVars, abandoned>>
  BY <1>3 DEF PauseReachesLine, Unfinished, LineOf, Shared, Told, WillClose, SomePanic,
              Attached, mgrVars, workerVars, callVars
<1>4. ASSUME NEW r \in Runs, MonitorKill(r) \/ ProcStalls(r) \/ ProcExits(r)
      PROVE  PauseReachesLine'
  BY <1>3, <1>4 DEF MonitorKill, ProcStalls, ProcExits, OnlyProcMoves
<1>5. CASE UNCHANGED vars
  BY <1>3, <1>5 DEF vars, runVars
<1>6. QED
  BY <1>1, <1>2, <1>4, <1>5 DEF Next, Program, Environment

-----------------------------------------------------------------------------
(* The status of a worker.                                                 *)

\* Where a loop whose worker says "Running" can be: it registered a process and did
\* not reset the status yet.
Registered == {"wait", "after", "afterPoll", "backoff", "exit"}

\* The status of worker w is that of its run.
StatusOf(w) ==
  /\ wRunning[w] => wStatus[w] \in {"Starting", "Running", "Retrying"}
  /\ wStatus[w] = "Running" =>
       /\ wRunning[w] /\ rPc[wRun[w]] \in Registered
       /\ wCmd[w] # 0 /\ wCmd[w] = rProcs[wRun[w]]

StatusShape ==
  /\ \A w \in Workers : StatusOf(w)
  /\ \A r \in Runs : rPc[r] = "register" => rProcs[r] # 0

LEMMA StatusInit == Init => StatusShape
BY DEF Init, StatusShape, StatusOf

\* A new loop has the status "Starting".
LEMMA StatusStart ==
  ASSUME IInv, StatusShape, NEW S \in SUBSET Workers, StartWorkers(S)
  PROVE  StatusShape'
<1>1. ASSUME NEW w \in Workers, w \in S /\ ~wRunning[w] PROVE StatusOf(w)'
  BY <1>1, StartWorkersEffect DEF StatusOf
<1>2. ASSUME NEW w \in Workers, ~(w \in S /\ ~wRunning[w]) PROVE StatusOf(w)'
  <2>1. /\ wRunning'[w] = wRunning[w] /\ wStatus'[w] = wStatus[w]
        /\ wRun'[w] = wRun[w] /\ wCmd'[w] = wCmd[w]
    BY <1>2, StartWorkersEffect
  <2>2. CASE wRunning[w]
    <3>1. wRun[w] \in Runs /\ Unfinished(wRun[w])
      BY <2>2 DEF IInv, OneRunPerWorker
    <3>2. wRun[w] \notin FreeRuns
      BY <3>1 DEF FreeRuns, Unfinished
    <3>3. rPc'[wRun[w]] = rPc[wRun[w]] /\ rProcs'[wRun[w]] = rProcs[wRun[w]]
      BY <3>1, <3>2, StartWorkersEffect
    <3>4. QED
      BY <2>1, <3>3 DEF StatusShape, StatusOf
  <2>3. CASE ~wRunning[w]
    BY <2>1, <2>3 DEF StatusShape, StatusOf
  <2>4. QED
    BY <2>2, <2>3
<1>3. ASSUME NEW r \in Runs, rPc'[r] = "register" PROVE rProcs'[r] # 0
  BY <1>3, StartWorkersEffect DEF StatusShape
<1>4. QED
  BY <1>1, <1>2, <1>3 DEF StatusShape

\* A step of run r keeps the status if it keeps that of its receiver.
LEMMA StatusOfOthers ==
  ASSUME IInv, StatusShape, NEW r \in Runs, NEW w \in Workers, rWorker[r] = w,
         UNCHANGED wRun,
         \A v \in Workers \ {w} :
           wRunning'[v] = wRunning[v] /\ wStatus'[v] = wStatus[v] /\ wCmd'[v] = wCmd[v],
         \A q \in Runs \ {r} : rPc'[q] = rPc[q] /\ rProcs'[q] = rProcs[q],
         StatusOf(w)', rPc'[r] = "register" => rProcs'[r] # 0
  PROVE  StatusShape'
<1>1. ASSUME NEW v \in Workers \ {w} PROVE StatusOf(v)'
  <2>1. wRunning[v] => wRun[v] \in Runs \ {r}
    BY DEF IInv, OneRunPerWorker
  <2>2. QED
    BY <2>1 DEF StatusShape, StatusOf
<1>2. QED
  BY <1>1 DEF StatusShape

\* Every step of a run keeps the status of its receiver.
LEMMA StatusRunStep ==
  ASSUME IInv, StatusShape, NEW r \in Runs, RunStep(r)
  PROVE  StatusShape'
<1> USE DEF RunGoto, At, workerVars
<1>0. PICK w \in Workers : w = rWorker[r] /\ wRunning[w] /\ wRun[w] = r
  BY RunStepEffect, ReceiverOfRun
<1>1. /\ rWorker[r] = w /\ wRunning[w] /\ wRun[w] = r
      /\ StatusOf(w)
      /\ \A q \in Runs \ {r} : rPc'[q] = rPc[q]
      /\ UNCHANGED wRun
      /\ rPc[r] = "register" => rProcs[r] # 0
  BY <1>0, RunStepEffect DEF StatusShape
<1>2. /\ rPc \in [Runs -> RunPcs] /\ rProcs \in [Runs -> Nat]
      /\ wRunning \in [Workers -> BOOLEAN] /\ wStatus \in [Workers -> Statuses]
      /\ wCmd \in [Workers -> Nat]
  BY DEF IInv, TypeOK, RunTypeOK, WorkerTypeOK
<1>3. ASSUME UNCHANGED <<wRunning, wStatus, wCmd, rProcs>>,
             rPc'[r] # "register",
             rPc[r] \in Registered => rPc'[r] \in Registered
      PROVE  StatusShape'
  BY <1>1, <1>3, StatusOfOthers DEF StatusOf
<1>4. CASE RunTop(r)
  BY <1>2, <1>3, <1>4 DEF RunTop, OnlyRunMoves, Registered
<1>5. CASE RunPoll(r)
  BY <1>2, <1>3, <1>5 DEF RunPoll, OnlyRunMoves, Registered
<1>6. CASE RunBuild(r)
  BY <1>2, <1>3, <1>6 DEF RunBuild, Registered
<1>7. CASE RunLaunch(r)
  <2>1. rPc[r] = "launch" /\ UNCHANGED <<wRunning, wStatus, wCmd>>
    BY <1>7 DEF RunLaunch
  <2>2. wStatus[w] # "Running"
    BY <1>1, <2>1 DEF StatusOf, Registered
  <2>3. StatusOf(w)'
    BY <1>1, <2>1, <2>2, RunStepEffect DEF StatusOf
  <2>4. /\ \A q \in Runs \ {r} : rProcs'[q] = rProcs[q]
        /\ rPc'[r] = "register" => rProcs'[r] # 0
    BY <1>2, <1>7 DEF RunLaunch
  <2>5. QED
    BY <1>1, <2>1, <2>3, <2>4, StatusOfOthers
<1>8. CASE RunRegister(r)
  <2>1. /\ wCmd' = [wCmd EXCEPT ![w] = rProcs[r]]
        /\ wStatus' = [wStatus EXCEPT ![w] = "Running"]
        /\ rPc' = [rPc EXCEPT ![r] = "wait"] /\ rPc[r] = "register"
        /\ UNCHANGED <<wRunning, wRun, rWorker, rProcs>>
    BY <1>1, <1>8 DEF RunRegister
  <2>2. StatusOf(w)'
    BY <1>1, <1>2, <2>1 DEF StatusOf, Registered
  <2>3. QED
    BY <1>1, <1>2, <2>1, <2>2, StatusOfOthers
<1>9. CASE RunWait(r)
  BY <1>2, <1>3, <1>9 DEF RunWait, Registered
<1>10. CASE RunAfter(r)
  BY <1>2, <1>3, <1>10 DEF RunAfter, OnlyRunMoves, Registered
<1>11. CASE RunAfterPoll(r)
  BY <1>2, <1>3, <1>11 DEF RunAfterPoll, OnlyRunMoves, Registered
<1>12. CASE RunBackoff(r)
  <2>1. /\ wStatus' = [wStatus EXCEPT ![w] = "Retrying"]
        /\ rPc' = [rPc EXCEPT ![r] = "sleep"]
        /\ UNCHANGED <<wRunning, wCmd, wRun, rWorker, rProcs>>
    BY <1>1, <1>12 DEF RunBackoff
  <2>2. StatusOf(w)'
    BY <1>1, <1>2, <2>1 DEF StatusOf
  <2>3. QED
    BY <1>1, <1>2, <2>1, <2>2, StatusOfOthers
<1>13. CASE RunSleep(r)
  BY <1>2, <1>3, <1>13 DEF RunSleep, OnlyRunMoves, Registered
<1>14. CASE RunExit(r)
  <2>1. /\ wStatus' = [wStatus EXCEPT ![w] = "Stopped"]
        /\ wRunning' = [wRunning EXCEPT ![w] = FALSE]
        /\ wCmd' = [wCmd EXCEPT ![w] = 0]
        /\ rPc' = [rPc EXCEPT ![r] = "done"]
        /\ UNCHANGED <<wRun, rWorker, rProcs>>
    BY <1>1, <1>14 DEF RunExit, ClearRunning
  <2>2. StatusOf(w)'
    BY <1>1, <1>2, <2>1 DEF StatusOf
  <2>3. QED
    BY <1>1, <1>2, <2>1, <2>2, StatusOfOthers
<1>15. QED
  BY <1>4, <1>5, <1>6, <1>7, <1>8, <1>9, <1>10, <1>11, <1>12, <1>13, <1>14 DEF RunStep

LEMMA StatusNext == IInv /\ StatusShape /\ [Next]_vars => StatusShape'
<1> SUFFICES ASSUME IInv, StatusShape, [Next]_vars PROVE StatusShape'
  OBVIOUS
<1>1. CASE UNCHANGED <<wRunning, wStatus, wCmd, wRun, rPc, rProcs>>
  BY <1>1 DEF StatusShape, StatusOf
<1>2. ASSUME NEW c \in Callers, Command(c) PROVE StatusShape'
  <2>1. CASE StartFFmpegPublisher(c)
    BY <2>1, StartPublisherStarts, StatusStart
  <2>2. CASE ~StartFFmpegPublisher(c)
    BY <1>1, <1>2, <2>2 DEF Command, InitFFmpegPublisher,
       StopFFmpegPublisher, PauseFFmpegPublisher, ResumeFFmpegPublisher,
       PauseFFmpegPublisherByURL, ResumeFFmpegPublisherByURL, ByURL, workerVars, runVars
  <2>3. QED
    BY <2>1, <2>2
<1>3. ASSUME NEW c \in Callers, CallStep(c) PROVE StatusShape'
  <2>1. ASSUME NEW w \in Workers, ResumeWorker(c, w) PROVE StatusShape'
    <3>1. StartWorkers({w}) /\ {w} \in SUBSET Workers
      BY <2>1 DEF ResumeWorker
    <3>2. QED
      BY <3>1, StatusStart
  <2>2. CASE \A w \in Workers : ~ResumeWorker(c, w)
    BY <1>1, <1>3, <2>2 DEF CallStep, StopWorker, LoopEnds, CloseStopCh,
       KillProcess, AwaitDone, AwaitTimeout, LeaveAwait, workerVars, runVars
  <2>3. QED
    BY <2>1, <2>2
<1>4. ASSUME NEW r \in Runs, RunStep(r) PROVE StatusShape'
  BY <1>4, StatusRunStep
<1>5. ASSUME NEW r \in Runs, MonitorKill(r) \/ ProcStalls(r) \/ ProcExits(r) PROVE StatusShape'
  BY <1>1, <1>5 DEF MonitorKill, ProcStalls, ProcExits, OnlyProcMoves, workerVars
<1>6. CASE UNCHANGED vars
  BY <1>1, <1>6 DEF vars, workerVars, runVars
<1>7. QED
  BY <1>2, <1>3, <1>4, <1>5, <1>6 DEF Next, Program, Environment

\* So what the snapshot says of a target that is not paused is true.
LEMMA StatusHolds == IInv /\ StatusShape => StatusIsTruthful
<1> SUFFICES ASSUME IInv, StatusShape, cfg # None, NEW t \in cfg.targets \ paused,
                    NEW w, w = workers[IF Shared(cfg) THEN SHARED ELSE t]
             PROVE  /\ WorkerStatus(w) = "Stopped" => \A r \in Runs : rWorker[r] = w => ~Up(r)
                    /\ WorkerStatus(w) = "Running" => wCmd[w] # 0 /\ wCmd[w] = rProcs[wRun[w]]
  BY DEF StatusIsTruthful, StatusSnapshot
<1>1. w \in Workers /\ w # None
  <2>1. (IF Shared(cfg) THEN SHARED ELSE t) \in KeysOf(cfg)
    BY DEF KeysOf
  <2>2. KeysOf(cfg) = {k \in Keys : workers[k] # None}
    BY DEF IInv, TableMatchesConfig
  <2>3. QED
    BY <2>1, <2>2, TableIsInjective
<1>2. StatusOf(w)
  BY <1>1 DEF StatusShape
<1>3. ASSUME WorkerStatus(w) = "Stopped", NEW r \in Runs, rWorker[r] = w PROVE ~Up(r)
  <2>1. ~wRunning[w]
    BY <1>1, <1>2, <1>3 DEF WorkerStatus, StatusOf
  <2>2. ~Unfinished(r)
    BY <1>3, <2>1 DEF IInv, OneRunPerWorker
  <2>3. QED
    BY <2>2 DEF IInv, ProcessIsAwaited, Unfinished
<1>4. ASSUME WorkerStatus(w) = "Running" PROVE wCmd[w] # 0 /\ wCmd[w] = rProcs[wRun[w]]
  BY <1>1, <1>2, <1>4 DEF WorkerStatus, StatusOf
<1>5. QED
  BY <1>3, <1>4

-----------------------------------------------------------------------------
(* One caller.                                                             *)

\* With a single caller the workers it has to stop or resume are in the table, a
\* stopCh it is about to close is open unless it gave up on that run before, and a
\* loop that left the table was told.
OneCallerShape ==
  /\ \A c \in Callers : cPend[c] \subseteq Attached
  /\ \A c \in Callers : \A r \in cClose[c] : rStop[r] => r \in abandoned
  /\ DetachedIsStopped
  /\ PanicNeedsAbandonedStop

\* The run of a running worker was told to stop only if the caller gave up on it.
LEMMA IdleCallerGaveUp ==
  ASSUME \A c, d \in Callers : c = d, IInv, CallerShape, StoppingIsAttended,
         NEW c \in Callers, cPc[c] \in {"idle", "loop"},
         NEW w \in Workers, wRunning[w]
  PROVE  wRun[w] \in Runs /\ (rStop[wRun[w]] => wRun[w] \in abandoned)
<1>1. wRun[w] \in Runs /\ Unfinished(wRun[w])
  BY DEF IInv, OneRunPerWorker
<1>2. ~SomePanic /\ ~Attended(wRun[w])
  BY DEF SomePanic, Attended
<1>3. QED
  BY <1>1, <1>2 DEF StoppingIsAttended

LEMMA OneCallerCommand ==
  ASSUME \A c, d \in Callers : c = d, IInv, CallerShape, StoppingIsAttended,
         OneCallerShape, NEW c \in Callers, Command(c)
  PROVE  OneCallerShape'
<1>1. CallTypeOK /\ Shape(c) /\ cPc[c] # "panicked"
      /\ cPc[c] \in {"idle", "snapshot", "start"}
  BY PanicIsFinal
  DEF IInv, TypeOK, CallerShape, Command, InitFFmpegPublisher, StartFFmpegPublisher,
      StopFFmpegPublisher, PauseFFmpegPublisher, ResumeFFmpegPublisher, PauseFFmpegPublisherByURL,
      ResumeFFmpegPublisherByURL, ByURL, Enters
<1>2. ~SomePanic'
  <2>1. cPc'[c] # "panicked"
    <3>1. ASSUME NEW pc, NEW op, pc # "panicked", Goto(c, pc) \/ GotoAs(c, op, pc)
          PROVE  cPc'[c] # "panicked"
      BY <1>1, <3>1, GotoEffect, GotoAsEffect
    <3>2. ASSUME NEW conf \in Configs, InitFFmpegPublisher(c, conf)
          PROVE  \E pc, op : pc # "panicked" /\ GotoAs(c, op, pc)
      BY <3>2 DEF InitFFmpegPublisher
    <3>3. ASSUME NEW url \in Targets,
                 PauseFFmpegPublisherByURL(c, url) \/ ResumeFFmpegPublisherByURL(c, url)
          PROVE  \E pc, op : pc # "panicked" /\ GotoAs(c, op, pc)
      BY <3>3 DEF PauseFFmpegPublisherByURL, ResumeFFmpegPublisherByURL, ByURL
    <3>4. QED
      BY <3>1, <3>2, <3>3 DEF Command, StartFFmpegPublisher, StopFFmpegPublisher,
         PauseFFmpegPublisher, ResumeFFmpegPublisher
  <2>2. QED
    BY <2>1 DEF SomePanic
<1>3. cPend'[c] \subseteq Attached'
  <2>1. CASE cPend'[c] = {}
    BY <2>1
  <2>2. CASE UNCHANGED cPend
    BY <1>1, <2>2 DEF Shape
  <2>3. CASE StopFFmpegPublisher(c)
    BY <1>1, <2>3 DEF StopFFmpegPublisher, CallTypeOK, Attached, mgrVars
  <2>4. ASSUME NEW url \in Targets, NEW marks, NEW op, NEW pc, ByURL(c, url, marks, op, pc)
        PROVE  cPend'[c] \subseteq Attached'
    <3>1. cPend'[c] \subseteq {workers[k] : k \in Resolve(url)} \ {None} /\ UNCHANGED workers
      BY <1>1, <2>4 DEF ByURL, CallTypeOK
    <3>2. Resolve(url) \subseteq Keys
      BY DEF Resolve, ConfTargets, Keys, IInv, TypeOK, MgrTypeOK, Config
    <3>3. QED
      BY <3>1, <3>2 DEF Attached
  <2>5. QED
    BY <2>2, <2>3, <2>4 DEF Command, InitFFmpegPublisher, StartFFmpegPublisher,
       PauseFFmpegPublisher, ResumeFFmpegPublisher, PauseFFmpegPublisherByURL,
       ResumeFFmpegPublisherByURL
<1>4. ASSUME NEW conf \in Configs, InitFFmpegPublisher(c, conf)
      PROVE  /\ \A r \in cClose'[c] : rStop'[r] => r \in abandoned'
             /\ \A r \in Runs : Unfinished(r) /\ rWorker[r] \in Attached
                                /\ rWorker[r] \notin Attached' => WillClose(r)'
  <2> DEFINE gone == {workers[k] : k \in Dropped(conf)}
             stopping == {wRun[w] : w \in {v \in gone : Stoppable(v)}}
  <2>1. /\ cPc[c] = "idle"
        /\ EnsureWorkers(KeysOf(conf), Dropped(conf))
        /\ GotoAs(c, "init", IF stopping = {} THEN "idle" ELSE "close")
        /\ cClose' = [cClose EXCEPT ![c] = stopping]
        /\ UNCHANGED <<rStop, rWorker, abandoned>>
    BY <1>4 DEF InitFFmpegPublisher, runVars
  <2>2. cClose'[c] = stopping /\ gone \subseteq Workers
    BY <1>1, <2>1 DEF CallTypeOK, Dropped, IInv, TypeOK, MgrTypeOK
  <2>3. \A r \in stopping : rStop[r] => r \in abandoned
    BY <2>1, <2>2, IdleCallerGaveUp DEF Stoppable
  <2>4. ASSUME NEW r \in Runs, Unfinished(r), rWorker[r] \in Attached, rWorker[r] \notin Attached'
        PROVE  WillClose(r)'
    <3>1. /\ rWorker[r] \in Workers /\ wRunning[rWorker[r]] /\ wRun[rWorker[r]] = r
      BY <2>4 DEF IInv, OneRunPerWorker
    <3>2. PICK k \in Keys : workers[k] = rWorker[r] /\ workers[k] # None
      BY <2>4 DEF Attached
    <3>3. k \in Dropped(conf)
      <4>1. conf \in Config
        BY PublisherAssumption
      <4>2. ASSUME k \notin Dropped(conf) PROVE workers'[k] = workers[k]
        BY <2>1, <3>2, <4>1, <4>2, KeysOfConfig, EnsureWorkersEffect
      <4>3. workers'[k] # workers[k]
        BY <2>4, <3>2 DEF Attached
      <4>4. QED
        BY <4>2, <4>3
    <3>4. r \in stopping
      BY <3>1, <3>2, <3>3 DEF Stoppable
    <3>5. cPc'[c] = "close"
      BY <1>1, <2>1, <3>4, GotoAsEffect
    <3>6. QED
      BY <2>2, <3>4, <3>5 DEF WillClose
  <2>5. QED
    BY <2>1, <2>2, <2>3, <2>4
<1>5. \A r \in cClose'[c] : rStop'[r] => r \in abandoned'
  <2>1. CASE \E conf \in Configs : InitFFmpegPublisher(c, conf)
    BY <1>4, <2>1
  <2>2. CASE UNCHANGED cClose
    BY <1>1, <2>2 DEF Shape
  <2>3. QED
    BY <2>1, <2>2 DEF Command, StartFFmpegPublisher, StopFFmpegPublisher,
       PauseFFmpegPublisher, ResumeFFmpegPublisher, PauseFFmpegPublisherByURL,
       ResumeFFmpegPublisherByURL, ByURL
<1>6. ASSUME NEW r \in Runs, Unfinished(r)', rWorker'[r] \notin Attached'
      PROVE  Told(r)'
  <2>1. Unfinished(r)
    <3>1. ASSUME StartFFmpegPublisher(c), ~Unfinished(r) PROVE FALSE
      <4>1. PICK S \in SUBSET Workers : StartWorkers(S) /\ S \subseteq Attached'
        BY <3>1, StartPublisherStarts
      <4>2. QED
        BY <1>6, <3>1, <4>1, StartWorkersEffect DEF Unfinished
    <3>2. CASE UNCHANGED rPc
      BY <1>6, <3>2 DEF Unfinished
    <3>3. QED
      BY <3>1, <3>2 DEF Command, InitFFmpegPublisher, StopFFmpegPublisher,
         PauseFFmpegPublisher, ResumeFFmpegPublisher, PauseFFmpegPublisherByURL,
         ResumeFFmpegPublisherByURL, ByURL, runVars
  <2>2. rWorker[r] \notin Attached'
    BY <1>6, <2>1, CallerKeepsRuns
  <2>3. CASE rWorker[r] \in Attached
    BY <1>4, <2>1, <2>2, <2>3, ReceiverStaysInTable DEF Told
  <2>4. CASE rWorker[r] \notin Attached
    <3>1. Told(r)
      BY <2>1, <2>4 DEF OneCallerShape, DetachedIsStopped, Told
    <3>2. QED
      BY <2>1, <2>4, <3>1, ToldStays DEF OneCallerShape
  <2>5. QED
    BY <2>3, <2>4
<1>7. QED
  BY <1>2, <1>3, <1>5, <1>6
  DEF OneCallerShape, DetachedIsStopped, PanicNeedsAbandonedStop, Told

LEMMA OneCallerCallStep ==
  ASSUME \A c, d \in Callers : c = d, IInv, CallerShape, StoppingIsAttended,
         OneCallerShape, NEW c \in Callers, CallStep(c)
  PROVE  OneCallerShape'
<1>1. CallTypeOK /\ Shape(c) /\ cPc[c] # "panicked" /\ ~SomePanic
  BY PanicIsFinal DEF IInv, TypeOK, CallerShape, SomePanic
<1>2. Attached' = Attached
  BY DEF Attached, CallStep, ResumeWorker, StopWorker, LoopEnds, CloseStopCh,
     KillProcess, AwaitDone, AwaitTimeout, LeaveAwait, mgrVars
<1>3. cPend'[c] \subseteq Attached'
  <2>1. cPend[c] \subseteq Attached
    BY DEF OneCallerShape
  <2>2. ASSUME NEW q \in Runs,
               CloseStopCh(c, q) \/ KillProcess(c, q) \/ AwaitDone(c, q) \/ AwaitTimeout(c, q)
        PROVE  cPend'[c] \subseteq cPend[c]
    BY <1>1, <2>2 DEF CloseStopCh, KillProcess, AwaitDone, AwaitTimeout, LeaveAwait, CallTypeOK
  <2>3. cPend'[c] \subseteq cPend[c]
    BY <1>1, <2>2 DEF CallStep, ResumeWorker, StopWorker, LoopEnds, CallTypeOK
  <2>4. QED
    BY <1>2, <2>1, <2>3
<1>4. ASSUME NEW r \in Runs, Unfinished(r)', rWorker'[r] \notin Attached'
      PROVE  Told(r)'
  <2>1. Unfinished(r)
    <3>1. ASSUME NEW w \in Workers, ResumeWorker(c, w), ~Unfinished(r) PROVE FALSE
      <4>1. StartWorkers({w}) /\ w \in Attached /\ {w} \in SUBSET Workers
        BY <3>1 DEF ResumeWorker, OneCallerShape
      <4>2. QED
        BY <1>2, <1>4, <3>1, <4>1, StartWorkersEffect DEF Unfinished
    <3>2. CASE UNCHANGED rPc
      BY <1>4, <3>2 DEF Unfinished
    <3>3. QED
      BY <3>1, <3>2 DEF CallStep, StopWorker, LoopEnds, CloseStopCh, KillProcess,
         AwaitDone, AwaitTimeout, LeaveAwait, runVars
  <2>2. rWorker[r] \notin Attached
    BY <1>2, <1>4, <2>1, CallerKeepsRuns
  <2>3. Told(r)
    BY <2>1, <2>2 DEF OneCallerShape, DetachedIsStopped, Told
  <2>4. QED
    BY <2>1, <2>2, <2>3, ToldStays DEF OneCallerShape
<1>5. ASSUME NEW q \in Runs, CloseStopCh(c, q)
      PROVE  /\ \A r \in cClose'[c] : rStop'[r] => r \in abandoned'
             /\ SomePanic' => abandoned' # {}
  <2>1. cPc[c] = "close" /\ q \in cClose[c] /\ UNCHANGED abandoned
        /\ cClose[c] \subseteq Runs
    BY <1>1, <1>5 DEF CloseStopCh, CallTypeOK
  <2>2. CASE rStop[q]
    <3>1. cClose'[c] = {}
      BY <1>1, <1>5, <2>2 DEF CloseStopCh, CallTypeOK
    <3>2. QED
      BY <2>1, <2>2, <3>1 DEF OneCallerShape
  <2>3. CASE ~rStop[q]
    <3>1. /\ cClose'[c] = cClose[c] \ {q}
          /\ \A r \in Runs \ {q} : rStop'[r] = rStop[r]
      BY <1>1, <1>5, <2>3 DEF CloseStopCh, CallTypeOK, IInv, TypeOK, RunTypeOK
    <3>2. PICK pc \in {"close", "kill", "await"} : Goto(c, pc)
      BY <1>5, <2>3 DEF CloseStopCh
    <3>3. ~SomePanic'
      BY <1>1, <3>2, GotoEffect DEF SomePanic
    <3>4. QED
      BY <2>1, <3>1, <3>3 DEF OneCallerShape
  <2>4. QED
    BY <2>2, <2>3
<1>6. ASSUME \A q \in Runs : ~CloseStopCh(c, q)
      PROVE  /\ \A r \in cClose'[c] : rStop'[r] => r \in abandoned'
             /\ ~SomePanic'
  <2>1. ASSUME NEW w \in Workers, ResumeWorker(c, w)
        PROVE  cClose'[c] = {} /\ cPc'[c] # "panicked"
    BY <1>1, <2>1 DEF ResumeWorker, Shape
  <2>2. ASSUME NEW w \in Workers, StopWorker(c, w)
        PROVE  /\ \A r \in cClose'[c] : rStop'[r] => r \in abandoned'
               /\ cPc'[c] # "panicked"
    <3>1. cPc[c] = "loop" /\ cClose[c] = {} /\ UNCHANGED <<rStop, abandoned>>
      BY <1>1, <2>2 DEF StopWorker, Shape, runVars
    <3>2. CASE Stoppable(w)
      <4>1. cClose'[c] = {wRun[w]} /\ cPc'[c] = "close"
        BY <1>1, <2>2, <3>2, GotoEffect DEF StopWorker, CallTypeOK
      <4>2. wRun[w] \in Runs /\ (rStop[wRun[w]] => wRun[w] \in abandoned)
        BY <3>1, <3>2, IdleCallerGaveUp DEF Stoppable
      <4>3. QED
        BY <3>1, <4>1, <4>2
    <3>3. CASE ~Stoppable(w)
      BY <2>2, <3>1, <3>3 DEF StopWorker
    <3>4. QED
      BY <3>2, <3>3
  <2>3. ASSUME NEW pc, pc # "panicked", Goto(c, pc), UNCHANGED cClose, cPc[c] # "close"
        PROVE  cClose'[c] = {} /\ cPc'[c] # "panicked"
    BY <1>1, <2>3, GotoEffect DEF Shape
  <2>4. ASSUME LoopEnds(c)
        PROVE  cClose'[c] = {} /\ cPc'[c] # "panicked"
    <3>1. UNCHANGED cClose /\ cPc[c] \in {"loop", "resume"}
      BY <2>4 DEF LoopEnds
    <3>2. \E pc : pc # "panicked" /\ Goto(c, pc)
      BY <2>4 DEF LoopEnds
    <3>3. QED
      BY <2>3, <3>1, <3>2
  <2>5. ASSUME NEW q \in Runs, KillProcess(c, q) \/ AwaitDone(c, q) \/ AwaitTimeout(c, q)
        PROVE  cClose'[c] = {} /\ cPc'[c] # "panicked"
    <3>1. UNCHANGED cClose /\ cPc[c] \in {"kill", "await"}
      BY <2>5 DEF KillProcess, AwaitDone, AwaitTimeout, LeaveAwait
    <3>2. \E pc : pc # "panicked" /\ Goto(c, pc)
      BY <2>5 DEF KillProcess, AwaitDone, AwaitTimeout, LeaveAwait, AfterAwait
    <3>3. QED
      BY <2>3, <3>1, <3>2
  <2>6. QED
    BY <1>6, <2>1, <2>2, <2>4, <2>5 DEF CallStep, SomePanic
<1>7. QED
  BY <1>3, <1>4, <1>5, <1>6
  DEF OneCallerShape, DetachedIsStopped, PanicNeedsAbandonedStop, Told

LEMMA OneCallerNext ==
  ASSUME \A c, d \in Callers : c = d, IInv, CallerShape, StoppingIsAttended,
         OneCallerShape, [Next]_vars
  PROVE  OneCallerShape'
<1>1. ASSUME NEW c \in Callers, Command(c) \/ CallStep(c) PROVE OneCallerShape'
  BY <1>1, OneCallerCommand, OneCallerCallStep
<1>2. ASSUME UNCHANGED <<mgrVars, rWorker, rStop, callVars, abandoned>>,
             \A r \in Runs : Unfinished(r)' => Unfinished(r)
      PROVE  OneCallerShape'
  BY <1>2 DEF OneCallerShape, DetachedIsStopped, PanicNeedsAbandonedStop, SomePanic,
              WillClose, Attached, mgrVars, callVars
<1>3. ASSUME NEW r \in Runs, RunStep(r) PROVE OneCallerShape'
  BY <1>2, <1>3, RunStepEffect DEF Unfinished
<1>4. ASSUME NEW r \in Runs, MonitorKill(r) \/ ProcStalls(r) \/ ProcExits(r) PROVE OneCallerShape'
  BY <1>2, <1>4 DEF MonitorKill, ProcStalls, ProcExits, OnlyProcMoves, Unfinished
<1>5. CASE UNCHANGED vars
  BY <1>2, <1>5 DEF vars, runVars, Unfinished
<1>6. QED
  BY <1>1, <1>3, <1>4, <1>5 DEF Next, Program, Environment

-----------------------------------------------------------------------------
(* One caller: the processes of removed workers beside those of the table.   *)

\* Single targets have no list of targets, and their loops no target but their own,
\* in the table or not.
OwnLines ==
  /\ \A w \in Workers : wKey[w] \in Targets => wTargets[w] = {}
  /\ \A r \in Runs : Unfinished(r) /\ wKey[rWorker[r]] \in Targets
                       => rTargets[r] \subseteq {wKey[rWorker[r]]}

\* The loops that are not left behind have different targets, unless there is but one.
Current(r) == Unfinished(r) /\ ~LeftBehind(r)
Apart(r1, r2) ==
  LET k1 == wKey[rWorker[r1]]
      k2 == wKey[rWorker[r2]]
  IN k1 \in Targets /\ k2 \in Targets /\ k1 # k2
CurrentApart == \A r1, r2 \in Runs : r1 # r2 /\ Current(r1) /\ Current(r2) => Apart(r1, r2)

\* Init and Start give no list of targets to the worker of a single one.
LEMMA OwnTargetsNext ==
  ASSUME IInv, IInv', OwnLines, NEW keys \in SUBSET Keys, NEW drop \in SUBSET Keys,
         EnsureWorkers(keys, drop), NEW shared, NEW ts, SetTargets(shared, ts),
         NEW w \in Workers, wKey'[w] \in Targets
  PROVE  wTargets'[w] = {}
<1>1. PICK made \in SUBSET FreeWorkers :
        /\ \A v \in Workers \ made : wKey'[v] = wKey[v]
        /\ \A k \in Keys : \/ workers'[k] = workers[k]
                           \/ k \in drop /\ workers'[k] = None
                           \/ workers[k] = None /\ workers'[k] \in made /\ k \in keys
        /\ Attached' \subseteq Attached \cup made
        /\ made \subseteq Attached'
  BY EnsureWorkersEffect
<1>2. workers'[SHARED] # w
  BY PublisherAssumption DEF IInv, TableMatchesConfig, Keys
<1>3. CASE w \in made
  <2>1. w \notin Attached /\ \E k \in Keys : workers'[k] = w
    BY <1>1, <1>3 DEF FreeWorkers, Attached
  <2>2. QED
    BY <1>2, <2>1 DEF SetTargets
<1>4. CASE w \notin made
  BY <1>1, <1>2, <1>4 DEF SetTargets, OwnLines
<1>5. QED
  BY <1>3, <1>4

LEMMA OwnLinesNext ==
  ASSUME IInv, IInv', CallerShape, LineShape, OwnLines, [Next]_vars
  PROVE  OwnLines'
<1>1. ASSUME NEW c \in Callers, Command(c) \/ CallStep(c), NEW r \in Runs,
             Unfinished(r)', wKey'[rWorker'[r]] \in Targets
      PROVE  rTargets'[r] \subseteq {wKey'[rWorker'[r]]}
  <2>1. rTargets'[r] = rTargets[r]
    BY <1>1, CallerKeepsLines
  <2>2. CASE Unfinished(r)
    <3>1. rWorker'[r] = rWorker[r] /\ wKey'[rWorker[r]] = wKey[rWorker[r]]
      BY <1>1, <2>2, CallerKeepsRuns, ReceiverStaysInTable
    <3>2. QED
      BY <1>1, <2>1, <2>2, <3>1 DEF OwnLines
  <2>3. CASE ~Unfinished(r)
    BY <2>1, <2>3 DEF LineShape
  <2>4. QED
    BY <2>2, <2>3
<1>2. ASSUME NEW c \in Callers, Command(c) \/ CallStep(c), NEW w \in Workers,
             wKey'[w] \in Targets
      PROVE  wTargets'[w] = {}
  <2>1. ASSUME NEW conf \in Configs, InitFFmpegPublisher(c, conf) PROVE wTargets'[w] = {}
    <3>1. /\ EnsureWorkers(KeysOf(conf), Dropped(conf))
          /\ SetTargets(Shared(conf), conf.targets)
      BY <2>1 DEF InitFFmpegPublisher
    <3>2. KeysOf(conf) \in SUBSET Keys /\ Dropped(conf) \in SUBSET Keys
      BY KeysOfConfig, PublisherAssumption
    <3>3. QED
      BY <1>2, <3>1, <3>2, OwnTargetsNext
  <2>2. CASE StartFFmpegPublisher(c)
    <3>1. /\ EnsureWorkers(StartKeys, {}) /\ StartKeys \in SUBSET Keys
          /\ SetTargets(SHARED \in StartKeys, ActiveTargets)
      BY <2>2 DEF StartFFmpegPublisher, StartKeys, ActiveTargets, ConfTargets, Keys, IInv,
                  TypeOK, MgrTypeOK, Config
    <3>2. {} \in SUBSET Keys
      OBVIOUS
    <3>3. QED
      BY <1>2, <3>1, <3>2, OwnTargetsNext
  <2>3. CASE UNCHANGED <<wKey, wTargets>>
    BY <1>2, <2>3 DEF OwnLines
  <2>4. CASE Command(c)
    BY <2>1, <2>2, <2>3, <2>4 DEF Command, StopFFmpegPublisher,
       PauseFFmpegPublisher, ResumeFFmpegPublisher, PauseFFmpegPublisherByURL,
       ResumeFFmpegPublisherByURL, ByURL, workerVars
  <2>5. CASE CallStep(c)
    BY <2>3, <2>5 DEF CallStep, ResumeWorker, StopWorker, LoopEnds, CloseStopCh,
       KillProcess, AwaitDone, AwaitTimeout, LeaveAwait, workerVars
  <2>6. QED
    BY <1>2, <2>4, <2>5
<1>3. ASSUME NEW c \in Callers, Command(c) \/ CallStep(c) PROVE OwnLines'
  BY <1>1, <1>2, <1>3 DEF OwnLines
<1>4. ASSUME NEW r \in Runs, RunStep(r) PROVE OwnLines'
  <2>1. /\ UNCHANGED <<wKey, wTargets, rWorker>> /\ Unfinished(r) /\ rWorker[r] \in Workers
        /\ \A q \in Runs \ {r} : rPc'[q] = rPc[q] /\ rTargets'[q] = rTargets[q]
    BY <1>4, RunStepEffect, RunStepLine DEF IInv, OneRunPerWorker
  <2>2. wKey[rWorker[r]] \in Targets => rTargets'[r] \subseteq {wKey[rWorker[r]]}
    BY <1>4, <2>1, RunStepLine DEF OwnLines
  <2>3. QED
    BY <2>1, <2>2 DEF OwnLines, Unfinished
<1>5. CASE UNCHANGED <<workerVars, rPc, rWorker, rTargets>>
  BY <1>5 DEF OwnLines, Unfinished, workerVars
<1>6. ASSUME NEW r \in Runs, MonitorKill(r) \/ ProcStalls(r) \/ ProcExits(r) PROVE OwnLines'
  BY <1>5, <1>6 DEF MonitorKill, ProcStalls, ProcExits, OnlyProcMoves
<1>7. CASE UNCHANGED vars
  BY <1>5, <1>7 DEF vars, runVars
<1>8. QED
  BY <1>3, <1>4, <1>6, <1>7 DEF Next, Program, Environment

\* Two loops of the table have targets of their own.
TableApart ==
  \A r1, r2 \in Runs :
    /\ r1 # r2 /\ Unfinished(r1) /\ Unfinished(r2)
    /\ rWorker[r1] \in Attached /\ rWorker[r2] \in Attached
    => Apart(r1, r2)

LEMMA TableIsApart == IInv /\ LineShape => TableApart
<1> SUFFICES ASSUME IInv, LineShape, NEW r1 \in Runs, NEW r2 \in Runs, r1 # r2,
                    Unfinished(r1), Unfinished(r2),
                    rWorker[r1] \in Attached, rWorker[r2] \in Attached
             PROVE  Apart(r1, r2)
  BY DEF TableApart
<1> DEFINE k1 == wKey[rWorker[r1]]
           k2 == wKey[rWorker[r2]]
<1>1. rWorker[r1] # rWorker[r2]
  BY DEF IInv, OneRunPerWorker
<1>2. /\ k1 \in Keys /\ k2 \in Keys /\ k1 # k2
      /\ workers[k1] # None /\ workers[k2] # None
  BY <1>1, TableHolds, PublisherAssumption
<1>3. cfg # None
  BY DEF LineShape
<1>4. {k1, k2} \subseteq KeysOf(cfg)
  BY <1>2, <1>3 DEF IInv, TableMatchesConfig
<1>5. KeysOf(cfg) = {SHARED} \/ KeysOf(cfg) \subseteq Targets
  BY <1>3 DEF KeysOf, IInv, TypeOK, MgrTypeOK, Config
<1>6. QED
  BY <1>2, <1>4, <1>5 DEF Apart

LEMMA TableStaysApart == IInv' /\ LineShape' => TableApart'
BY TableIsApart, PTL

\* The caller starts something: whatever left the table it has given up on.
LEMMA StrandedIsLeft ==
  ASSUME \A c, d \in Callers : c = d, IInv, CallerShape, StoppingIsAttended,
         DetachedIsStopped, NEW c \in Callers, cPc[c] \in {"idle", "start", "resume"},
         NEW r \in Runs, Unfinished(r), rWorker[r] \notin Attached
  PROVE  LeftBehind(r)
<1>1. Shape(c) /\ ~SomePanic /\ ~Attended(r)
  BY DEF CallerShape, SomePanic, Attended
<1>2. ~WillClose(r)
  BY <1>1 DEF WillClose, Shape
<1>3. QED
  BY <1>1, <1>2 DEF DetachedIsStopped, StoppingIsAttended, LeftBehind

\* Nothing leaves the ones left behind but their end.
LEMMA CurrentBefore ==
  ASSUME IInv, CallerShape, NEW c \in Callers, Command(c) \/ CallStep(c),
         NEW r \in Runs, Unfinished(r), Current(r)'
  PROVE  /\ Current(r) /\ rWorker'[r] = rWorker[r]
         /\ wKey'[rWorker'[r]] = wKey[rWorker[r]]
<1>1. /\ rWorker'[r] = rWorker[r] /\ wKey'[rWorker[r]] = wKey[rWorker[r]]
      /\ rStop[r] => rStop'[r]
      /\ r \in abandoned => r \in abandoned'
      /\ rWorker[r] \in Attached' => rWorker[r] \in Attached
  BY CallerKeepsRuns, ReceiverStaysInTable
<1>2. QED
  BY <1>1 DEF Current, LeftBehind

LEMMA StartKeepsTable ==
  ASSUME IInv, NEW c \in Callers, StartFFmpegPublisher(c)
  PROVE  Attached \subseteq Attached'
<1>1. EnsureWorkers(StartKeys, {}) /\ StartKeys \in SUBSET Keys
  BY DEF StartFFmpegPublisher, StartKeys, ActiveTargets, ConfTargets, Keys, IInv, TypeOK,
         MgrTypeOK, Config
<1>2. {} \in SUBSET Keys
  OBVIOUS
<1>3. \A k \in Keys : workers[k] # None => workers'[k] = workers[k]
  BY <1>1, <1>2, EnsureWorkersEffect
<1>4. QED
  BY <1>3 DEF Attached

LEMMA CurrentApartNext ==
  ASSUME \A c, d \in Callers : c = d, IInv, IInv', CallerShape, LineShape, LineShape',
         StoppingIsAttended, OneCallerShape, CurrentApart, [Next]_vars
  PROVE  CurrentApart'
<1>1. ASSUME \A r \in Runs : Current(r)' =>
               /\ Current(r) /\ rWorker'[r] = rWorker[r]
               /\ wKey'[rWorker'[r]] = wKey[rWorker[r]]
      PROVE  CurrentApart'
  BY <1>1 DEF CurrentApart, Apart
<1>2. ASSUME \A r \in Runs : Current(r)' => rWorker'[r] \in Attached'
      PROVE  CurrentApart'
  BY <1>2, TableStaysApart DEF CurrentApart, Current, TableApart
<1>3. ASSUME NEW c \in Callers, StartFFmpegPublisher(c) PROVE CurrentApart'
  <2>1. PICK S \in SUBSET Workers : StartWorkers(S) /\ S \subseteq Attached'
    BY <1>3, StartPublisherStarts
  <2>2. cPc[c] \in {"idle", "start", "resume"} /\ Command(c) /\ UNCHANGED cClose
    BY <1>3 DEF StartFFmpegPublisher, Enters, Command
  <2>3. ASSUME NEW r \in Runs, Unfinished(r), Current(r)' PROVE rWorker'[r] \in Attached'
    <3>1. Current(r) /\ rWorker'[r] = rWorker[r]
      BY <2>2, <2>3, CurrentBefore
    <3>2. rWorker[r] \in Attached
      BY <2>2, <3>1, StrandedIsLeft DEF Current, OneCallerShape
    <3>3. QED
      BY <1>3, <2>3, <3>1, <3>2, StartKeepsTable
  <2>4. ASSUME NEW r \in Runs, ~Unfinished(r), Current(r)' PROVE rWorker'[r] \in Attached'
    BY <2>1, <2>4, StartWorkersEffect DEF Current, Unfinished
  <2>5. QED
    BY <1>2, <2>3, <2>4
<1>4. ASSUME NEW c \in Callers, NEW w \in Workers, ResumeWorker(c, w) PROVE CurrentApart'
  <2>1. /\ StartWorkers({w}) /\ {w} \in SUBSET Workers /\ cPc[c] = "resume"
        /\ w \in Attached /\ Attached' = Attached /\ CallStep(c)
    BY <1>4 DEF ResumeWorker, OneCallerShape, Attached, mgrVars, CallStep
  <2>2. ASSUME NEW r \in Runs, Unfinished(r), Current(r)' PROVE rWorker'[r] \in Attached'
    <3>1. Current(r) /\ rWorker'[r] = rWorker[r]
      BY <2>1, <2>2, CurrentBefore
    <3>2. QED
      BY <2>1, <3>1, StrandedIsLeft DEF Current, OneCallerShape
  <2>3. ASSUME NEW r \in Runs, ~Unfinished(r), Current(r)' PROVE rWorker'[r] \in Attached'
    BY <2>1, <2>3, StartWorkersEffect DEF Current, Unfinished
  <2>4. QED
    BY <1>2, <2>2, <2>3
<1>5. ASSUME NEW c \in Callers, Command(c) \/ CallStep(c), UNCHANGED rPc PROVE CurrentApart'
  <2>1. ASSUME NEW r \in Runs, Current(r)' PROVE Unfinished(r)
    BY <1>5, <2>1 DEF Current, Unfinished
  <2>2. QED
    BY <1>1, <1>5, <2>1, CurrentBefore
<1>6. ASSUME NEW c \in Callers, Command(c) \/ CallStep(c) PROVE CurrentApart'
  <2>1. CASE Command(c)
    BY <1>3, <1>5, <2>1 DEF Command, InitFFmpegPublisher, StopFFmpegPublisher,
       PauseFFmpegPublisher, ResumeFFmpegPublisher, PauseFFmpegPublisherByURL,
       ResumeFFmpegPublisherByURL, ByURL, runVars
  <2>2. CASE CallStep(c)
    BY <1>4, <1>5, <2>2 DEF CallStep, StopWorker, LoopEnds, CloseStopCh, KillProcess,
       AwaitDone, AwaitTimeout, LeaveAwait, runVars
  <2>3. QED
    BY <1>6, <2>1, <2>2
<1>7. ASSUME UNCHANGED <<mgrVars, wKey, rWorker, rStop, abandoned>>,
             \A r \in Runs : Unfinished(r)' => Unfinished(r)
      PROVE  CurrentApart'
  BY <1>1, <1>7 DEF Current, LeftBehind, Attached, mgrVars
<1>8. ASSUME NEW r \in Runs, RunStep(r) PROVE CurrentApart'
  BY <1>7, <1>8, RunStepEffect DEF Unfinished
<1>9. ASSUME NEW r \in Runs, MonitorKill(r) \/ ProcStalls(r) \/ ProcExits(r) PROVE CurrentApart'
  BY <1>7, <1>9 DEF MonitorKill, ProcStalls, ProcExits, OnlyProcMoves, workerVars, Unfinished
<1>10. CASE UNCHANGED vars
  BY <1>7, <1>10 DEF vars, workerVars, runVars, Unfinished
<1>11. QED
  BY <1>6, <1>8, <1>9, <1>10 DEF Next, Program, Environment

\* Loops with different targets have command lines without a target in common.
LEMMA ApartIsDisjoint == IInv /\ OwnLines /\ CurrentApart => NoDuplicatePublish
<1> SUFFICES ASSUME IInv, OwnLines, CurrentApart, NEW r1 \in Runs, NEW r2 \in Runs, r1 # r2,
                    Up(r1), Up(r2), ~LeftBehind(r1), ~LeftBehind(r2)
             PROVE  rTargets[r1] \cap rTargets[r2] = {}
  BY DEF NoDuplicatePublish
<1>1. Current(r1) /\ Current(r2)
  BY DEF IInv, ProcessIsAwaited, Unfinished, Current
<1>2. Apart(r1, r2)
  BY <1>1 DEF CurrentApart
<1>3. QED
  BY <1>1, <1>2 DEF Apart, OwnLines, Current

-----------------------------------------------------------------------------
(* The theorems.                                                           *)

LEMMA CommandInit ==
  Init => /\ LineShape /\ ModeShape /\ PauseReachesLine
          /\ PauseIsNotLost /\ StoppingIsAttended /\ OneCallerShape
<1> SUFFICES ASSUME Init
             PROVE  /\ LineShape /\ ModeShape /\ PauseReachesLine
                    /\ PauseIsNotLost /\ StoppingIsAttended /\ OneCallerShape
  OBVIOUS
<1>1. Attached = {} /\ \A r \in Runs : ~Unfinished(r) /\ ~rStop[r]
  BY DEF Init, Attached, Unfinished
<1>2. LineShape
  BY <1>1 DEF Init, LineShape, Keys
<1>3. ModeShape
  BY <1>1 DEF Init, ModeShape
<1>4. PauseReachesLine /\ PauseIsNotLost /\ StoppingIsAttended
  BY <1>1 DEF PauseReachesLine, PauseIsNotLost, StoppingIsAttended
<1>5. OneCallerShape
  <2>1. ~SomePanic
    BY DEF Init, SomePanic
  <2>2. QED
    BY <1>1, <2>1 DEF Init, OneCallerShape, DetachedIsStopped, PanicNeedsAbandonedStop
<1>6. QED
  BY <1>2, <1>3, <1>4, <1>5

\* Callers hold channels and workers only inside the loops that need them, however
\* commands of several goroutines interleave.
THEOREM CallersKeepShape == Spec => []CallerShape
BY ShapeInit, ShapeNext, Invariance, PTL DEF Spec

\* A loop told to stop has somebody who kills its process and waits for it, and a
\* mark set while its loop is past the check is followed by a close of stopCh: for
\* any number of concurrent callers and for Init again at any time.
THEOREM StopsAndPausesAreHeard == Spec => [](PauseIsNotLost /\ StoppingIsAttended)
<1>1. Init => PauseIsNotLost /\ StoppingIsAttended
  BY CommandInit
<1>2. QED
  BY <1>1, AttendsNext, PauseNext, CallersKeepShape, Invariance, PTL DEF Spec

LEMMA LineInvariance == Spec => []LineShape
<1>1. Init => LineShape
  BY CommandInit
<1>2. QED
  BY <1>1, LineNext, CallersKeepShape, Invariance, PTL DEF Spec

\* Whoever commands, and however many do so at once, two workers of the table never
\* publish the same target: not across Stop and Start, pauses, or changes of the mode.
THEOREM NoDoublePublishInTable == Spec => []TableLinesApart
BY LinesAreDisjoint, LineInvariance, Invariance, PTL

\* GetPublisherStatusSnapshot says Stopped only of a target without a process and
\* Running only of one whose process is the one registered, in every interleaving.
THEOREM StatusIsTrue == Spec => []StatusIsTruthful
BY StatusInit, StatusNext, StatusHolds, Invariance, PTL DEF Spec

\* No pause is lost and no stop is left alone, in shared mode too: Start, Resume and
\* retries that overlap a pause do not bring a paused target back into a command
\* line nobody was told to end.  This holds from one InitFFmpegPublisher to the next:
\* Init sets the targets of the shared worker to all of them, the paused ones too.
THEOREM CommandsReachTheirLoops ==
  ASSUME "init" \notin Ops PROVE Spec => []CommandsAreHeard
<1>1. Init => ModeShape /\ PauseReachesLine
  BY CommandInit
<1>2. IInv /\ CallerShape /\ ModeShape /\ [Next]_vars => ModeShape'
  BY ModeNext
<1>3. Spec => []ModeShape
  BY <1>1, <1>2, CallersKeepShape, Invariance, PTL DEF Spec
<1>4. IInv /\ CallerShape /\ LineShape /\ ModeShape /\ PauseIsNotLost /\ PauseReachesLine
      /\ [Next]_vars => PauseReachesLine'
  BY LinePauseNext
<1>5. Spec => []PauseReachesLine
  BY <1>1, <1>3, <1>4, LineInvariance, StopsAndPausesAreHeard, CallersKeepShape,
     Invariance, PTL DEF Spec
<1>6. LineShape /\ PauseReachesLine => PauseIsApplied
  BY DEF LineShape, PauseReachesLine, PauseIsApplied, LineOf, Told
<1>7. QED
  BY <1>5, <1>6, LineInvariance, StopsAndPausesAreHeard, PTL DEF CommandsAreHeard

LEMMA OneCallerInvariance ==
  ASSUME \A c, d \in Callers : c = d PROVE Spec => []OneCallerShape
<1>1. Init => OneCallerShape
  BY CommandInit
<1>2. IInv /\ CallerShape /\ StoppingIsAttended /\ OneCallerShape /\ [Next]_vars
      => OneCallerShape'
  BY OneCallerNext
<1>3. QED
  BY <1>1, <1>2, StopsAndPausesAreHeard, CallersKeepShape, Invariance, PTL DEF Spec

\* Whatever sequence of commands a single goroutine issues, Init again included, a
\* loop whose worker left the table has had its stopCh closed or is about to.
THEOREM NoLoopIsStranded ==
  ASSUME \A c, d \in Callers : c = d PROVE Spec => []DetachedIsStopped
<1>1. OneCallerShape => DetachedIsStopped
  BY DEF OneCallerShape
<1>2. QED
  BY <1>1, OneCallerInvariance, PTL

\* No target is published twice, by workers of the table or by those Init removed,
\* but for a process that outlives the Init that removed its worker and gave up on it.
THEOREM NoDoublePublish ==
  ASSUME \A c, d \in Callers : c = d PROVE Spec => []NoDuplicatePublish
<1>1. Init => OwnLines /\ CurrentApart
  <2> SUFFICES ASSUME Init
               PROVE  OwnLines /\ CurrentApart
    OBVIOUS
  <2>1. rPc = [r \in Runs |-> "unused"] /\ wKey = [w \in Workers |-> None]
    BY DEF Init
  <2>2. \A r \in Runs : ~Unfinished(r)
    BY <2>1 DEF Unfinished
  <2>3. \A w \in Workers : wKey[w] \notin Targets
    BY <2>1, PublisherAssumption DEF Keys
  <2>4. QED
    BY <2>2, <2>3 DEF OwnLines, CurrentApart, Current
<1>2. Spec => []OwnLines
  BY <1>1, OwnLinesNext, LineInvariance, CallersKeepShape, Invariance, PTL DEF Spec
<1>3. IInv /\ IInv' /\ CallerShape /\ LineShape /\ LineShape' /\ StoppingIsAttended
      /\ OneCallerShape /\ CurrentApart /\ [Next]_vars => CurrentApart'
  BY CurrentApartNext
<1>4. Spec => []CurrentApart
  BY <1>1, <1>3, LineInvariance, StopsAndPausesAreHeard, OneCallerInvariance,
     CallersKeepShape, Invariance, PTL DEF Spec
<1>5. QED
  BY <1>2, <1>4, ApartIsDisjoint, Invariance, PTL

\* A single goroutine closes a closed stopCh (a panic) only where an earlier stop or
\* pause gave up on that loop: after the five seconds, or on a failed kill.
THEOREM PanicFollowsGivingUp ==
  ASSUME \A c, d \in Callers : c = d PROVE Spec => []PanicNeedsAbandonedStop
<1>1. OneCallerShape => PanicNeedsAbandonedStop
  BY DEF OneCallerShape
<1>2. QED
  BY <1>1, OneCallerInvariance, PTL

=============================================================================
