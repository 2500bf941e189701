------------------------ MODULE StreamMonitorProofs ------------------------
(***************************************************************************)
(* Safety of StreamMonitor for any number of streams and of threads that   *)
(* use the database: the pool, the rows and the alarms.                    *)
(***************************************************************************)
EXTENDS StreamMonitor, FiniteSetTheorems, TLAPS

\* Whoever opens a pool holds the mutex, and there is no pool.
OpensAlone == \A t \in Threads : at[t] = "open" => mutex = t /\ hdl = 0

DbFits == OnePool /\ OpensAlone

\* The count of ticks is below the limit whenever the next tick may come.
CountFits == mon \in {"wait", "clean"} => checkDbCount < DbCheckEvery
CheckFits == mon = "check" => checkDbCount = 0

\* What is remembered counts the probes that failed.
MemoryFits ==
  \A s \in Streams :
    /\ streamStates[s].FailCount = failed[s]
    /\ (streamStates[s].state = "broken") <=> (failed[s] = 2)

\* The change of a row that is under way is the one that the memory calls for.
ChangeFits ==
  cur # <<>> =>
    /\ (cur[1] = "broken") <=> (streamStates[cur[2]].state = "broken")
    /\ cur[1] # "broken" => cur[2] \notin settled

\* A break that waits for its alarm is still to be written to a row that says active.
AlarmFits ==
  \A s \in settled \ alarmed :
    row[s].status = "active" /\ (s \in missed \/ cur = <<"broken", s>>)

Fits == MemoryFits /\ ChangeFits /\ AlarmFits /\ RowFollowsMemory

IInv == TypeOK /\ DbFits /\ CountFits /\ CheckFits /\ Fits

(***************************************************************************)
(* The database handle.                                                    *)
(***************************************************************************)

LEMMA PoolsType == Pools \subseteq Nat \ {0} /\ 1 \in Pools
BY DbAssumption, FS_CardinalityType DEF Pools

\* There are more pools than threads, so one is to be had when none is open.
LEMMA FreePool ==
  ASSUME got \in [Threads -> {0} \cup Pools], open = {}, hdl = 0
  PROVE  New \in Pools
<1> DEFINE R == {got[t] : t \in Threads}
<1>1. Cardinality(Threads) \in Nat
  BY DbAssumption, FS_CardinalityType
<1>2. IsFiniteSet(R) /\ Cardinality(R) <= Cardinality(Threads)
  <2>1. got \in Surjection(Threads, R)
    BY DEF Surjection
  <2> QED
    BY <2>1, DbAssumption, FS_Surjection
<1>3. Cardinality(Pools) = Cardinality(Threads) + 2
  BY <1>1, FS_Interval DEF Pools
<1>4. ~(Pools \subseteq R)
  <2> SUFFICES ASSUME Pools \subseteq R PROVE FALSE
    OBVIOUS
  <2>1. Cardinality(Pools) <= Cardinality(R)
    BY <1>2, FS_Subset
  <2>2. Cardinality(R) \in Nat
    BY <1>2, FS_CardinalityType
  <2> QED
    BY <1>1, <1>2, <1>3, <2>1, <2>2
<1>5. \E p \in Pools : p \notin open \cup {hdl} \cup R
  BY <1>4, PoolsType
<1> QED
  BY <1>5 DEF New

LEMMA ConnStep ==
  ASSUME DbType, DbFits, NEW t \in Threads, Conn(t)
  PROVE  (DbType /\ DbFits)'
<1> USE DbAssumption DEF DbType, DbFits, OnePool, OpensAlone, Places, Given
<1>1. CASE GetFast(t)
  BY <1>1 DEF GetFast
<1>5. CASE GetReturn(t)
  BY <1>5 DEF GetReturn
<1>2. CASE GetLocked(t)
  BY <1>2 DEF GetLocked
<1>3. CASE ActiveDbConn(t)
  BY <1>3 DEF ActiveDbConn, CloseDbConn
<1>4. CASE OpenDbConn(t)
  <2>1. hdl = 0 /\ open = {} /\ mutex = t
    BY <1>4 DEF OpenDbConn
  <2>2. New \in Pools /\ New # 0
    BY <2>1, FreePool, PoolsType
  <2>3. at' = [at EXCEPT ![t] = "has"] /\ got' = [got EXCEPT ![t] = hdl'] /\ mutex' = "free"
    BY <1>4 DEF OpenDbConn
  <2>4. hdl' \in {0} \cup Pools /\ open' = {hdl'} \ {0}
    BY <1>4, <2>1, <2>2 DEF OpenDbConn
  <2>5. DbType'
    BY <1>4, <2>2, <2>3, <2>4 DEF OpenDbConn
  <2>6. \A o \in Threads : at'[o] # "open"
    BY <2>1, <2>3
  <2> QED
    BY <2>4, <2>5, <2>6
<1> QED
  BY <1>1, <1>2, <1>3, <1>4, <1>5 DEF Conn

\* A thread that asks or is done opens nothing.
LEMMA MoveStep ==
  ASSUME DbType, DbFits, UNCHANGED pool, NEW t \in Threads,
         \/ Done(t) \/ AskDb(t, "get") \/ AskDb(t, "check")
         \/ at' = [at EXCEPT ![t] = "get"] /\ got' = [got EXCEPT ![t] = 0]
  PROVE  (DbType /\ DbFits)'
BY DEF pool, Done, AskDb, DbType, DbFits, OnePool, OpensAlone, Places

\* What a step does to the handle.
DbSame == UNCHANGED dbVars
DbMoves == UNCHANGED pool /\ \E t \in Threads :
  \/ Done(t) \/ AskDb(t, "get") \/ AskDb(t, "check")
  \/ at' = [at EXCEPT ![t] = "get"] /\ got' = [got EXCEPT ![t] = 0]

LEMMA DbKept ==
  ASSUME DbType, DbFits, DbSame \/ DbMoves
  PROVE  (DbType /\ DbFits)'
<1>1. CASE DbSame
  BY <1>1 DEF DbSame, dbVars, pool, DbType, DbFits, OnePool, OpensAlone
<1>2. CASE DbMoves
  BY <1>2, MoveStep DEF DbMoves
<1> QED
  BY <1>1, <1>2

LEMMA DbStep ==
  ASSUME DbType, DbFits, [Next]_vars
  PROVE  (DbType /\ DbFits)'
<1> USE MonitorAssumption
<1>1. CASE MonitorStep
  <2>1. CASE Tick
    BY <2>1, DbKept DEF Tick, DbSame
  <2>2. CASE NilHandle
    BY <2>2, DbKept DEF NilHandle, DbMoves
  <2>3. CASE ChangeRow
    BY <2>3, DbKept DEF ChangeRow, DbMoves
  <2>4. CASE PassEnds
    BY <2>4, DbKept DEF PassEnds, AfterPass, DbMoves
  <2>5. CASE Checked
    BY <2>5, DbKept DEF Checked, AfterPass, DbMoves
  <2>6. CASE Clean
    BY <2>6, DbKept DEF Clean, DbMoves
  <2>7. ASSUME NEW s \in Streams, ProbeFails(s) PROVE DbSame \/ DbMoves
    BY <2>7 DEF ProbeFails, Ask, DbMoves, DbSame
  <2>8. ASSUME NEW s \in Streams, ProbeSucceeds(s) PROVE DbMoves
    BY <2>8 DEF ProbeSucceeds, Ask, DbMoves
  <2> QED
    BY <1>1, <2>1, <2>2, <2>3, <2>4, <2>5, <2>6, <2>7, <2>8, DbKept DEF MonitorStep
<1>2. CASE CronTick \/ CronEnds
  BY <1>2, DbKept DEF CronTick, CronEnds, DbMoves
<1>3. CASE Host
  BY <1>3 DEF Host, HostChange, DbType, DbFits, OnePool, OpensAlone
<1>4. CASE Restart
  BY <1>4, PoolsType DEF Restart, DbType, DbFits, OnePool, OpensAlone, Places
<1>5. ASSUME NEW s \in Streams, Aggregate(s) \/ ChangeConfig(s) \/ Push(s) PROVE DbSame
  BY <1>5 DEF Aggregate, ChangeConfig, Push, DbSame
<1>6. ASSUME NEW t \in Threads, Connect(t) PROVE (DbType /\ DbFits)'
  BY <1>6, ConnStep DEF Connect
<1>7. CASE UNCHANGED vars
  BY <1>7, DbKept DEF vars, DbSame
<1> QED
  BY <1>1, <1>2, <1>3, <1>4, <1>5, <1>6, <1>7, DbKept DEF Next

(***************************************************************************)
(* The types.                                                              *)
(***************************************************************************)

Ops == {"start", "broken", "recover", "active"}

LEMMA LeastType == \A n \in 0..2 : Least(n + 1, 2) = IF n = 0 THEN 1 ELSE 2
BY DEF Least

LEMMA EntryOf ==
  ASSUME NEW x \in {"none", "", "active", "broken"}, NEW n \in 0..2
  PROVE  [state |-> x, FailCount |-> n] \in Entries
BY DEF Entries

LEMMA EntryTypes ==
  ASSUME NEW e \in Entries
  PROVE  MarkStreamFail(e) \in Entries /\ ProbeOK(e) \in Entries /\ AfterOK(e) \in Ops \ {"broken"}
<1>1. e.state \in {"none", "", "active", "broken"} /\ e.FailCount \in 0..2
  BY DEF Entries
<1>2. Least(e.FailCount + 1, 2) \in 0..2
  <2>1. \A n \in 0..2 : Least(n + 1, 2) \in 0..2
    BY LeastType
  <2> QED
    BY <1>1, <2>1
<1>3. MarkStreamFail(e) \in Entries
  BY <1>1, <1>2 DEF Entries, MarkStreamFail
<1>4. ProbeOK(e) \in Entries
  <2>1. ProbeOK(e).state \in {"none", "", "active", "broken"}
    BY <1>1 DEF ProbeOK
  <2>2. ProbeOK(e) = [state |-> ProbeOK(e).state, FailCount |-> 0]
    BY DEF ProbeOK
  <2>3. 0 \in 0..2
    OBVIOUS
  <2> QED
    BY <2>1, <2>2, <2>3, EntryOf
<1>5. AfterOK(e) \in Ops \ {"broken"}
  BY <1>1 DEF AfterOK, Ops
<1> QED
  BY <1>3, <1>4, <1>5

LEMMA NoneTypes == NoEntry \in Entries /\ NoRow \in Rows
BY DEF NoEntry, Entries, NoRow, Rows

LEMMA RowTypes ==
  ASSUME NEW r \in Rows, NEW op \in Ops
  PROVE  Changed(r, op) \in Rows
BY DEF Rows, Ops, Changed, OnStreamStart, OnStreamBroken, OnStreamRecover, OnStreamActive, NoRow

\* Breaks that grow old change nothing else of their rows.
LEMMA TickRows ==
  ASSUME row \in [Streams -> Rows], Tick
  PROVE  /\ row' \in [Streams -> Rows]
         /\ \A s \in Streams : row'[s].status = row[s].status
<1>1. PICK A \in SUBSET Streams :
        row' = [s \in Streams |-> IF s \in A THEN [row[s] EXCEPT !.since = "old"] ELSE row[s]]
  BY DEF Tick
<1>2. \A r \in Rows : [r EXCEPT !.since = "old"] \in Rows /\ [r EXCEPT !.since = "old"].status = r.status
  BY DEF Rows
<1> QED
  BY <1>1, <1>2

LEMMA InitInv == Init => IInv
<1> SUFFICES ASSUME Init PROVE IInv
  OBVIOUS
<1>1. DbType /\ DbFits
  BY PoolsType DEF Init, DbInit, DbType, DbFits, OnePool, OpensAlone, Places
<1>2. TypeOK
  <2>1. streamStates \in [Streams -> Entries] /\ row \in [Streams -> Rows]
    BY NoneTypes DEF Init
  <2>2. checkDbCount \in 0..DbCheckEvery /\ restarts \in 0..MaxRestarts /\ failed \in [Streams -> 0..2]
    BY MonitorAssumption DEF Init
  <2> QED
    BY <1>1, <2>1, <2>2 DEF Init, TypeOK
<1>3. CountFits /\ CheckFits /\ Fits
  BY DEF Init, NoEntry, CountFits, CheckFits, Fits, MemoryFits, ChangeFits, AlarmFits, RowFollowsMemory
<1> QED
  BY <1>1, <1>2, <1>3 DEF IInv

LEMMA TypeStep == IInv /\ [Next]_vars => (TypeOK /\ CountFits /\ CheckFits)'
<1> SUFFICES ASSUME IInv, [Next]_vars PROVE (TypeOK /\ CountFits /\ CheckFits)'
  OBVIOUS
<1>0. DbType'
  BY DbStep DEF IInv, TypeOK
<1> DEFINE Rest == (TypeOK /\ CountFits /\ CheckFits)'
<1> USE MonitorAssumption, <1>0 DEF IInv, TypeOK, CountFits, CheckFits
<1>1. CASE Tick
  <2>1. row' \in [Streams -> Rows]
    BY <1>1, TickRows
  <2>2. checkDbCount' \in 0..DbCheckEvery
    BY <1>1 DEF Tick
  <2> QED
    BY <1>1, <2>1, <2>2 DEF Tick, cronVars, history
<1>2. CASE NilHandle
  BY <1>2 DEF NilHandle, cronVars
<1>3. CASE ChangeRow
  <2>1. cur[1] \in Ops /\ cur[2] \in Streams
    BY <1>3 DEF ChangeRow, Ops
  <2>2. row' \in [Streams -> Rows] /\ missed' \subseteq Streams /\ alarmed' \subseteq Streams
    <3>1. CASE Works(Monitor)
      <4>1. row' = [row EXCEPT ![cur[2]] = Changed(row[cur[2]], cur[1])]
        BY <1>3, <3>1 DEF ChangeRow
      <4>2. alarmed' \in {alarmed, alarmed \cup {cur[2]}}
        BY <1>3, <3>1 DEF ChangeRow
      <4> QED
        BY <1>3, <2>1, <3>1, <4>1, <4>2, RowTypes DEF ChangeRow
    <3>2. CASE ~Works(Monitor)
      BY <1>3, <2>1, <3>2 DEF ChangeRow
    <3> QED
      BY <3>1, <3>2
  <2> QED
    BY <1>3, <2>2 DEF ChangeRow, cronVars
<1>4. CASE PassEnds
  BY <1>4 DEF PassEnds, AfterPass, DbCheckDue, cronVars, history
<1>5. CASE Checked
  BY <1>5 DEF Checked, AfterPass, cronVars, history
<1>6. CASE Clean
  BY <1>6 DEF Clean, cronVars, history
<1>7. ASSUME NEW s \in Streams, ProbeFails(s) PROVE Rest
  <2>1. streamStates' \in [Streams -> Entries] /\ failed' \in [Streams -> 0..2]
    BY <1>7, EntryTypes DEF ProbeFails, Least
  <2>2. /\ mon' \in {"pass", "row"}
        /\ (mon' = "row") <=> (cur' # <<>>)
        /\ cur' \in {<<>>} \cup Ops \X Streams
        /\ settled' \subseteq Streams /\ alarmed' \subseteq Streams
    BY <1>7 DEF ProbeFails, Ask, Ops
  <2>3. /\ UNCHANGED <<live, config, FieldStreamMap, row, checkDbCount, cronVars, restarts, missed>>
        /\ todo' \subseteq Streams
    BY <1>7 DEF ProbeFails
  <2>4. mon = "pass"
    BY <1>7 DEF ProbeFails
  <2>5. row' \in [Streams -> Rows] /\ live' \subseteq Streams /\ config' \subseteq Streams /\ missed' \subseteq Streams
    BY <2>3
  <2>6. checkDbCount' \in 0..DbCheckEvery /\ restarts' \in 0..MaxRestarts
    BY <2>3
  <2>7. cron' \in BOOLEAN /\ toReport' \subseteq Streams /\ posted' \subseteq Streams
    BY <2>3 DEF cronVars
  <2>8. FieldStreamMap' \subseteq Streams
    BY <2>3
  <2>9. mon' \in {"wait", "pass", "row", "check", "clean", "dead"} /\ mon' \notin {"wait", "clean", "check"}
    BY <2>2
  <2>10. cur' \in {<<>>} \cup {"start", "broken", "recover", "active"} \X Streams
    BY <2>2 DEF Ops
  <2>11. /\ (mon' = "row") <=> (cur' # <<>>)
         /\ settled' \subseteq Streams /\ alarmed' \subseteq Streams /\ todo' \subseteq Streams
    BY <2>2, <2>3
  <2> QED
    BY <2>1, <2>5, <2>6, <2>7, <2>8, <2>9, <2>10, <2>11, Zenon
<1>8. ASSUME NEW s \in Streams, ProbeSucceeds(s) PROVE Rest
  <2>1. streamStates' \in [Streams -> Entries] /\ failed' \in [Streams -> 0..2]
    BY <1>8, EntryTypes DEF ProbeSucceeds
  <2>2. mon' = "row" /\ cur' # <<>> /\ cur' \in Ops \X Streams
    BY <1>8, EntryTypes DEF ProbeSucceeds, Ask
  <2> QED
    BY <1>8, <2>1, <2>2 DEF ProbeSucceeds, cronVars, Ops
<1>9. CASE CronTick \/ CronEnds
  BY <1>9 DEF CronTick, CronEnds, monVars, history
<1>10. ASSUME NEW s \in Streams, Aggregate(s) \/ ChangeConfig(s) \/ Push(s) PROVE Rest
  BY <1>10 DEF Aggregate, ChangeConfig, Push, monVars, cronVars, history
<1>11. CASE Host
  BY <1>11 DEF Host, monVars, cronVars, history
<1>12. CASE Restart
  <2>1. streamStates' \in [Streams -> Entries]
    BY <1>12, NoneTypes DEF Restart
  <2>2. FieldStreamMap' \subseteq Streams /\ todo' \subseteq Streams
    BY <1>12 DEF Restart
  <2>3. /\ mon' = "pass" /\ cur' = <<>> /\ checkDbCount' = 0 /\ cron' = FALSE /\ toReport' = {} /\ posted' = {}
        /\ settled' = {} /\ alarmed' = {} /\ UNCHANGED <<live, config, row, missed>>
    BY <1>12 DEF Restart
  <2>4. failed' \in [Streams -> 0..2] /\ restarts' \in 0..MaxRestarts
    BY <1>12 DEF Restart
  <2>5. checkDbCount' \in 0..DbCheckEvery
    BY <2>3
  <2>6. (mon' = "row") <=> (cur' # <<>>)
    BY <2>3
  <2>7. cur' \in {<<>>} \cup {"start", "broken", "recover", "active"} \X Streams
    BY <2>3
  <2>8. row' \in [Streams -> Rows] /\ live' \subseteq Streams /\ config' \subseteq Streams /\ missed' \subseteq Streams
    BY <2>3
  <2>9. cron' \in BOOLEAN /\ toReport' \subseteq Streams /\ posted' \subseteq Streams /\ settled' \subseteq Streams /\ alarmed' \subseteq Streams
    BY <2>3
  <2>10. mon' \in {"wait", "pass", "row", "check", "clean", "dead"} /\ mon' \notin {"wait", "clean", "check"}
    BY <2>3
  <2> QED
    BY <2>1, <2>2, <2>4, <2>5, <2>6, <2>7, <2>8, <2>9, <2>10, Zenon
<1>13. ASSUME NEW t \in Threads, Connect(t) PROVE Rest
  BY <1>13 DEF Connect, monVars, cronVars, history
<1>14. CASE UNCHANGED vars
  BY <1>14 DEF vars, monVars, cronVars, history
<1> QED
  BY <1>1, <1>2, <1>3, <1>4, <1>5, <1>6, <1>7, <1>8, <1>9, <1>10, <1>11, <1>12, <1>13, <1>14
  DEF Next, MonitorStep

(***************************************************************************)
(* The memory, the rows and the alarms.                                    *)
(***************************************************************************)

\* A step that leaves them alone.
LEMMA FitsKept ==
  ASSUME TypeOK, Fits,
         UNCHANGED <<streamStates, cur, failed, missed, settled, alarmed>>,
         \A s \in Streams : row'[s].status = row[s].status
  PROVE  Fits'
BY DEF TypeOK, Fits, MemoryFits, ChangeFits, AlarmFits, RowFollowsMemory

\* A first failure in a row breaks nothing.
LEMMA MarkOnce ==
  ASSUME NEW e \in Entries, e.FailCount = 0
  PROVE  /\ MarkStreamFail(e).FailCount = 1
         /\ e.state # "broken" => MarkStreamFail(e).state # "broken"
         /\ MarkStreamFail(e).state = "active" => e.state = "active"
<1>1. Least(e.FailCount + 1, 2) = 1
  BY DEF Least
<1>2. MarkStreamFail(e).FailCount = 1
  BY <1>1 DEF MarkStreamFail
<1>3. ~(1 >= BreaksAt)
  BY DEF BreaksAt
<1>4. MarkStreamFail(e).state = IF e.state = "none" THEN "" ELSE e.state
  BY <1>1, <1>3, Zenon DEF MarkStreamFail
<1>5. e.state \in {"none", "", "active", "broken"}
  BY DEF Entries
<1>6. CASE e.state = "none"
  BY <1>2, <1>4, <1>6
<1>7. CASE e.state # "none"
  BY <1>2, <1>4, <1>7
<1> QED
  BY <1>6, <1>7

\* Another failure in a row is one break.
LEMMA MarkTwice ==
  ASSUME NEW e \in Entries, e.FailCount # 0
  PROVE  MarkStreamFail(e).FailCount = 2 /\ MarkStreamFail(e).state = "broken"
<1>5. e.FailCount = 1 \/ e.FailCount = 2
  <2>1. e.FailCount \in 0..2
    BY DEF Entries
  <2>2. \A n \in 0..2 : n = 0 \/ n = 1 \/ n = 2
    OBVIOUS
  <2> QED
    BY <2>1, <2>2
<1>1. Least(e.FailCount + 1, 2) = 2
  <2>1. CASE e.FailCount = 1
    BY <2>1 DEF Least
  <2>2. CASE e.FailCount = 2
    BY <2>2 DEF Least
  <2> QED
    BY <1>5, <2>1, <2>2
<1>2. 2 >= BreaksAt
  BY DEF BreaksAt
<1>3. MarkStreamFail(e).FailCount = 2
  BY <1>1 DEF MarkStreamFail
<1>4. MarkStreamFail(e).state = "broken"
  BY <1>1, <1>2, Zenon DEF MarkStreamFail
<1> QED
  BY <1>3, <1>4

LEMMA FailFits ==
  ASSUME IInv, NEW s \in Streams, ProbeFails(s)
  PROVE  Fits'
<1> DEFINE e == MarkStreamFail(streamStates[s])
<1>1. /\ streamStates'[s] = e
      /\ \A o \in Streams \ {s} : streamStates'[o] = streamStates[o]
      /\ UNCHANGED <<row, missed>>
      /\ cur = <<>>
  BY DEF ProbeFails, IInv, TypeOK
<1>2. failed' = [failed EXCEPT ![s] = Least(failed[s] + 1, 2)]
  BY DEF ProbeFails
<1>3. failed[s] = streamStates[s].FailCount /\ failed[s] \in 0..2 /\ streamStates[s] \in Entries
  BY DEF IInv, TypeOK, Fits, MemoryFits
<1>4. (streamStates[s].state = "broken") <=> (failed[s] = 2)
  BY DEF IInv, Fits, MemoryFits
<1>5. CASE failed[s] = 0
  <2>1. /\ e.FailCount = 1
        /\ e.state # "broken"
        /\ e.state = "active" => streamStates[s].state = "active"
    <3>1. streamStates[s].FailCount = 0
      BY <1>3, <1>5
    <3>2. streamStates[s].state # "broken"
      <4>1. failed[s] # 2
        BY <1>5
      <4> QED
        BY <1>4, <4>1
    <3> QED
      BY <1>3, <3>1, <3>2, MarkOnce
  <2>2. failed'[s] = 1 /\ \A o \in Streams \ {s} : failed'[o] = failed[o]
    BY <1>2, <1>5, LeastType DEF IInv, TypeOK
  <2>3. ~(e.FailCount >= BreaksAt)
    BY <2>1 DEF BreaksAt
  <2>4. UNCHANGED <<cur, settled, alarmed>>
    BY <2>3 DEF ProbeFails
  <2> HIDE DEF e
  <2>5. MemoryFits'
    BY <1>1, <2>1, <2>2 DEF IInv, Fits, MemoryFits
  <2>6. ChangeFits' /\ AlarmFits'
    BY <1>1, <2>4 DEF IInv, Fits, ChangeFits, AlarmFits
  <2>7. RowFollowsMemory'
    BY <1>1, <2>1, <2>4 DEF IInv, Fits, RowFollowsMemory
  <2> QED
    BY <2>5, <2>6, <2>7 DEF Fits
<1>6. CASE failed[s] # 0
  <2>1. e.FailCount = 2 /\ e.state = "broken"
    BY <1>3, <1>6, MarkTwice
  <2>2. failed'[s] = 2 /\ \A o \in Streams \ {s} : failed'[o] = failed[o]
    BY <1>2, <1>3, <1>6, LeastType DEF IInv, TypeOK
  <2>3. e.FailCount >= BreaksAt
    BY <2>1 DEF BreaksAt
  <2>4. cur' = <<"broken", s>>
    BY <2>3 DEF ProbeFails, Ask
  <2>5. \/ UNCHANGED <<settled, alarmed>>
        \/ /\ settled' = IF row[s].status = "active" THEN settled \cup {s} ELSE settled \ {s}
           /\ alarmed' = alarmed \ {s}
    BY <2>3 DEF ProbeFails
  <2> HIDE DEF e
  <2>6. MemoryFits'
    BY <1>1, <2>1, <2>2 DEF IInv, Fits, MemoryFits
  <2>7. ChangeFits'
    BY <1>1, <2>1, <2>4 DEF ChangeFits
  <2>8. AlarmFits'
    BY <1>1, <2>4, <2>5 DEF IInv, Fits, AlarmFits
  <2>9. RowFollowsMemory'
    BY <1>1, <2>4 DEF IInv, Fits, RowFollowsMemory
  <2> QED
    BY <2>6, <2>7, <2>8, <2>9 DEF Fits
<1> QED
  BY <1>5, <1>6

LEMMA OKFits ==
  ASSUME IInv, NEW s \in Streams, ProbeSucceeds(s)
  PROVE  Fits'
<1> DEFINE e == ProbeOK(streamStates[s])
<1>1. /\ streamStates'[s] = e /\ failed'[s] = 0
      /\ \A o \in Streams \ {s} : failed'[o] = failed[o] /\ streamStates'[o] = streamStates[o]
      /\ UNCHANGED <<row, missed>>
      /\ settled' = settled \ {s} /\ alarmed' = alarmed \ {s}
      /\ cur = <<>> /\ cur' = <<AfterOK(streamStates[s]), s>>
  BY DEF ProbeSucceeds, Ask, IInv, TypeOK
<1>2. AfterOK(streamStates[s]) # "broken"
  BY EntryTypes DEF IInv, TypeOK
<1>3. e.FailCount = 0 /\ e.state # "broken"
  BY DEF ProbeOK
<1>4. MemoryFits'
  BY <1>1, <1>3 DEF MemoryFits, IInv, Fits
<1>5. ChangeFits'
  BY <1>1, <1>2, <1>3 DEF ChangeFits
<1>6. AlarmFits'
  BY <1>1 DEF AlarmFits, IInv, Fits
<1>7. RowFollowsMemory'
  BY <1>1 DEF RowFollowsMemory, IInv, Fits
<1> QED
  BY <1>4, <1>5, <1>6, <1>7 DEF Fits

LEMMA NilFits ==
  ASSUME IInv, NilHandle
  PROVE  Fits'
<1>1. /\ UNCHANGED <<streamStates, row, failed, settled, alarmed>>
      /\ cur # <<>> /\ cur' = <<>> /\ missed' = missed \cup {cur[2]}
      /\ cur[2] \in Streams /\ (\A s : cur = <<"broken", s>> => cur[2] = s)
  BY DEF NilHandle, IInv, TypeOK
<1> QED
  BY <1>1 DEF IInv, Fits, MemoryFits, ChangeFits, AlarmFits, RowFollowsMemory

\* What each change makes of the row of a stream.
LEMMA ChangedRow ==
  ASSUME NEW r \in Rows, NEW op \in Ops
  PROVE  /\ op = "broken" => /\ Changed(r, op).status \in {"none", "broken"} \cup {r.status}
                             /\ r # NoRow => Changed(r, op).status = "broken"
                             /\ r.status = "active" => Changed(r, op).since = "new"
         /\ op # "broken" => Changed(r, op).status # "broken"
<1> USE DEF Rows, NoRow, Changed
<1>1. CASE op = "broken"
  <2>1. CASE r = NoRow
    BY <1>1, <2>1 DEF OnStreamBroken
  <2>2. CASE r # NoRow
    BY <1>1, <2>2 DEF OnStreamBroken
  <2> QED
    BY <1>1, <2>1, <2>2
<1>2. CASE op = "start"
  BY <1>2 DEF OnStreamStart
<1>3. CASE op = "recover"
  BY <1>3 DEF OnStreamRecover
<1>4. CASE op = "active"
  BY <1>4 DEF OnStreamActive
<1> QED
  BY <1>1, <1>2, <1>3, <1>4 DEF Ops

LEMMA RowFits ==
  ASSUME IInv, ChangeRow
  PROVE  Fits'
<1> DEFINE op == cur[1]
           s == cur[2]
<1>1. /\ cur # <<>> /\ cur' = <<>> /\ UNCHANGED <<streamStates, failed, settled>>
      /\ op \in Ops /\ s \in Streams
      /\ \A o : cur = <<"broken", o>> => s = o
  BY DEF ChangeRow, IInv, TypeOK, Ops
<1>2. MemoryFits' /\ ChangeFits'
  BY <1>1 DEF IInv, Fits, MemoryFits, ChangeFits
<1>3. CASE Works(Monitor)
  <2>1. /\ row'[s] = Changed(row[s], op)
        /\ \A o \in Streams \ {s} : row'[o] = row[o]
        /\ missed' = missed \ {s}
        /\ alarmed' \in {alarmed, alarmed \cup {s}}
    BY <1>1, <1>3 DEF ChangeRow, IInv, TypeOK
  <2>2. row[s] \in Rows
    BY <1>1 DEF IInv, TypeOK
  <2>3. AlarmFits'
    <3> SUFFICES ASSUME NEW o \in settled' \ alarmed'
                 PROVE  row'[o].status = "active" /\ o \in missed'
      BY DEF AlarmFits
    <3>1. o \in settled \ alarmed
      BY <1>1, <2>1
    <3>2. row[o].status = "active" /\ (o \in missed \/ cur = <<"broken", o>>)
      BY <3>1 DEF IInv, Fits, AlarmFits
    <3>3. o # s
      <4> SUFFICES ASSUME o = s PROVE FALSE
        OBVIOUS
      <4>0. row[s].status = "active"
        BY <3>2
      <4>1. op = "broken"
        BY <1>1, <3>1 DEF IInv, Fits, ChangeFits
      <4>2. row'[s].since = "new" /\ row'[s].status = "broken"
        <5>1. row[s] # NoRow
          BY <3>2, <4>0 DEF NoRow
        <5> QED
          BY <1>1, <2>1, <2>2, <3>2, <4>0, <4>1, <5>1, ChangedRow
      <4>3. Alarms(row'[s]) = {TRUE}
        <5>1. row'[s] # NoRow /\ row'[s].since # "old"
          BY <4>2 DEF NoRow
        <5> QED
          BY <5>1 DEF Alarms
      <4>4. \E a \in {TRUE} : alarmed' = IF a THEN alarmed \cup {s} ELSE alarmed
        BY <1>3, <4>1, <4>3 DEF ChangeRow
      <4> QED
        BY <4>4
    <3>4. o \in Streams
      BY <3>1 DEF IInv, TypeOK
    <3> QED
      BY <1>1, <2>1, <3>2, <3>3, <3>4
  <2>4. RowFollowsMemory'
    <3> SUFFICES ASSUME NEW o \in Streams, o \notin missed'
                 PROVE  /\ streamStates[o].state = "broken" => row'[o].status \in {"none", "broken"}
                        /\ streamStates[o].state = "active" => row'[o].status # "broken"
      BY <1>1 DEF RowFollowsMemory
    <3>1. CASE o = s
      <4>1. (op = "broken") <=> (streamStates[s].state = "broken")
        BY <1>1 DEF IInv, Fits, ChangeFits
      <4>2. op = "broken" => row'[s].status \in {"none", "broken"}
        <5>1. CASE row[s] = NoRow
          BY <1>1, <2>1, <2>2, <5>1, ChangedRow DEF NoRow
        <5>2. CASE row[s] # NoRow
          BY <1>1, <2>1, <2>2, <5>2, ChangedRow
        <5> QED
          BY <5>1, <5>2
      <4> QED
        BY <1>1, <2>1, <2>2, <3>1, <4>1, <4>2, ChangedRow
    <3>2. CASE o # s
      BY <1>1, <2>1, <3>2 DEF IInv, Fits, RowFollowsMemory
    <3> QED
      BY <3>1, <3>2
  <2> QED
    BY <1>2, <2>3, <2>4 DEF Fits
<1>4. CASE ~Works(Monitor)
  <2>1. missed' = missed \cup {s} /\ UNCHANGED <<row, alarmed>>
    BY <1>4 DEF ChangeRow
  <2>2. AlarmFits'
    BY <1>1, <2>1 DEF IInv, Fits, AlarmFits
  <2>3. RowFollowsMemory'
    BY <1>1, <2>1 DEF IInv, Fits, RowFollowsMemory
  <2> QED
    BY <1>2, <2>2, <2>3 DEF Fits
<1> QED
  BY <1>3, <1>4

LEMMA FitsStep == IInv /\ [Next]_vars => Fits'
<1> SUFFICES ASSUME IInv, [Next]_vars PROVE Fits'
  OBVIOUS
<1>1. CASE Tick
  BY <1>1, TickRows, FitsKept DEF IInv, TypeOK, Tick, history
<1>2. CASE PassEnds \/ Checked \/ Clean
  BY <1>2, FitsKept DEF IInv, PassEnds, Checked, Clean, history
<1>3. CASE CronTick \/ CronEnds \/ Host
  BY <1>3, FitsKept DEF IInv, CronTick, CronEnds, Host, monVars, history
<1>4. ASSUME NEW s \in Streams, Aggregate(s) \/ ChangeConfig(s) \/ Push(s) PROVE Fits'
  BY <1>4, FitsKept DEF IInv, Aggregate, ChangeConfig, Push, monVars, history
<1>5. ASSUME NEW t \in Threads, Connect(t) PROVE Fits'
  BY <1>5, FitsKept DEF IInv, Connect, monVars, history
<1>6. CASE Restart
  BY <1>6 DEF Restart, NoEntry, Fits, MemoryFits, ChangeFits, AlarmFits, RowFollowsMemory
<1>7. CASE UNCHANGED vars
  BY <1>7, FitsKept DEF IInv, vars, monVars, history
<1> QED
  BY <1>1, <1>2, <1>3, <1>4, <1>5, <1>6, <1>7, FailFits, OKFits, NilFits, RowFits DEF Next, MonitorStep

LEMMA StepInv == IInv /\ [Next]_vars => IInv'
<1> SUFFICES ASSUME IInv, [Next]_vars PROVE IInv'
  OBVIOUS
<1>1. DbFits'
  BY DbStep DEF IInv, TypeOK
<1> QED
  BY <1>1, TypeStep, FitsStep DEF IInv

(***************************************************************************)
(* The theorems.                                                           *)
(***************************************************************************)

\* The invariant the other theorems follow from.
THEOREM Invariance == Spec => []IInv
BY InitInv, StepInv, PTL DEF Spec

\* Every variable keeps its type; the pool to open is always to be had.
THEOREM TypeCorrect == Spec => []TypeOK
<1>1. IInv => TypeOK
  BY DEF IInv
<1> QED
  BY <1>1, Invariance, PTL

\* One pool is open at most, and dbHdl names it, however many threads race to open one
\* (db.go:22, 111-148).
THEOREM PoolIsOne == Spec => []OnePool
<1>1. IInv => OnePool
  BY DEF IInv, DbFits
<1> QED
  BY <1>1, Invariance, PTL

\* The rows say what the probes of the streams said, through outages and restarts
\* (stream.go:222-255, 324-356).
THEOREM RowsFollow == Spec => []RowFollowsProbes
<1>1. IInv => RowFollowsProbes
  BY DEF IInv, Fits, MemoryFits, RowFollowsProbes, BrokenIsTwoInARow
<1> QED
  BY <1>1, Invariance, PTL

\* A break found while the row said active raises its alarm (stream.go:72, 326).
THEOREM BreaksAlarm == Spec => []BreakIsAlarmed
<1>1. IInv => BreakIsAlarmed
  <2> SUFFICES ASSUME IInv, NEW s \in settled \ missed, cur = <<>> \/ cur[2] # s, s \notin alarmed
               PROVE  FALSE
    BY DEF BreakIsAlarmed
  <2>1. cur = <<"broken", s>>
    BY DEF IInv, Fits, AlarmFits
  <2> QED
    BY <2>1
<1> QED
  BY <1>1, Invariance, PTL

\* No statistics are posted for a stream whose last two probes failed (stats.go:274, 428).
THEOREM PostsAreOfLive == Spec => ReportedIsUp
<1>1. IInv /\ [Next]_vars => [\A s \in posted' \ posted : failed[s] < 2]_vars
  <2> SUFFICES ASSUME IInv, [Next]_vars, NEW s \in posted' \ posted PROVE failed[s] < 2
    OBVIOUS
  <2>1. PICK o \in Streams : Aggregate(o)
    BY DEF Next, MonitorStep, Tick, NilHandle, ChangeRow, PassEnds, Checked, Clean, ProbeFails,
           ProbeSucceeds, CronTick, CronEnds, Host, Restart, ChangeConfig, Push, Connect, vars, cronVars
  <2>2. s = o /\ MayPost(streamStates[s])
    BY <2>1 DEF Aggregate
  <2>3. streamStates[s].state # "broken" /\ failed[s] \in 0..2
    BY <2>1, <2>2 DEF MayPost, IInv, TypeOK
  <2>4. failed[s] # 2
    BY <2>1, <2>2, <2>3 DEF IInv, Fits, MemoryFits
  <2> QED
    BY <2>3, <2>4
<1> QED
  BY <1>1, Invariance, PTL DEF Spec, ReportedIsUp
=============================================================================
