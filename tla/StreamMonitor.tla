--------------------------- MODULE StreamMonitor ---------------------------
(***************************************************************************)
(* The stream monitor of the backend: the thread that probes every stream  *)
(* once a minute (services/stream.go, tasks/monitor.go), the hourly and    *)
(* daily statistics that ask it which streams are up (services/stats.go,   *)
(* tasks/cronjobs.go), and the handlers that change the table of streams   *)
(* (apis/field.go), over the shared database handle.                       *)
(*                                                                         *)
(* What the monitor remembers of a stream is lost by a restart; the row of *)
(* the stream in statStreamStatus is not.  A field has one stream here.    *)
(***************************************************************************)
EXTENDS DbHandle

CONSTANTS
  Streams,
  DbCheckEvery,   \* passes between two checks of the database: 5
  MaxRestarts     \* bound on the restarts of the backend

VARIABLES
  live,      \* the streams that are being pushed
  config,    \* info_field_streams: the streams of the fields
  FieldStreamMap,  \* the streams that were in it when the backend was started
  streamStates,    \* [stream -> what the monitor remembers of it]
  row,       \* statStreamStatus: [stream -> its row]
  mon,       \* where the monitor is
  todo,      \* the streams it has not come to in this pass
  cur,       \* the stream whose row it is about to change, and how
  checkDbCount,
  cron,      \* the thread of the statistics is at work
  toReport,  \* the streams it has not come to
  posted,    \* the streams whose statistics it has posted this time
  restarts,
  failed,    \* history: [stream -> probes that failed in a row, at most 2]
  missed,    \* history: the streams whose row missed the last change
  settled,   \* history: the streams whose row said active when the break was found
  alarmed    \* history: the streams with an alarm since

monVars == <<FieldStreamMap, streamStates, mon, todo, cur, checkDbCount>>
cronVars == <<cron, toReport, posted>>
history == <<failed, missed, settled, alarmed>>
vars == <<dbVars, live, config, monVars, row, cronVars, restarts, history>>

Monitor == "monitor"
Cron == "cron"

ASSUME MonitorAssumption ==
  {Monitor, Cron} \subseteq Threads /\ DbCheckEvery \in Nat \ {0} /\ MaxRestarts \in Nat

\* No entry in streamStates, or one with its State and FailCount.
NoEntry == [state |-> "none", FailCount |-> 0]
Entries == [state : {"none", "", "active", "broken"}, FailCount : 0..2]

\* since: how long ago BreakStartTime is: "new" up to ten minutes, "none" for nil.
NoRow == [status |-> "none", since |-> "none"]
Rows == [status : {"none", "active", "broken", "recovered"}, since : {"none", "new", "old"}]

(***************************************************************************)
(* What is remembered of a stream, and its row.                            *)
(***************************************************************************)

BreaksAt_One == 1
BreaksAt == 2
Least(a, b) == IF a < b THEN a ELSE b

MarkStreamFail(e) ==
  LET n == Least(e.FailCount + 1, 2) IN
  [state |-> IF n >= BreaksAt THEN "broken" ELSE IF e.state = "none" THEN "" ELSE e.state,
   FailCount |-> n]

\* ResetFailCounter, and SetStreamState where the pass calls it.
ProbeOK(e) ==
  [state |-> IF e.state \in {"none", "broken"} THEN "active" ELSE e.state, FailCount |-> 0]

\* The change of the row that follows a successful probe.
AfterOK(e) == CASE e.state = "none" -> "start" [] e.state = "broken" -> "recover" [] OTHER -> "active"

OnStreamStart(r) == [r EXCEPT !.status = "active"]

OnStreamBroken_KeepsStart(r) ==
  IF r = NoRow THEN r
  ELSE [status |-> "broken", since |-> IF r.since = "none" THEN "new" ELSE r.since]
OnStreamBroken(r) ==
  IF r = NoRow THEN r
  ELSE [status |-> "broken", since |-> IF r.status = "active" THEN "new" ELSE r.since]

OnStreamRecover_Not(r) == r
OnStreamRecover(r) == IF r.status = "broken" THEN [r EXCEPT !.status = "recovered"] ELSE r

OnStreamActive_Recovered(r) == IF r.status = "broken" THEN r ELSE [r EXCEPT !.status = "active"]
OnStreamActive(r) == [r EXCEPT !.status = "active"]

Changed(r, op) ==
  CASE op = "start" -> OnStreamStart(r)
    [] op = "broken" -> OnStreamBroken(r)
    [] op = "recover" -> OnStreamRecover(r)
    [] op = "active" -> OnStreamActive(r)

\* The alarm of a break: for ten minutes, and when the duration is a multiple of an
\* hour to the second.  BreakDuration stays 0 where BreakStartTime is nil.
Alarms(r) == IF r = NoRow THEN {FALSE} ELSE IF r.since = "old" THEN BOOLEAN ELSE {TRUE}

(***************************************************************************)
(* The monitor's thread.                                                   *)
(***************************************************************************)

Init ==
  /\ DbInit
  /\ live \in SUBSET Streams
  /\ config \in SUBSET Streams /\ FieldStreamMap = config
  /\ streamStates = [s \in Streams |-> NoEntry]
  /\ row = [s \in Streams |-> NoRow]
  /\ mon = "pass" /\ todo = FieldStreamMap /\ cur = <<>> /\ checkDbCount = 0
  /\ cron = FALSE /\ toReport = {} /\ posted = {}
  /\ restarts = 0
  /\ failed = [s \in Streams |-> 0] /\ missed = {} /\ settled = {} /\ alarmed = {}

\* The ticker of a minute; breaks grow old.
Tick ==
  /\ mon = "wait"
  /\ mon' = "pass" /\ todo' = FieldStreamMap
  /\ checkDbCount' = checkDbCount + 1
  /\ \E A \in SUBSET {s \in Streams : row[s].since = "new"} :
        row' = [s \in Streams |-> IF s \in A THEN [row[s] EXCEPT !.since = "old"] ELSE row[s]]
  /\ UNCHANGED <<dbVars, live, config, FieldStreamMap, streamStates, cur, cronVars, restarts, history>>

Ask(op, s) ==
  /\ mon' = "row" /\ cur' = <<op, s>>
  /\ AskDb(Monitor, "get")
  /\ UNCHANGED pool

\* One round of the loop of CheckStreamStatus: the probe, and what is remembered of it.
ProbeFails(s) == LET e == MarkStreamFail(streamStates[s]) IN
  /\ mon = "pass" /\ s \in todo \ live
  /\ streamStates' = [streamStates EXCEPT ![s] = e]
  /\ failed' = [failed EXCEPT ![s] = Least(@ + 1, 2)]
  /\ todo' = todo \ {s}
  /\ IF e.FailCount >= BreaksAt
       THEN /\ Ask("broken", s)
            /\ IF streamStates[s].state # "broken"
                 THEN /\ settled' = IF row[s].status = "active" THEN settled \cup {s} ELSE settled \ {s}
                      /\ alarmed' = alarmed \ {s}
                 ELSE UNCHANGED <<settled, alarmed>>
       ELSE UNCHANGED <<dbVars, mon, cur, settled, alarmed>>
  /\ UNCHANGED <<live, config, FieldStreamMap, row, checkDbCount, cronVars, restarts, missed>>

ProbeSucceeds(s) ==
  /\ mon = "pass" /\ s \in todo \cap live
  /\ streamStates' = [streamStates EXCEPT ![s] = ProbeOK(@)]
  /\ failed' = [failed EXCEPT ![s] = 0]
  /\ todo' = todo \ {s}
  /\ Ask(AfterOK(streamStates[s]), s)
  /\ settled' = settled \ {s} /\ alarmed' = alarmed \ {s}
  /\ UNCHANGED <<live, config, FieldStreamMap, row, checkDbCount, cronVars, restarts, missed>>

\* A nil handle: OnStreamActive returns, the others panic, and the TryException at the
\* top of MonitorMainThread ends the thread.
NilHandle ==
  /\ mon = "row" /\ at[Monitor] = "has" /\ got[Monitor] = 0
  /\ mon' = IF cur[1] = "active" THEN "pass" ELSE "dead"
  /\ Done(Monitor)
  /\ missed' = missed \cup {cur[2]}
  /\ cur' = <<>>
  /\ UNCHANGED <<pool, live, config, FieldStreamMap, streamStates, todo,
                 checkDbCount, row, cronVars, restarts, failed, settled, alarmed>>

\* The row is read, changed and saved; a database that fails is not told from a row
\* that is missing.
ChangeRow == LET op == cur[1] s == cur[2] IN
  /\ mon = "row" /\ at[Monitor] = "has" /\ got[Monitor] # 0
  /\ IF Works(Monitor)
       THEN /\ row' = [row EXCEPT ![s] = Changed(@, op)]
            /\ missed' = missed \ {s}
            /\ \E a \in IF op = "broken" THEN Alarms(row'[s]) ELSE {FALSE} :
                  alarmed' = IF a THEN alarmed \cup {s} ELSE alarmed
       ELSE missed' = missed \cup {s} /\ UNCHANGED <<row, alarmed>>
  /\ mon' = "pass" /\ cur' = <<>>
  /\ Done(Monitor)
  /\ UNCHANGED <<pool, live, config, FieldStreamMap, streamStates, todo,
                 checkDbCount, cronVars, restarts, failed, settled>>

\* The pass is over.  Every DbCheckEvery ticks the database is checked; once a day
\* clearOverDatedDbRecords asks for it.
AfterPass ==
  \/ mon' = "wait" /\ Done(Monitor)
  \/ /\ checkDbCount > 0 \/ mon = "check"   \* not after the pass before the first tick
     /\ mon' = "clean" /\ at' = [at EXCEPT ![Monitor] = "get"] /\ got' = [got EXCEPT ![Monitor] = 0]

DbCheckDue_Later == checkDbCount > DbCheckEvery
DbCheckDue == checkDbCount >= DbCheckEvery

PassEnds ==
  /\ mon = "pass" /\ todo = {}
  /\ IF DbCheckDue
       THEN mon' = "check" /\ checkDbCount' = 0 /\ AskDb(Monitor, "check")
       ELSE AfterPass /\ UNCHANGED checkDbCount
  /\ UNCHANGED <<pool, live, config, FieldStreamMap, streamStates, todo, cur, row, cronVars, restarts, history>>

Checked ==
  /\ mon = "check" /\ at[Monitor] = "has"
  /\ AfterPass
  /\ UNCHANGED <<pool, live, config, FieldStreamMap, streamStates, todo, cur, checkDbCount, row,
                 cronVars, restarts, history>>

\* It does not ask whether the handle is nil.
Clean ==
  /\ mon = "clean" /\ at[Monitor] = "has"
  /\ mon' = IF got[Monitor] = 0 THEN "dead" ELSE "wait"
  /\ Done(Monitor)
  /\ UNCHANGED <<pool, live, config, FieldStreamMap, streamStates, todo, cur, checkDbCount, row,
                 cronVars, restarts, history>>

MonitorStep ==
  \/ Tick \/ NilHandle \/ ChangeRow \/ PassEnds \/ Checked \/ Clean
  \/ \E s \in Streams : ProbeFails(s) \/ ProbeSucceeds(s)

(***************************************************************************)
(* The statistics, the handlers, and what happens around them.             *)
(***************************************************************************)

CronTick ==
  /\ ~cron /\ cron' = TRUE
  /\ toReport' = FieldStreamMap
  /\ AskDb(Cron, "get")
  /\ UNCHANGED <<pool, live, config, monVars, row, posted, restarts, history>>

MayPost_Known(e) == e.state # "none"
MayPost(e) == e.state = "active"

\* AggregateHourlyStat and AggregateDailyStat for one stream: it is skipped if the query
\* fails, if nobody played it, or if it is not active.  The report is posted whether its
\* row could be inserted or not.
Aggregate(s) ==
  /\ at[Cron] = "has" /\ got[Cron] # 0 /\ s \in toReport
  /\ toReport' = toReport \ {s}
  /\ \E played \in BOOLEAN :
       posted' = IF Works(Cron) /\ played /\ MayPost(streamStates[s]) THEN posted \cup {s} ELSE posted
  /\ UNCHANGED <<dbVars, live, config, monVars, row, cron, restarts, history>>

\* The loop of the statistics outlives the panic of a nil handle.
CronEnds ==
  /\ at[Cron] = "has" /\ (got[Cron] = 0 \/ toReport = {})
  /\ cron' = FALSE /\ toReport' = {} /\ posted' = {}
  /\ Done(Cron)
  /\ UNCHANGED <<pool, live, config, monVars, row, restarts, history>>

\* ApiPostFieldStream and ApiDeleteFieldStream change the table, not FieldStreamMap.  A
\* handler that finds no pool opens one like the statistics do: that is left to them.
ChangeConfig(s) ==
  /\ up /\ hdl # 0
  /\ config' \in {config \cup {s}, config \ {s}}
  /\ UNCHANGED <<dbVars, live, monVars, row, cronVars, restarts, history>>

Push(s) ==
  /\ live' = IF s \in live THEN live \ {s} ELSE live \cup {s}
  /\ UNCHANGED <<dbVars, config, monVars, row, cronVars, restarts, history>>

Host ==
  /\ HostChange
  /\ UNCHANGED <<live, config, monVars, row, cronVars, restarts, history>>

\* main: without the database it exits; what LoadFieldStreamMapping returns is not
\* looked at, and without it there is nothing to monitor.
Restart ==
  /\ restarts < MaxRestarts /\ up
  /\ restarts' = restarts + 1
  /\ hdl' = 1 /\ open' = {1} /\ mutex' = "free"
  /\ at' = [t \in Threads |-> "out"] /\ got' = [t \in Threads |-> 0]
  /\ FieldStreamMap' \in {config, {}}
  /\ streamStates' = [s \in Streams |-> NoEntry]
  /\ mon' = "pass" /\ todo' = FieldStreamMap' /\ cur' = <<>> /\ checkDbCount' = 0
  /\ cron' = FALSE /\ toReport' = {} /\ posted' = {}
  /\ failed' = [s \in Streams |-> 0] /\ settled' = {} /\ alarmed' = {}
  /\ UNCHANGED <<up, live, config, row, missed>>

Connect(t) == Conn(t) /\ UNCHANGED <<live, config, monVars, row, cronVars, restarts, history>>

Next ==
  \/ MonitorStep
  \/ CronTick \/ CronEnds \/ Host \/ Restart
  \/ \E s \in Streams : Aggregate(s) \/ ChangeConfig(s) \/ Push(s)
  \/ \E t \in Threads : Connect(t)

Spec == Init /\ [][Next]_vars

\* The monitor's thread runs on, and so does every thread that opens the database.
FairSpec ==
  /\ Spec
  /\ WF_vars(MonitorStep)
  /\ \A t \in Threads : WF_vars(Connect(t))

(***************************************************************************)
(* Properties.                                                             *)
(***************************************************************************)

\* Every variable has its type.
TypeOK ==
  /\ DbType
  /\ live \subseteq Streams /\ config \subseteq Streams /\ FieldStreamMap \subseteq Streams
  /\ streamStates \in [Streams -> Entries] /\ row \in [Streams -> Rows]
  /\ mon \in {"wait", "pass", "row", "check", "clean", "dead"}
  /\ todo \subseteq Streams /\ toReport \subseteq Streams
  /\ cur \in {<<>>} \cup {"start", "broken", "recover", "active"} \X Streams
  /\ (mon = "row") <=> (cur # <<>>)
  /\ checkDbCount \in 0..DbCheckEvery
  /\ cron \in BOOLEAN /\ posted \subseteq Streams
  /\ restarts \in 0..MaxRestarts
  /\ failed \in [Streams -> 0..2]
  /\ missed \subseteq Streams /\ settled \subseteq Streams /\ alarmed \subseteq Streams

\* A stream is broken for the monitor exactly when its last two probes failed, both
\* since the backend was started (stream.go:235, utils/const.go:20).
BrokenIsTwoInARow ==
  \A s \in Streams : (streamStates[s].state = "broken") <=> (failed[s] = 2)

\* When the monitor is not about to change the row of a stream, the row says broken
\* when the monitor says so, if there is a row, and not when it says active, unless the
\* last change was lost with the database (stream.go:324-356).
RowFollowsMemory ==
  \A s \in Streams \ missed : (cur = <<>> \/ cur[2] # s) =>
    /\ streamStates[s].state = "broken" => row[s].status \in {"none", "broken"}
    /\ streamStates[s].state = "active" => row[s].status # "broken"

\* What the row of a stream says follows its probes, through what the monitor remembers
\* of it (stream.go:222-255, 324-356).
RowFollowsProbes == BrokenIsTwoInARow /\ RowFollowsMemory

\* A break that the monitor found while the row said active has raised an alarm by the
\* time its row is changed, however old an earlier break of the stream is, unless the
\* database failed (stream.go:72, 326).
BreakIsAlarmed ==
  \A s \in settled \ missed :
    streamStates[s].state = "broken" /\ (cur = <<>> \/ cur[2] # s) => s \in alarmed

\* A stream that is pushed and a database that answers for good end in a row that says
\* active, whatever failed before, as long as the monitor lives and knows the stream.
LiveBecomesActive ==
  \A s \in Streams :
    <>[](s \in live /\ up /\ s \in FieldStreamMap /\ mon # "dead") => <>[](row[s].status = "active")

\* The statistics are never posted for a stream whose last two probes failed, whatever the
\* monitor does between two streams (stats.go:274, 428).
ReportedIsUp == [][\A s \in posted' \ posted : failed[s] < 2]_vars
=============================================================================
