------------------------------ MODULE Rounds ------------------------------
(***************************************************************************)
(* The rounds of a studio field: the handlers of backend/apis/apis.go that *)
(* start, end and cancel a round, the lock table of utils/locker.go that   *)
(* is to make the end idempotent, and the report of services/stats.go that *)
(* is made 90 seconds after it.                                            *)
(*                                                                         *)
(* Each request is a goroutine; it interleaves with the others between its *)
(* accesses to mapRound, to the lock table and to the database.  A step of *)
(* the database may fail: First then leaves item.ID at 0, Create answers   *)
(* 500, and the error of Save is not looked at.  A request may leave the   *)
(* field empty: gorm then compares the round only, and a row created so    *)
(* gets the default field.                                                 *)
(***************************************************************************)
EXTENDS Naturals, FiniteSets

CONSTANTS
  Requests,      \* the requests that may be under way at one time
  RoundIds,      \* the rounds
  Fields,        \* the fields that requests name
  DefaultField,  \* the column's default
  NoField        \* a request that names no field

ASSUME RoundsAssumption ==
  /\ RoundIds # {}
  /\ DefaultField \in Fields
  /\ NoField \notin Fields

VARIABLES
  req,       \* [request -> the handler it runs and where it is]
  rows,      \* statfieldround: [round -> its row]
  mapRound,  \* the rounds that were started and not ended, in memory
  locks,     \* the lock table: [key -> "free", "fresh" or "expired"]
  sweep,     \* the expired keys the cleaner has seen and not deleted yet
  timers,    \* [round -> the reports that wait for their 90 seconds]
  stat,      \* the rounds with a row in videostat_round
  posted,    \* [round -> the reports posted to Lark, at most Cap]
  marks,     \* history: [round -> what happened to it of the things below]
  lapsed     \* history: the keys whose lock expired while its handler ran

vars == <<req, rows, mapRound, locks, sweep, timers, stat, posted, marks, lapsed>>
reports == <<timers, stat, posted>>
table == <<locks, sweep, lapsed>>

\* What may become of a round: two ends, or an end and a cancel, that both found it
\* in mapRound; a database step that failed; a request that named another field; a
\* restart of the backend.
Marks == {"overlap", "fault", "field", "restart"}

Cap == 2    \* reports are counted up to this

Keys == (Fields \cup {NoField}) \X RoundIds
NoRow == [status |-> "none", field |-> DefaultField]
Rows == {NoRow} \cup [status : {"going", "done", "cancel"}, field : Fields]

Idle == [op |-> "none", at |-> "idle", round |-> CHOOSE r \in RoundIds : TRUE, field |-> NoField]
Handlers ==
  [op : {"none", "start", "end", "cancel"},
   at : {"idle", "look", "create", "store", "load", "lock", "save", "unlock", "forget"},
   round : RoundIds, field : Fields \cup {NoField}]

\* The row a lookup with &FieldRoundStat{FieldName, RoundId} finds.
Finds(q) ==
  /\ rows[q.round] # NoRow
  /\ q.field \in {NoField, rows[q.round].field}

Key(q) == <<q.field, q.round>>
More(f, r) == [f EXCEPT ![r] = IF @ < Cap THEN @ + 1 ELSE @]
Goto(p, at) == req' = [req EXCEPT ![p] = IF at = "idle" THEN Idle ELSE [@ EXCEPT !.at = at]]
Mark(r, what) == marks' = [marks EXCEPT ![r] = @ \cup what]

\* Past its look at mapRound, which it will delete the round from.
Closing(q) == q.op \in {"end", "cancel"} /\ q.at \notin {"idle", "load"}

\* Between the lock and the unlock of the end of a round.
Holding(q) == q.op = "end" /\ q.at \in {"look", "save", "unlock"}

\* What Save writes, and how the handler leaves when it found no row.
Closed_Kept(q) == IF q.op = "end" THEN "going" ELSE "cancel"
Closed(q) == IF q.op = "end" THEN "done" ELSE "cancel"

Leave_Locked(q) == "forget"
Leave(q) == IF q.op = "end" THEN "unlock" ELSE "forget"

Due_Always(r) == TRUE
Due(r) == timers[r] > 0

Init ==
  /\ req = [p \in Requests |-> Idle]
  /\ rows = [r \in RoundIds |-> NoRow]
  /\ mapRound = {}
  /\ locks = [k \in Keys |-> "free"] /\ sweep = {}
  /\ timers = [r \in RoundIds |-> 0]
  /\ stat = {} /\ posted = [r \in RoundIds |-> 0]
  /\ marks = [r \in RoundIds |-> {}] /\ lapsed = {}

(***************************************************************************)
(* Requests.                                                               *)
(***************************************************************************)

\* ShouldBindJSON: a request with a round is accepted; the others change nothing.
Arrive(p) ==
  /\ req[p] = Idle
  /\ \E op \in {"start", "end", "cancel"}, r \in RoundIds, f \in Fields \cup {NoField} :
        req' = [req EXCEPT ![p] = [op |-> op, round |-> r, field |-> f,
                                   at |-> IF op = "start" THEN "look" ELSE "load"]]
  /\ UNCHANGED <<rows, mapRound, table, reports, marks>>

StartLook(p) == LET q == req[p] IN
  /\ q.op = "start" /\ q.at = "look"
  /\ \E fault \in BOOLEAN :
        Goto(p, IF Finds(q) /\ ~fault THEN "idle" ELSE "create")
  /\ UNCHANGED <<rows, mapRound, table, reports, marks>>

\* roundId is unique in the table: a second row is refused, whatever its field.
StartCreate(p) == LET q == req[p] IN
  /\ q.at = "create"
  /\ \/ /\ rows[q.round] = NoRow
        /\ rows' = [rows EXCEPT ![q.round] =
             [status |-> "going", field |-> IF q.field = NoField THEN DefaultField ELSE q.field]]
        /\ Goto(p, "store")
     \/ Goto(p, "idle") /\ UNCHANGED rows
  /\ UNCHANGED <<mapRound, table, reports, marks>>

StartStore_Not(p) ==
  /\ req[p].at = "store"
  /\ Goto(p, "idle")
  /\ UNCHANGED <<rows, mapRound, table, reports, marks>>

StartStore(p) ==
  /\ req[p].at = "store"
  /\ mapRound' = mapRound \cup {req[p].round}
  /\ Goto(p, "idle")
  /\ UNCHANGED <<rows, table, reports, marks>>

\* The look at mapRound of an end or a cancel; from here on the round is deleted from
\* it when the handler returns, whatever it answers.
Load(p) == LET q == req[p] IN
  /\ q.at = "load"
  /\ Goto(p, IF q.round \notin mapRound THEN "idle" ELSE IF q.op = "end" THEN "lock" ELSE "look")
  /\ Mark(q.round, {m \in {"overlap"} : \E o \in Requests \ {p} :
                      q.round \in mapRound /\ req[o].round = q.round /\ Closing(req[o])})
  /\ UNCHANGED <<rows, mapRound, table, reports>>

TryLock_Ignored(p) == LET k == Key(req[p]) IN
  /\ req[p].at = "lock"
  /\ locks' = [locks EXCEPT ![k] = "fresh"] /\ Goto(p, "look")
  /\ UNCHANGED <<rows, mapRound, sweep, lapsed, reports, marks>>

\* IdempotentLock: LoadOrStore does not ask whether the entry it finds has expired.
TryLock(p) == LET k == Key(req[p]) IN
  /\ req[p].at = "lock"
  /\ IF locks[k] = "free"
       THEN locks' = [locks EXCEPT ![k] = "fresh"] /\ Goto(p, "look")
       ELSE UNCHANGED locks /\ Goto(p, "forget")
  /\ UNCHANGED <<rows, mapRound, sweep, lapsed, reports, marks>>

CloseLook(p) == LET q == req[p] IN
  /\ q.op \in {"end", "cancel"} /\ q.at = "look"
  /\ \E fault \in BOOLEAN :
       /\ Goto(p, IF Finds(q) /\ ~fault THEN "save" ELSE Leave(q))
       /\ Mark(q.round, IF fault THEN {"fault"} ELSE IF Finds(q) THEN {} ELSE {"field"})
  /\ UNCHANGED <<rows, mapRound, table, reports>>

\* Save writes every column of the item that was looked up; the timer of the report is
\* set whether it could or not.
Save(p) == LET q == req[p] IN
  /\ q.at = "save"
  /\ \E fault \in BOOLEAN :
       /\ rows' = IF fault THEN rows
                  ELSE [rows EXCEPT ![q.round].status = Closed(q)]
       /\ Mark(q.round, IF fault THEN {"fault"} ELSE {})
  /\ timers' = IF q.op = "end" THEN More(timers, q.round) ELSE timers
  /\ Goto(p, Leave(q))
  /\ UNCHANGED <<mapRound, table, stat, posted>>

\* The deferred calls run in the order opposite to the one they were written in.
Unlock(p) ==
  /\ req[p].at = "unlock"
  /\ locks' = [locks EXCEPT ![Key(req[p])] = "free"]
  /\ Goto(p, "forget")
  /\ UNCHANGED <<rows, mapRound, sweep, lapsed, reports, marks>>

Forget_Not(p) ==
  /\ req[p].at = "forget"
  /\ Goto(p, "idle")
  /\ UNCHANGED <<rows, mapRound, table, reports, marks>>

Forget(p) ==
  /\ req[p].at = "forget"
  /\ mapRound' = mapRound \ {req[p].round}
  /\ Goto(p, "idle")
  /\ UNCHANGED <<rows, table, reports, marks>>

(***************************************************************************)
(* The lock table, the report, and what happens around them.               *)
(***************************************************************************)

\* 180 seconds pass while a handler waits for the database.
Expire(k) ==
  /\ locks[k] = "fresh"
  /\ locks' = [locks EXCEPT ![k] = "expired"]
  /\ lapsed' = lapsed \cup {k}
  /\ UNCHANGED <<req, rows, mapRound, sweep, reports, marks>>

\* The cleaner finds an expired entry, and deletes the key a moment later.
SweepLook(k) ==
  /\ locks[k] = "expired"
  /\ sweep' = sweep \cup {k}
  /\ UNCHANGED <<req, rows, mapRound, locks, lapsed, reports, marks>>

SweepDelete(k) ==
  /\ k \in sweep
  /\ sweep' = sweep \ {k}
  /\ locks' = [locks EXCEPT ![k] = "free"]
  /\ UNCHANGED <<req, rows, mapRound, lapsed, reports, marks>>

\* AggregateRoundStat.  The query that is to find an earlier report names no table: it
\* fails and counts none.  Without the row of the round nothing is made; a row of the
\* report that is refused, being the second, or fails keeps nothing from being posted,
\* and the post may fail.  The alarm of an incomplete recording, if there is one, and
\* the report are one message here.
Report(r) ==
  /\ Due(r)
  /\ timers' = [timers EXCEPT ![r] = @ - 1]
  /\ \/ UNCHANGED <<stat, posted>>
     \/ /\ rows[r] # NoRow
        /\ stat' \in {stat, stat \cup {r}}
        /\ posted' \in {posted, More(posted, r)}
  /\ UNCHANGED <<req, rows, mapRound, table, marks>>

\* The process ends and is started again: what it kept in memory is gone.
Restart ==
  /\ req' = [p \in Requests |-> Idle]
  /\ mapRound' = {}
  /\ locks' = [k \in Keys |-> "free"] /\ sweep' = {}
  /\ timers' = [r \in RoundIds |-> 0]
  /\ marks' = [r \in RoundIds |-> marks[r] \cup {m \in {"restart"} : rows[r] # NoRow}]
  /\ UNCHANGED <<rows, stat, posted, lapsed>>

Handle(p) ==
  \/ StartLook(p) \/ StartCreate(p) \/ StartStore(p)
  \/ Load(p) \/ TryLock(p) \/ CloseLook(p) \/ Save(p) \/ Unlock(p) \/ Forget(p)

Next ==
  \/ \E p \in Requests : Arrive(p) \/ Handle(p)
  \/ \E k \in Keys : Expire(k) \/ SweepLook(k) \/ SweepDelete(k)
  \/ \E r \in RoundIds : Report(r)
  \/ Restart

Spec == Init /\ [][Next]_vars

(***************************************************************************)
(* Properties.                                                             *)
(***************************************************************************)

\* Every variable has its type.
TypeOK ==
  /\ req \in [Requests -> Handlers]
  /\ rows \in [RoundIds -> Rows]
  /\ mapRound \subseteq RoundIds
  /\ locks \in [Keys -> {"free", "fresh", "expired"}]
  /\ sweep \subseteq Keys /\ lapsed \subseteq Keys
  /\ timers \in [RoundIds -> 0..Cap]
  /\ stat \subseteq RoundIds
  /\ posted \in [RoundIds -> 0..Cap]
  /\ marks \in [RoundIds -> SUBSET Marks]

\* Two ends of a round that name the same field are in the locked section together only
\* if a lock on that key expired under its handler once: neither the unlock of another
\* request nor the cleaner, which deletes by key what it looked at before, lets a second
\* one in (locker.go:45-51, 67-76).
EndIsExclusive ==
  \A p, o \in Requests :
    p # o /\ Holding(req[p]) /\ Holding(req[o]) /\ Key(req[p]) = Key(req[o])
      => Key(req[p]) \in lapsed

\* A round is reported at most once, whatever sequence of requests, expired locks and
\* restarts there is, unless two requests that end it overlapped (apis.go:204, 211).
OneReportUnlessOverlap ==
  \A r \in RoundIds : timers[r] + posted[r] > 1 => "overlap" \in marks[r]

\* A report is made, or waits, only for a round whose row says it is done: never for one
\* that was cancelled, unless the cancel overlapped the end, and never for one that goes
\* on, unless its Save failed (apis.go:226-232, 263).
ReportedIsDone ==
  \A r \in RoundIds : timers[r] + posted[r] > 0 =>
    rows[r].status = "done" \/ marks[r] \cap {"overlap", "fault"} # {}

\* A round is reported once and only when it is done, except where two closes of it
\* overlapped or the database failed (apis.go:204-232, 263).
ReportsAreRight == OneReportUnlessOverlap /\ ReportedIsDone

\* A round that goes on can be ended: when no request is about it, it is in mapRound,
\* unless a restart, a failed step of the database, or a request that named another
\* field took it away (apis.go:183, 188, 208, 252).
GoingIsEndable ==
  \A r \in RoundIds :
    rows[r].status = "going" /\ (\A p \in Requests : req[p] # Idle => req[p].round # r)
      => r \in mapRound \/ marks[r] # {}

\* Every key that is taken has a handler in the locked section: every way out of it
\* unlocks, so a failed end does not keep the next one out (apis.go:215).
NoLockIsLeft ==
  \A k \in Keys : locks[k] # "free" =>
    \E p \in Requests : Holding(req[p]) /\ Key(req[p]) = k

\* Whatever failed before, nothing but what is named there keeps a round from being
\* ended: neither mapRound nor the lock table (apis.go:183, 204-216).
RoundsStayEndable == GoingIsEndable /\ NoLockIsLeft

=============================================================================
