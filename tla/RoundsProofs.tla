---------------------------- MODULE RoundsProofs ----------------------------
(***************************************************************************)
(* Safety of Rounds for any number of requests, rounds and fields: the     *)
(* types, the exclusion of two ends, the reports and what can be ended.    *)
(***************************************************************************)
EXTENDS Rounds, TLAPS

Places == {"idle", "look", "create", "store", "load", "lock", "save", "unlock", "forget"}

\* The place of a handler fits what it handles.
PlacesFit ==
  \A p \in Requests : LET q == req[p] IN
    /\ (q.op = "none") <=> (q.at = "idle")
    /\ q.at \in {"create", "store"} => q.op = "start"
    /\ q.at \in {"load", "save", "forget"} => q.op \in {"end", "cancel"}
    /\ q.at \in {"lock", "unlock"} => q.op = "end"

\* The lock of whoever is in the locked section is there, unless one lapsed.
LocksFit ==
  /\ sweep \subseteq lapsed
  /\ \A k \in Keys : locks[k] = "expired" => k \in lapsed
  /\ \A p \in Requests : Holding(req[p]) => Key(req[p]) \in lapsed \/ locks[Key(req[p])] # "free"

ClosesRound(p, r) == req[p].round = r /\ Closing(req[p])
StoresRound(p, r) == req[p].round = r /\ req[p].at = "store"
NotReported(r) == timers[r] = 0 /\ posted[r] = 0

\* A round has one life: created, stored, closed once, unless two closes overlap.
LifeFits(r) ==
  /\ rows[r] = NoRow =>
       /\ r \notin mapRound /\ NotReported(r)
       /\ \A p \in Requests : ~ClosesRound(p, r) /\ ~StoresRound(p, r)
  /\ \A p \in Requests : StoresRound(p, r) =>
       /\ r \notin mapRound /\ NotReported(r)
       /\ \A o \in Requests : ~ClosesRound(o, r) /\ (StoresRound(o, r) => o = p)
  /\ "overlap" \notin marks[r] =>
       /\ \A p, o \in Requests : ClosesRound(p, r) /\ ClosesRound(o, r) => p = o
       /\ \A p \in Requests : ClosesRound(p, r) /\ req[p].at \in {"lock", "look", "save"} => NotReported(r)
       /\ r \in mapRound /\ (\A p \in Requests : ~ClosesRound(p, r)) => NotReported(r)
       /\ timers[r] + posted[r] <= 1

\* What the row says of a round that was reported, or that can no longer be ended.
RowFits(r) ==
  /\ marks[r] \cap {"overlap", "fault"} = {} /\ ~NotReported(r) => rows[r].status = "done"
  /\ rows[r].status = "going" /\ marks[r] = {} =>
       /\ r \in mapRound \/ \E p \in Requests : StoresRound(p, r)
       /\ \A p \in Requests : ClosesRound(p, r) => req[p].at \notin {"unlock", "forget"}

Locked == LocksFit /\ EndIsExclusive /\ NoLockIsLeft

IInv ==
  /\ TypeOK /\ PlacesFit /\ Locked
  /\ \A r \in RoundIds : LifeFits(r) /\ RowFits(r)

(***************************************************************************)
(* What the helpers do.                                                    *)
(***************************************************************************)

LEMMA IdleType == Idle \in Handlers /\ Idle.op = "none" /\ Idle.at = "idle"
BY RoundsAssumption DEF Idle, Handlers

\* Goto moves one request.
LEMMA GotoEffect ==
  ASSUME req \in [Requests -> Handlers], NEW p \in Requests, NEW at \in Places, Goto(p, at)
  PROVE  /\ req' \in [Requests -> Handlers]
         /\ \A o \in Requests \ {p} : req'[o] = req[o]
         /\ at = "idle" => req'[p] = Idle
         /\ at # "idle" => /\ req'[p].at = at /\ req'[p].op = req[p].op
                           /\ req'[p].round = req[p].round /\ req'[p].field = req[p].field
<1>1. CASE at = "idle"
  BY <1>1, IdleType DEF Goto
<1>2. CASE at # "idle"
  <2>1. req' = [req EXCEPT ![p] = [req[p] EXCEPT !.at = at]]
    BY <1>2 DEF Goto
  <2>2. [req[p] EXCEPT !.at = at] \in Handlers
    BY DEF Handlers, Places
  <2> QED
    BY <1>2, <2>1, <2>2 DEF Handlers
<1> QED
  BY <1>1, <1>2

\* Mark only adds to what is marked.
LEMMA MarkEffect ==
  ASSUME marks \in [RoundIds -> SUBSET Marks], NEW r \in RoundIds, NEW what \in SUBSET Marks, Mark(r, what)
  PROVE  /\ marks' \in [RoundIds -> SUBSET Marks]
         /\ marks'[r] = marks[r] \cup what
         /\ \A o \in RoundIds \ {r} : marks'[o] = marks[o]
BY DEF Mark

LEMMA MoreEffect ==
  ASSUME NEW f \in [RoundIds -> 0..Cap], NEW r \in RoundIds
  PROVE  /\ More(f, r) \in [RoundIds -> 0..Cap]
         /\ More(f, r)[r] = IF f[r] < Cap THEN f[r] + 1 ELSE f[r]
         /\ \A o \in RoundIds \ {r} : More(f, r)[o] = f[o]
BY DEF More, Cap

LEMMA KeyType == ASSUME NEW q \in Handlers PROVE Key(q) \in Keys
BY DEF Key, Keys, Handlers

(***************************************************************************)
(* The types.                                                              *)
(***************************************************************************)

LEMMA TypeInit == Init => TypeOK
BY IdleType, RoundsAssumption DEF Init, TypeOK, Rows, Cap, NoRow

LEMMA TypeStep == TypeOK /\ [Next]_vars => TypeOK'
<1> SUFFICES ASSUME TypeOK, [Next]_vars PROVE TypeOK'
  OBVIOUS
<1> USE DEF TypeOK
<1>1. ASSUME NEW p \in Requests, Arrive(p) PROVE TypeOK'
  BY <1>1 DEF Arrive, Handlers, table, reports
<1>2. ASSUME NEW p \in Requests, StartLook(p) PROVE TypeOK'
  BY <1>2, GotoEffect DEF StartLook, table, reports, Places
<1>3. ASSUME NEW p \in Requests, StartCreate(p) PROVE TypeOK'
  <2>1. req' \in [Requests -> Handlers]
    BY <1>3, GotoEffect DEF StartCreate, Places
  <2>2. rows' \in [RoundIds -> Rows]
    BY <1>3, RoundsAssumption DEF StartCreate, Rows, Handlers
  <2> QED
    BY <1>3, <2>1, <2>2 DEF StartCreate, table, reports
<1>4. ASSUME NEW p \in Requests, StartStore(p) PROVE TypeOK'
  BY <1>4, GotoEffect DEF StartStore, table, reports, Places, Handlers
<1>5. ASSUME NEW p \in Requests, Load(p) PROVE TypeOK'
  <2>1. req' \in [Requests -> Handlers]
    BY <1>5, GotoEffect DEF Load, Places
  <2>2. marks' \in [RoundIds -> SUBSET Marks]
    BY <1>5, MarkEffect DEF Load, Marks, Handlers
  <2> QED
    BY <1>5, <2>1, <2>2 DEF Load, table, reports
<1>6. ASSUME NEW p \in Requests, TryLock(p) PROVE TypeOK'
  BY <1>6, GotoEffect, KeyType DEF TryLock, reports, Places
<1>7. ASSUME NEW p \in Requests, CloseLook(p) PROVE TypeOK'
  <2>1. req' \in [Requests -> Handlers]
    BY <1>7, GotoEffect DEF CloseLook, Leave, Places
  <2>2. marks' \in [RoundIds -> SUBSET Marks]
    BY <1>7, MarkEffect DEF CloseLook, Marks, Handlers
  <2> QED
    BY <1>7, <2>1, <2>2 DEF CloseLook, table, reports
<1>8. ASSUME NEW p \in Requests, Save(p) PROVE TypeOK'
  <2>1. req' \in [Requests -> Handlers]
    BY <1>8, GotoEffect DEF Save, Leave, Places
  <2>2. marks' \in [RoundIds -> SUBSET Marks]
    BY <1>8, MarkEffect DEF Save, Marks, Handlers
  <2>3. rows' \in [RoundIds -> Rows]
    <3>1. \A x \in Rows, s \in {"done", "cancel"} : [x EXCEPT !.status = s] \in Rows
      BY RoundsAssumption DEF Rows, NoRow
    <3>2. req[p].round \in RoundIds /\ Closed(req[p]) \in {"done", "cancel"}
      BY DEF Handlers, Closed
    <3>3. PICK fault \in BOOLEAN :
            rows' = IF fault THEN rows ELSE [rows EXCEPT ![req[p].round].status = Closed(req[p])]
      BY <1>8 DEF Save
    <3> QED
      BY <3>1, <3>2, <3>3
  <2>4. timers' \in [RoundIds -> 0..Cap]
    BY <1>8, MoreEffect DEF Save, Handlers
  <2> QED
    BY <1>8, <2>1, <2>2, <2>3, <2>4 DEF Save, table
<1>9. ASSUME NEW p \in Requests, Unlock(p) PROVE TypeOK'
  BY <1>9, GotoEffect DEF Unlock, reports, Places
<1>10. ASSUME NEW p \in Requests, Forget(p) PROVE TypeOK'
  BY <1>10, GotoEffect DEF Forget, table, reports, Places
<1>11. ASSUME NEW k \in Keys, Expire(k) \/ SweepLook(k) \/ SweepDelete(k) PROVE TypeOK'
  BY <1>11 DEF Expire, SweepLook, SweepDelete, reports
<1>12. ASSUME NEW r \in RoundIds, Report(r) PROVE TypeOK'
  <2>1. timers' \in [RoundIds -> 0..Cap]
    BY <1>12 DEF Report, Due, Cap
  <2>2. posted' \in [RoundIds -> 0..Cap] /\ stat' \subseteq RoundIds
    BY <1>12, MoreEffect DEF Report
  <2> QED
    BY <1>12, <2>1, <2>2 DEF Report, table
<1>13. CASE Restart
  BY <1>13, IdleType DEF Restart, Cap, Marks
<1>14. CASE UNCHANGED vars
  BY <1>14 DEF vars, reports, table
<1> QED
  BY <1>1, <1>2, <1>3, <1>4, <1>5, <1>6, <1>7, <1>8, <1>9, <1>10, <1>11, <1>12, <1>13, <1>14
  DEF Next, Handle

(***************************************************************************)
(* Places and locks.                                                       *)
(***************************************************************************)

LEMMA PlacesStep == TypeOK /\ PlacesFit /\ [Next]_vars => PlacesFit'
<1> SUFFICES ASSUME TypeOK, PlacesFit, [Next]_vars PROVE PlacesFit'
  OBVIOUS
<1> USE DEF PlacesFit
<1>1. ASSUME NEW p \in Requests, Arrive(p) PROVE PlacesFit'
  BY <1>1, IdleType DEF Arrive, TypeOK
<1>2. ASSUME NEW p \in Requests, Handle(p) PROVE PlacesFit'
  <2>1. PICK at \in Places :
          /\ Goto(p, at)
          /\ at \in {"create", "store"} => req[p].op = "start"
          /\ at \in {"save", "forget"} => req[p].op \in {"end", "cancel"}
          /\ at \in {"lock", "unlock"} => req[p].op = "end"
          /\ at # "load" /\ req[p].op # "none"
    BY <1>2 DEF Handle, StartLook, StartCreate, StartStore, Load, TryLock, CloseLook, Save, Unlock,
                Forget, Leave, Places, TypeOK, Handlers
  <2> QED
    BY <2>1, GotoEffect, IdleType DEF TypeOK
<1>3. CASE Restart
  BY <1>3, IdleType DEF Restart
<1>4. ASSUME UNCHANGED req PROVE PlacesFit'
  BY <1>4
<1> QED
  BY <1>1, <1>2, <1>3, <1>4 DEF Next, vars, Expire, SweepLook, SweepDelete, Report

LEMMA LocksStep == TypeOK /\ PlacesFit /\ Locked /\ [Next]_vars => Locked'
<1> SUFFICES ASSUME TypeOK, PlacesFit, Locked, [Next]_vars PROVE Locked'
  OBVIOUS
<1> USE DEF Locked, LocksFit, EndIsExclusive, NoLockIsLeft
<1>1. ASSUME NEW p \in Requests, UNCHANGED table, req' \in [Requests -> Handlers],
             \A o \in Requests \ {p} : req'[o] = req[o],
             Holding(req[p]) <=> Holding(req'[p]),
             Holding(req[p]) => Key(req'[p]) = Key(req[p])
      PROVE  Locked'
  BY <1>1 DEF table, TypeOK
<1>2. ASSUME NEW p \in Requests, Arrive(p) PROVE Locked'
  BY <1>1, <1>2, IdleType DEF Arrive, Holding, TypeOK, Handlers
<1>3. ASSUME NEW p \in Requests, StartLook(p) \/ StartCreate(p) \/ StartStore(p) PROVE Locked'
  <2>1. PICK at \in {"idle", "create", "store"} : Goto(p, at)
    BY <1>3 DEF StartLook, StartCreate, StartStore
  <2>2. ~Holding(req[p]) /\ UNCHANGED table
    BY <1>3 DEF StartLook, StartCreate, StartStore, Holding, PlacesFit
  <2> QED
    BY <1>1, <2>1, <2>2, GotoEffect, IdleType DEF Holding, TypeOK, Places
<1>4. ASSUME NEW p \in Requests, Load(p) PROVE Locked'
  <2>1. PICK at \in {"idle", "lock", "look"} :
          Goto(p, at) /\ (at = "look" => req[p].op # "end") /\ req[p].at = "load"
    BY <1>4 DEF Load
  <2> QED
    BY <1>1, <1>4, <2>1, GotoEffect, IdleType DEF Load, Holding, TypeOK, Places
<1>5. ASSUME NEW p \in Requests, TryLock(p) PROVE Locked'
  <2>1. req[p].op = "end" /\ req[p].at = "lock" /\ Key(req[p]) \in Keys
    BY <1>5, KeyType DEF TryLock, PlacesFit, TypeOK
  <2>2. CASE locks[Key(req[p])] = "free"
    <3>1. /\ req' \in [Requests -> Handlers] /\ \A o \in Requests \ {p} : req'[o] = req[o]
          /\ Key(req'[p]) = Key(req[p]) /\ Holding(req'[p])
      BY <1>5, <2>1, <2>2, GotoEffect DEF TryLock, Places, TypeOK, Key, Holding
    <3>2. /\ locks' = [locks EXCEPT ![Key(req[p])] = "fresh"] /\ UNCHANGED <<sweep, lapsed>>
      BY <1>5, <2>2 DEF TryLock
    <3>3. \A o \in Requests : Holding(req[o]) => o # p
      BY <2>1 DEF Holding
    <3> QED
      BY <2>1, <2>2, <3>1, <3>2, <3>3 DEF TypeOK
  <2>3. CASE locks[Key(req[p])] # "free"
    BY <1>1, <1>5, <2>1, <2>3, GotoEffect DEF TryLock, Places, TypeOK, Holding, table
  <2> QED
    BY <2>2, <2>3
<1>6. ASSUME NEW p \in Requests, CloseLook(p) \/ Save(p) PROVE Locked'
  <2>1. PICK at \in {"save", "unlock", "forget"} :
          /\ Goto(p, at) /\ UNCHANGED table /\ req[p].at \in {"look", "save"}
          /\ req[p].op \in {"end", "cancel"}
          /\ at = "forget" => req[p].op # "end"
    BY <1>6 DEF CloseLook, Save, Leave, PlacesFit
  <2> QED
    BY <1>1, <2>1, GotoEffect DEF Holding, TypeOK, Places, Key
<1>7. ASSUME NEW p \in Requests, Unlock(p) PROVE Locked'
  <2>1. req[p].op = "end" /\ Holding(req[p]) /\ Key(req[p]) \in Keys
    BY <1>7, KeyType DEF Unlock, PlacesFit, TypeOK, Holding
  <2>2. /\ req' \in [Requests -> Handlers] /\ \A o \in Requests \ {p} : req'[o] = req[o]
        /\ ~Holding(req'[p])
    BY <1>7, GotoEffect DEF Unlock, Places, TypeOK, Holding
  <2>3. locks' = [locks EXCEPT ![Key(req[p])] = "free"] /\ UNCHANGED <<sweep, lapsed>>
    BY <1>7 DEF Unlock
  <2> QED
    BY <2>1, <2>2, <2>3 DEF TypeOK
<1>8. ASSUME NEW p \in Requests, Forget(p) PROVE Locked'
  BY <1>1, <1>8, GotoEffect, IdleType DEF Forget, Holding, TypeOK, Places
<1>9. ASSUME NEW k \in Keys, Expire(k) \/ SweepLook(k) \/ SweepDelete(k) PROVE Locked'
  <2>1. UNCHANGED req /\ \A p \in Requests : Key(req[p]) \in Keys
    BY <1>9, KeyType DEF Expire, SweepLook, SweepDelete, TypeOK
  <2>2. CASE Expire(k)
    BY <2>1, <2>2 DEF Expire, TypeOK
  <2>3. CASE SweepLook(k)
    BY <2>1, <2>3 DEF SweepLook, TypeOK
  <2>4. CASE SweepDelete(k)
    BY <2>1, <2>4 DEF SweepDelete, TypeOK
  <2> QED
    BY <1>9, <2>2, <2>3, <2>4
<1>10. CASE Restart
  BY <1>10, IdleType DEF Restart, Holding
<1>11. ASSUME UNCHANGED <<req, table>> PROVE Locked'
  BY <1>11 DEF table
<1> QED
  BY <1>2, <1>3, <1>4, <1>5, <1>6, <1>7, <1>8, <1>9, <1>10, <1>11
  DEF Next, Handle, Report, vars, table

(***************************************************************************)
(* The life of a round.                                                    *)
(***************************************************************************)

Fits(r) == LifeFits(r) /\ RowFits(r)

\* A request moved without beginning or ending to store or to close a round.
LEMMA QuietMove ==
  ASSUME TypeOK, NEW r \in RoundIds, Fits(r), NEW p \in Requests,
         req' \in [Requests -> Handlers], \A o \in Requests \ {p} : req'[o] = req[o],
         ~Closing(req[p]) /\ ~Closing(req'[p]),
         req[p].at # "store" /\ req'[p].at # "store",
         UNCHANGED <<rows, mapRound, reports, marks>>
  PROVE  Fits(r)'
BY DEF Fits, LifeFits, RowFits, ClosesRound, StoresRound, NotReported, reports, TypeOK

LEMMA FitsStep ==
  ASSUME TypeOK, PlacesFit, Locked, NEW r \in RoundIds, Fits(r), [Next]_vars
  PROVE  Fits(r)'
<1> DEFINE life == <<rows, mapRound, timers, posted, marks>>
<1>1. ASSUME NEW p \in Requests, Arrive(p) PROVE Fits(r)'
  BY <1>1, QuietMove, IdleType DEF Arrive, Closing, TypeOK, Handlers
<1>2. ASSUME NEW p \in Requests, StartLook(p) PROVE Fits(r)'
  <2>1. PICK at \in {"idle", "create"} : Goto(p, at)
    BY <1>2 DEF StartLook
  <2> QED
    BY <1>2, <2>1, QuietMove, GotoEffect, IdleType DEF StartLook, Closing, TypeOK, Places
<1>3. ASSUME NEW p \in Requests, StartCreate(p) PROVE Fits(r)'
  <2>1. req[p].op = "start" /\ ~Closing(req[p]) /\ req[p].round \in RoundIds
    BY <1>3 DEF StartCreate, PlacesFit, Closing, TypeOK, Handlers
  <2>2. CASE Goto(p, "idle") /\ UNCHANGED rows
    BY <1>3, <2>1, <2>2, QuietMove, GotoEffect, IdleType DEF StartCreate, Closing, TypeOK, Places
  <2>3. CASE /\ Goto(p, "store") /\ rows[req[p].round] = NoRow
             /\ rows' = [rows EXCEPT ![req[p].round] =
                  [status |-> "going", field |-> IF req[p].field = NoField THEN DefaultField ELSE req[p].field]]
    <3>1. /\ req' \in [Requests -> Handlers] /\ \A o \in Requests \ {p} : req'[o] = req[o]
          /\ req'[p].at = "store" /\ req'[p].round = req[p].round /\ ~Closing(req'[p])
      BY <2>1, <2>3, GotoEffect DEF Places, TypeOK, Closing
    <3>2. CASE req[p].round = r
      <4>1. rows'[r].status = "going" /\ rows'[r] # NoRow
        BY <2>3, <3>2 DEF NoRow, TypeOK
      <4> QED
        BY <1>3, <2>1, <2>3, <3>1, <3>2, <4>1
        DEF StartCreate, Fits, LifeFits, RowFits, ClosesRound, StoresRound, NotReported, reports, TypeOK, Cap
    <3>3. CASE req[p].round # r
      <4>1. rows'[r] = rows[r]
        BY <2>1, <2>3, <3>3 DEF TypeOK
      <4> QED
        BY <1>3, <2>1, <3>1, <3>3, <4>1
        DEF StartCreate, Fits, LifeFits, RowFits, ClosesRound, StoresRound, NotReported, reports, TypeOK
    <3> QED
      BY <3>2, <3>3
  <2> QED
    BY <1>3, <2>2, <2>3 DEF StartCreate
<1>4. ASSUME NEW p \in Requests, StartStore(p) PROVE Fits(r)'
  <2>1. req[p].op = "start" /\ ~Closing(req[p]) /\ req[p].at = "store" /\ req[p].round \in RoundIds
    BY <1>4 DEF StartStore, PlacesFit, Closing, TypeOK, Handlers
  <2>2. /\ req' \in [Requests -> Handlers] /\ \A o \in Requests \ {p} : req'[o] = req[o]
        /\ req'[p].at # "store" /\ ~Closing(req'[p])
    BY <1>4, GotoEffect, IdleType DEF StartStore, Places, TypeOK, Closing
  <2>3. mapRound' = mapRound \cup {req[p].round} /\ UNCHANGED <<rows, reports, marks>>
    BY <1>4 DEF StartStore
  <2> QED
    BY <2>1, <2>2, <2>3 DEF Fits, LifeFits, RowFits, ClosesRound, StoresRound, NotReported, reports, TypeOK
<1>5. ASSUME NEW p \in Requests, Load(p) PROVE Fits(r)'
  <2>1. /\ req[p].op \in {"end", "cancel"} /\ req[p].at = "load" /\ ~Closing(req[p])
        /\ req[p].round \in RoundIds
    BY <1>5 DEF Load, PlacesFit, Closing, TypeOK, Handlers
  <2>2. /\ UNCHANGED <<rows, mapRound, reports>>
        /\ marks' \in [RoundIds -> SUBSET Marks]
        /\ marks'[r] = IF req[p].round = r THEN marks[r] \cup
             {m \in {"overlap"} : \E o \in Requests \ {p} : r \in mapRound /\ ClosesRound(o, r)}
             ELSE marks[r]
    <3> DEFINE what == {m \in {"overlap"} : \E o \in Requests \ {p} :
                          req[p].round \in mapRound /\ req[o].round = req[p].round /\ Closing(req[o])}
    <3>1. what \in SUBSET Marks
      BY DEF Marks
    <3>2. Mark(req[p].round, what) /\ UNCHANGED <<rows, mapRound, reports>>
      BY <1>5 DEF Load
    <3>3. req[p].round = r =>
            what = {m \in {"overlap"} : \E o \in Requests \ {p} : r \in mapRound /\ ClosesRound(o, r)}
      BY DEF ClosesRound
    <3> HIDE DEF what
    <3> QED
      BY <2>1, <3>1, <3>2, <3>3 DEF TypeOK, Mark
  <2>3. CASE req[p].round \notin mapRound
    <3>1. Goto(p, "idle") /\ marks'[r] = marks[r]
      BY <1>5, <2>2, <2>3 DEF Load
    <3>2. /\ req' \in [Requests -> Handlers] /\ \A o \in Requests \ {p} : req'[o] = req[o]
          /\ req'[p].at # "store" /\ ~Closing(req'[p])
      BY <3>1, GotoEffect, IdleType DEF Places, TypeOK, Closing
    <3> QED
      BY <2>1, <2>2, <3>1, <3>2
      DEF Fits, LifeFits, RowFits, ClosesRound, StoresRound, NotReported, reports, TypeOK
  <2>4. CASE req[p].round \in mapRound
    <3>1. PICK at \in {"lock", "look"} : Goto(p, at)
      BY <1>5, <2>4 DEF Load
    <3>2. /\ req' \in [Requests -> Handlers] /\ \A o \in Requests \ {p} : req'[o] = req[o]
          /\ req'[p].at \in {"lock", "look"} /\ req'[p].round = req[p].round
      BY <3>1, GotoEffect DEF Places, TypeOK
    <3> QED
      BY <2>1, <2>2, <2>4, <3>2
      DEF Fits, LifeFits, RowFits, ClosesRound, StoresRound, NotReported, reports, TypeOK, Closing
  <2> QED
    BY <2>3, <2>4
<1>6. ASSUME NEW p \in Requests, TryLock(p) PROVE Fits(r)'
  <2>1. req[p].op = "end" /\ req[p].at = "lock" /\ Closing(req[p])
    BY <1>6 DEF TryLock, PlacesFit, Closing
  <2>2. UNCHANGED <<rows, mapRound, timers, posted, marks>>
    BY <1>6 DEF TryLock, reports
  <2>3. CASE locks[Key(req[p])] = "free"
    <3>1. /\ req' \in [Requests -> Handlers] /\ \A o \in Requests \ {p} : req'[o] = req[o]
          /\ req'[p].at = "look" /\ req'[p].round = req[p].round /\ Closing(req'[p])
      BY <1>6, <2>1, <2>3, GotoEffect DEF TryLock, Places, TypeOK, Closing
    <3> QED
      BY <2>1, <2>2, <3>1
      DEF Fits, LifeFits, RowFits, ClosesRound, StoresRound, NotReported, TypeOK
  <2>4. CASE locks[Key(req[p])] # "free"
    <3>1. PICK o \in Requests : Holding(req[o]) /\ Key(req[o]) = Key(req[p])
      BY <2>4, KeyType DEF Locked, NoLockIsLeft, TypeOK
    <3>2. o # p /\ Closing(req[o]) /\ req[o].round = req[p].round
      BY <2>1, <3>1 DEF Holding, Closing, Key
    <3>3. /\ req' \in [Requests -> Handlers] /\ \A x \in Requests \ {p} : req'[x] = req[x]
          /\ req'[p].at = "forget" /\ req'[p].round = req[p].round /\ Closing(req'[p])
      BY <1>6, <2>1, <2>4, GotoEffect DEF TryLock, Places, TypeOK, Closing
    <3> QED
      BY <2>1, <2>2, <3>2, <3>3
      DEF Fits, LifeFits, RowFits, ClosesRound, StoresRound, NotReported, TypeOK
  <2> QED
    BY <2>3, <2>4
<1>7. ASSUME NEW p \in Requests, CloseLook(p) PROVE Fits(r)'
  <2>1. Closing(req[p]) /\ req[p].at = "look" /\ req[p].round \in RoundIds
    BY <1>7 DEF CloseLook, Closing, TypeOK, Handlers
  <2>2. UNCHANGED <<rows, mapRound, timers, posted>>
    BY <1>7 DEF CloseLook, reports
  <2>3. PICK at \in {"save", "unlock", "forget"}, what \in SUBSET {"fault", "field"} :
          Goto(p, at) /\ Mark(req[p].round, what) /\ (at # "save" => what # {})
    BY <1>7 DEF CloseLook, Leave
  <2>4. /\ marks' \in [RoundIds -> SUBSET Marks]
        /\ marks'[r] = IF req[p].round = r THEN marks[r] \cup what ELSE marks[r]
    <3>1. what \in SUBSET Marks
      BY DEF Marks
    <3> QED
      BY <2>1, <2>3, <3>1 DEF TypeOK, Mark
  <2>5. /\ req' \in [Requests -> Handlers] /\ \A o \in Requests \ {p} : req'[o] = req[o]
        /\ req'[p].at = at /\ req'[p].round = req[p].round /\ Closing(req'[p])
    BY <2>1, <2>3, GotoEffect DEF Places, TypeOK, Closing
  <2> QED
    BY <2>1, <2>2, <2>3, <2>4, <2>5
    DEF Fits, LifeFits, RowFits, ClosesRound, StoresRound, NotReported, TypeOK
<1>8. ASSUME NEW p \in Requests, Save(p) PROVE Fits(r)'
  <2>1. /\ Closing(req[p]) /\ req[p].at = "save" /\ req[p].op \in {"end", "cancel"}
        /\ req[p].round \in RoundIds
    BY <1>8 DEF Save, Closing, PlacesFit, TypeOK, Handlers
  <2>2. PICK fault \in BOOLEAN :
          /\ rows' = IF fault THEN rows ELSE [rows EXCEPT ![req[p].round].status = Closed(req[p])]
          /\ Mark(req[p].round, IF fault THEN {"fault"} ELSE {})
    BY <1>8 DEF Save
  <2>3. /\ marks' \in [RoundIds -> SUBSET Marks]
        /\ marks'[r] = IF req[p].round = r /\ fault THEN marks[r] \cup {"fault"} ELSE marks[r]
    <3> DEFINE what == IF fault THEN {"fault"} ELSE {}
    <3>1. what \in SUBSET Marks
      BY DEF Marks
    <3>2. Mark(req[p].round, what)
      BY <2>2
    <3>3. what = IF fault THEN {"fault"} ELSE {}
      OBVIOUS
    <3> HIDE DEF what
    <3> QED
      BY <2>1, <3>1, <3>2, <3>3 DEF TypeOK, Mark
  <2>4. /\ req' \in [Requests -> Handlers] /\ \A o \in Requests \ {p} : req'[o] = req[o]
        /\ req'[p].at \in {"unlock", "forget"} /\ req'[p].round = req[p].round /\ Closing(req'[p])
    BY <1>8, <2>1, GotoEffect DEF Save, Leave, Places, TypeOK, Closing
  <2>5. UNCHANGED <<mapRound, posted>>
    BY <1>8 DEF Save
  <2>6. CASE req[p].round = r
    <3>1. rows[r] # NoRow
      BY <2>1, <2>6 DEF Fits, LifeFits, ClosesRound
    <3>2. rows'[r] # NoRow /\ (rows'[r].status = "going" => rows[r].status = "going")
      BY <2>1, <2>2, <2>6, <3>1 DEF Closed, NoRow, TypeOK, Rows
    <3>3. ~fault => rows'[r].status = IF req[p].op = "end" THEN "done" ELSE "cancel"
      BY <2>2, <2>6 DEF Closed, TypeOK, Rows, NoRow
    <3>4. /\ timers[r] \in 0..Cap /\ posted[r] \in 0..Cap
          /\ req[p].op = "end" => timers'[r] = IF timers[r] < Cap THEN timers[r] + 1 ELSE timers[r]
          /\ req[p].op # "end" => timers'[r] = timers[r]
      BY <1>8, <2>6, MoreEffect DEF Save, TypeOK
    <3>5. LifeFits(r)'
      BY <2>1, <2>3, <2>4, <2>5, <2>6, <3>1, <3>2, <3>4
      DEF Fits, LifeFits, ClosesRound, StoresRound, NotReported, TypeOK, Cap
    <3>6. RowFits(r)'
      <4>1. ASSUME marks'[r] \cap {"overlap", "fault"} = {}, ~NotReported(r)'
            PROVE  rows'[r].status = "done"
        <5>1. ~fault /\ "overlap" \notin marks[r]
          BY <2>3, <2>6, <4>1
        <5>2. NotReported(r)
          BY <2>1, <2>6, <5>1 DEF Fits, LifeFits, ClosesRound
        <5>3. req[p].op = "end"
          BY <2>5, <3>4, <4>1, <5>2 DEF NotReported
        <5> QED
          BY <3>3, <5>1, <5>3
      <4>2. ASSUME rows'[r].status = "going", marks'[r] = {} PROVE FALSE
        BY <2>3, <2>6, <3>3, <4>2
      <4> QED
        BY <4>1, <4>2 DEF RowFits
    <3> QED
      BY <3>5, <3>6 DEF Fits
  <2>7. CASE req[p].round # r
    <3>1. rows'[r] = rows[r] /\ timers'[r] = timers[r]
      BY <1>8, <2>1, <2>2, <2>7, MoreEffect DEF Save, TypeOK
    <3> QED
      BY <2>1, <2>3, <2>4, <2>5, <2>7, <3>1
      DEF Fits, LifeFits, RowFits, ClosesRound, StoresRound, NotReported, TypeOK
  <2> QED
    BY <2>6, <2>7
<1>9. ASSUME NEW p \in Requests, Unlock(p) PROVE Fits(r)'
  <2>1. Closing(req[p]) /\ req[p].at = "unlock" /\ UNCHANGED <<rows, mapRound, timers, posted, marks>>
    BY <1>9 DEF Unlock, PlacesFit, Closing, reports
  <2>2. /\ req' \in [Requests -> Handlers] /\ \A o \in Requests \ {p} : req'[o] = req[o]
        /\ req'[p].at = "forget" /\ req'[p].round = req[p].round /\ Closing(req'[p])
    BY <1>9, <2>1, GotoEffect DEF Unlock, Places, TypeOK, Closing
  <2> QED
    BY <2>1, <2>2 DEF Fits, LifeFits, RowFits, ClosesRound, StoresRound, NotReported, TypeOK
<1>10. ASSUME NEW p \in Requests, Forget(p) PROVE Fits(r)'
  <2>1. /\ Closing(req[p]) /\ req[p].at = "forget" /\ UNCHANGED <<rows, timers, posted, marks>>
        /\ mapRound' = mapRound \ {req[p].round}
    BY <1>10 DEF Forget, PlacesFit, Closing, reports
  <2>2. /\ req' \in [Requests -> Handlers] /\ \A o \in Requests \ {p} : req'[o] = req[o]
        /\ req'[p].at = "idle" /\ ~Closing(req'[p])
    BY <1>10, GotoEffect, IdleType DEF Forget, Places, TypeOK, Closing
  <2> QED
    BY <2>1, <2>2 DEF Fits, LifeFits, RowFits, ClosesRound, StoresRound, NotReported, TypeOK
<1>11. ASSUME NEW x \in RoundIds, Report(x) PROVE Fits(r)'
  <2>1. UNCHANGED <<req, rows, mapRound>> /\ timers' = [timers EXCEPT ![x] = @ - 1] /\ timers[x] > 0
    BY <1>11 DEF Report, Due
  <2>2. posted' \in {posted, More(posted, x)} /\ UNCHANGED marks
    BY <1>11 DEF Report
  <2>3. /\ posted[r] \in 0..Cap /\ timers[r] \in 0..Cap
        /\ posted' = posted \/ posted'[r] = posted[r] \/
             (x = r /\ posted'[r] = IF posted[r] < Cap THEN posted[r] + 1 ELSE posted[r])
        /\ timers'[r] = IF x = r THEN timers[r] - 1 ELSE timers[r]
        /\ UNCHANGED marks
    BY <2>1, <2>2, MoreEffect DEF TypeOK
  <2> QED
    BY <2>1, <2>3 DEF Fits, LifeFits, RowFits, ClosesRound, StoresRound, NotReported, Cap, TypeOK
<1>12. CASE Restart
  <2>1. /\ \A p \in Requests : req'[p] = Idle
        /\ UNCHANGED <<rows, posted>> /\ mapRound' = {} /\ timers'[r] = 0
        /\ marks[r] \subseteq marks'[r] /\ (rows[r] # NoRow => "restart" \in marks'[r])
    BY <1>12 DEF Restart
  <2> QED
    BY <2>1, IdleType
    DEF Fits, LifeFits, RowFits, ClosesRound, StoresRound, NotReported, Closing, TypeOK, Cap, NoRow
<1>13. ASSUME UNCHANGED <<req, life>> PROVE Fits(r)'
  BY <1>13 DEF Fits, LifeFits, RowFits, ClosesRound, StoresRound, NotReported
<1> QED
  BY <1>1, <1>2, <1>3, <1>4, <1>5, <1>6, <1>7, <1>8, <1>9, <1>10, <1>11, <1>12, <1>13
  DEF Next, Handle, Expire, SweepLook, SweepDelete, reports, vars

(***************************************************************************)
(* The theorems.                                                           *)
(***************************************************************************)

LEMMA InitInv == Init => IInv
<1> SUFFICES ASSUME Init PROVE IInv
  OBVIOUS
<1>1. TypeOK
  BY TypeInit
<1>2. PlacesFit
  BY IdleType DEF Init, PlacesFit
<1>3. Locked
  BY IdleType DEF Init, Locked, LocksFit, EndIsExclusive, NoLockIsLeft, Holding
<1>4. \A r \in RoundIds : LifeFits(r) /\ RowFits(r)
  BY IdleType
  DEF Init, LifeFits, RowFits, ClosesRound, StoresRound, NotReported, Closing, NoRow
<1> QED
  BY <1>1, <1>2, <1>3, <1>4 DEF IInv

LEMMA StepInv == IInv /\ [Next]_vars => IInv'
<1> SUFFICES ASSUME IInv, [Next]_vars PROVE IInv'
  OBVIOUS
<1>1. TypeOK' /\ PlacesFit' /\ Locked'
  BY TypeStep, PlacesStep, LocksStep DEF IInv
<1>2. \A r \in RoundIds : (LifeFits(r) /\ RowFits(r))'
  BY FitsStep DEF IInv, Fits
<1> QED
  BY <1>1, <1>2 DEF IInv

\* The invariant the other theorems follow from.
THEOREM Invariance == Spec => []IInv
BY InitInv, StepInv, PTL DEF Spec

\* Every variable keeps its type.
THEOREM TypeCorrect == Spec => []TypeOK
<1>1. IInv => TypeOK
  BY DEF IInv
<1> QED
  BY <1>1, Invariance, PTL

\* Two ends of a round exclude each other, unless a lock lapsed (locker.go:45-76).
THEOREM Exclusion == Spec => []EndIsExclusive
<1>1. IInv => EndIsExclusive
  BY DEF IInv, Locked
<1> QED
  BY <1>1, Invariance, PTL

\* A round is reported once and when it is done, whatever requests, failures and restarts
\* there are, unless two closes of it overlapped (apis.go:204-232, 263).
THEOREM ReportsFollowRounds == Spec => []ReportsAreRight
<1>1. IInv => ReportsAreRight
  <2> SUFFICES ASSUME IInv, NEW r \in RoundIds
               PROVE  /\ timers[r] + posted[r] > 1 => "overlap" \in marks[r]
                      /\ timers[r] + posted[r] > 0 =>
                           rows[r].status = "done" \/ marks[r] \cap {"overlap", "fault"} # {}
    BY DEF ReportsAreRight, OneReportUnlessOverlap, ReportedIsDone
  <2>1. LifeFits(r) /\ RowFits(r) /\ timers[r] \in 0..Cap /\ posted[r] \in 0..Cap
    BY DEF IInv, TypeOK
  <2> QED
    BY <2>1 DEF LifeFits, RowFits, NotReported, Cap
<1> QED
  BY <1>1, Invariance, PTL

\* A round that goes on can be ended, and no lock is left that would keep it from being
\* ended, unless a restart, a failure or another field took it away (apis.go:183, 215).
THEOREM Endable == Spec => []RoundsStayEndable
<1>1. IInv => RoundsStayEndable
  <2> SUFFICES ASSUME IInv, NEW r \in RoundIds, rows[r].status = "going",
                      \A p \in Requests : req[p] # Idle => req[p].round # r
               PROVE  r \in mapRound \/ marks[r] # {}
    BY DEF RoundsStayEndable, GoingIsEndable, IInv, Locked
  <2>1. \A p \in Requests : ~StoresRound(p, r)
    BY IdleType DEF StoresRound
  <2> QED
    BY <2>1 DEF IInv, RowFits
<1> QED
  BY <1>1, Invariance, PTL
=============================================================================
