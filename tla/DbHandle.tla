------------------------------ MODULE DbHandle ------------------------------
(***************************************************************************)
(* The database handle of backend/models/db.go: dbHdl, which every thread  *)
(* of the backend reads without a lock, and InitDbConn, which closes the   *)
(* old pool of connections and opens another under dbMutex.                *)
(*                                                                         *)
(* A thread that asked for the handle keeps it in a variable of its own    *)
(* while others may close the pool behind it.  The main and the backup     *)
(* host are one here: up says that one of them answers.                    *)
(***************************************************************************)
EXTENDS Naturals, FiniteSets

CONSTANT Threads   \* the goroutines that use the database

ASSUME DbAssumption == IsFiniteSet(Threads) /\ "free" \notin Threads

VARIABLES
  up,      \* a database host answers
  hdl,     \* dbHdl: a pool, 0 for nil
  open,    \* the pools that are open
  mutex,   \* dbMutex: the thread that holds it, else "free"
  at,      \* [thread -> where it is in GetDbConn or ActiveDbConn]
  got      \* [thread -> the handle it was given]

pool == <<up, hdl, open, mutex>>
dbVars == <<pool, at, got>>

\* More pools than threads can know of at a time: a new one is always to be had.
Pools == 1..(Cardinality(Threads) + 2)
New == CHOOSE p \in Pools : p \notin open \cup {hdl} \cup {got[t] : t \in Threads}

Places == {"out", "get", "fast", "wait", "check", "open", "has"}

\* A statement on the handle a thread was given succeeds.
Works(t) == up /\ got[t] \in open

DbInit ==
  /\ up = TRUE /\ hdl = 1 /\ open = {1} /\ mutex = "free"
  /\ at = [t \in Threads |-> "out"] /\ got = [t \in Threads |-> 0]

DbType ==
  /\ up \in BOOLEAN /\ hdl \in {0} \cup Pools /\ open \subseteq Pools
  /\ mutex \in Threads \cup {"free"}
  /\ at \in [Threads -> Places] /\ got \in [Threads -> {0} \cup Pools]

Given(t, h) == at' = [at EXCEPT ![t] = "has"] /\ got' = [got EXCEPT ![t] = h]

\* The thread has used its handle, or asks for one.
Done(t) == at' = [at EXCEPT ![t] = "out"] /\ got' = [got EXCEPT ![t] = 0]
AskDb(t, how) == at' = [at EXCEPT ![t] = how] /\ UNCHANGED got

\* GetDbConn: the look without the lock, and the one with it.
GetFast(t) ==
  /\ at[t] = "get"
  /\ at' = [at EXCEPT ![t] = IF hdl # 0 THEN "fast" ELSE "wait"]
  /\ UNCHANGED <<up, hdl, open, mutex, got>>

\* After the look, dbHdl is read once more: it may have become nil.
GetReturn(t) ==
  /\ at[t] = "fast"
  /\ Given(t, hdl)
  /\ UNCHANGED <<up, hdl, open, mutex>>

GetLocked(t) ==
  /\ at[t] = "wait" /\ mutex = "free"
  /\ IF hdl # 0
       THEN Given(t, hdl) /\ UNCHANGED mutex
       ELSE at' = [at EXCEPT ![t] = "open"] /\ mutex' = t /\ UNCHANGED got
  /\ UNCHANGED <<up, hdl, open>>

\* CloseDbConn, the first thing InitDbConn does.
CloseDbConn_Kept == hdl' = 0 /\ UNCHANGED open
CloseDbConn == hdl' = 0 /\ open' = open \ {hdl}

\* ActiveDbConn: a pool that does not answer a ping is closed before another is opened.
ActiveDbConn(t) ==
  /\ at[t] = "check" /\ mutex = "free"
  /\ IF hdl # 0 /\ up
       THEN Given(t, hdl) /\ UNCHANGED <<hdl, open, mutex>>
       ELSE /\ CloseDbConn
            /\ at' = [at EXCEPT ![t] = "open"] /\ mutex' = t /\ UNCHANGED got
  /\ UNCHANGED up

\* The rest of InitDbConn: it opens a pool, or leaves dbHdl nil.
OpenDbConn(t) ==
  /\ at[t] = "open"
  /\ IF up THEN hdl' = New /\ open' = open \cup {New} ELSE UNCHANGED <<hdl, open>>
  /\ Given(t, hdl')
  /\ mutex' = "free" /\ UNCHANGED up

Conn(t) == GetFast(t) \/ GetReturn(t) \/ GetLocked(t) \/ ActiveDbConn(t) \/ OpenDbConn(t)

\* A host goes away or comes back.
HostChange == up' = ~up /\ UNCHANGED <<hdl, open, mutex, at, got>>

\* There is one pool, the one dbHdl names: none is left open when dbHdl is replaced, and
\* two threads never open one each (db.go:22, 111-148).
OnePool == open = {hdl} \ {0}
=============================================================================
