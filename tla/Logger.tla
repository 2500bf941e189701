-------------------------------- MODULE Logger --------------------------------
(***************************************************************************)
(* The log of the two programs: tracer/log.go (the file) and               *)
(* tracer/remote.go (the log server), in the form of multipusher and in    *)
(* the older form of the backend.                                          *)
(*                                                                         *)
(* A log call puts its message in the queue of the log server and writes   *)
(* it to the file (multipusher, under writeMu) or to a second queue that   *)
(* autoWrite empties (backend).  The log server has a goroutine that sends *)
(* (processqueue), one that connects and keeps alive (checkstatus) and one *)
(* reader per connection; each of them logs, too.  The first write of a    *)
(* day opens a new file and panics when it cannot: TryException then ends  *)
(* the goroutine, and writeMu, which no defer unlocks, stays locked.  Any  *)
(* write may be the first of a day.                                        *)
(***************************************************************************)
EXTENDS Naturals, Sequences

CONSTANTS
  Callers,    \* the goroutines of the program that log
  Conns,      \* the connections that may be in use at one time
  MaxQueue,   \* max_remote_queue_size
  MaxLocal,   \* max_local_queue_size
  MaxMsgs,    \* bound: the messages of the callers
  MaxFaults   \* bound: the connections that fail, refused dials and files not opened

None == "none"
Sender == "processqueue"
Checker == "checkstatus"
ASSUME LoggerAssumption ==
  /\ MaxQueue \in Nat \ {0} /\ MaxLocal \in Nat \ {0}
  /\ {None, Sender, Checker, "autoWrite"} \cap (Callers \cup Conns) = {}
  /\ Callers \cap Conns = {}

VARIABLES
  program,    \* "multipusher" or "backend"
  queue,      \* remote.msgQueue
  backlog,    \* the length of logger.msgQueue
  isConnected, conn,  \* remote.isConnected, remote.conn
  open,       \* the connections that are open
  rmutex,     \* the goroutine that holds remote.mutex
  stuck,      \* logger.writeMu is locked for good
  thread,     \* [goroutine -> the steps it has left, and its message or connection]
  next,       \* the number of the next message of a caller
  last,       \* history: the number of the last message delivered
  faults,     \* history: the faults so far, at most MaxFaults
  late,       \* history: the readers that were not done when conn was replaced
  overtaken   \* history: there has been a late reader

link == <<isConnected, conn, open>>
file == <<backlog, stuck>>
counts == <<next, last, faults>>
history == <<late, overtaken>>
vars == <<program, queue, file, link, rmutex, thread, counts, history>>

Goroutines == Callers \cup {Sender, Checker, "autoWrite"} \cup Conns

\* The program's own messages are numbered; the log's messages about its connection are
\* all alike.
Noise == 0

\* What a goroutine has to do is a sequence of steps; a log call is the first of them.
LogIt == <<"log">>

Rest == [todo |-> <<>>, what |-> Noise, to |-> None]
Dead == [Rest EXCEPT !.todo = <<"dead">>]

Init ==
  /\ program \in {"multipusher", "backend"}
  /\ queue = <<>> /\ backlog = 0
  /\ isConnected = FALSE /\ conn = None /\ open = {} /\ rmutex = None
  /\ stuck = FALSE
  /\ thread = [g \in Goroutines |-> IF g \in Conns THEN Dead ELSE Rest]
  /\ next = 1 /\ last = 0 /\ faults = 0 /\ late = {} /\ overtaken = FALSE

-----------------------------------------------------------------------------
Idle(g) == thread[g].todo = <<>>
At(g, step) == thread[g].todo # <<>> /\ Head(thread[g].todo) = step
Left(g) == Tail(thread[g].todo)

\* A goroutine with no step left waits; a reader ends, its connection's name is free.
Does(g, todo) == IF todo = <<>> /\ g \in Conns THEN Dead ELSE [thread[g] EXCEPT !.todo = todo]
Goto(g, todo) == thread' = [thread EXCEPT ![g] = Does(g, todo)]
Fault == faults < MaxFaults /\ faults' = faults + 1

\* remote.put: the oldest goes when the queue is over its limit.
Put_NoLimit(m) == Append(queue, m)
Put(m) ==
  LET q == Append(queue, m) IN IF Len(q) > MaxQueue THEN Tail(q) ELSE q

PutRemote(g) ==
  IF g \in Callers
  THEN queue' = Put(next) /\ next' = next + 1
  ELSE queue' = Put(Noise) /\ UNCHANGED next

\* addlog of multipusher writes under writeMu.  A panic of writeLog releases the mutex of
\* the remote log, whose unlock is deferred, but not writeMu.
AddLog(g) ==
  /\ At(g, "log") /\ program = "multipusher"
  /\ PutRemote(g)
  /\ \/ /\ stuck /\ Goto(g, <<"hang">>)
        /\ UNCHANGED <<stuck, rmutex, faults>>
     \/ /\ ~stuck /\ Goto(g, Left(g))
        /\ UNCHANGED <<stuck, rmutex, faults>>
     \/ /\ ~stuck /\ Fault
        /\ stuck' = TRUE
        /\ thread' = [thread EXCEPT ![g] = Dead]
        /\ rmutex' = IF rmutex = g THEN None ELSE rmutex
  /\ UNCHANGED <<program, backlog, link, last, history>>

\* addlog of the backend: put, with a limit of its own.
AddLogLater(g) ==
  /\ At(g, "log") /\ program = "backend"
  /\ PutRemote(g)
  /\ backlog' = IF backlog < MaxLocal THEN backlog + 1 ELSE backlog
  /\ Goto(g, Left(g))
  /\ UNCHANGED <<program, stuck, link, rmutex, last, faults, history>>

\* autoWrite of the backend, the only one that writes; a panic ends it.
AutoWrite ==
  /\ Idle("autoWrite") /\ backlog > 0
  /\ backlog' = backlog - 1
  /\ \/ UNCHANGED <<thread, faults>>
     \/ Fault /\ thread' = [thread EXCEPT !["autoWrite"] = Dead]
  /\ UNCHANGED <<program, queue, stuck, link, rmutex, next, last, history>>

\* LogTrace ... LogCrit, from the rest of the program.
Log(c) ==
  /\ Idle(c) /\ next <= MaxMsgs /\ \A d \in Callers : ~At(d, "log")   \* bound
  /\ Goto(c, LogIt)
  /\ UNCHANGED <<program, queue, file, link, rmutex, counts, history>>

-----------------------------------------------------------------------------
(* The log server. *)

Lock(g) ==
  /\ At(g, "lock") /\ rmutex = None
  /\ rmutex' = g /\ Goto(g, Left(g))
  /\ UNCHANGED <<program, queue, file, link, counts, history>>

Unlock(g) ==
  /\ At(g, "unlock")
  /\ rmutex' = None /\ Goto(g, Left(g))
  /\ UNCHANGED <<program, queue, file, link, counts, history>>

\* processqueue: pop_front, which gives nothing while not connected.
PopFront ==
  /\ Idle(Sender) /\ isConnected /\ queue # <<>>
  /\ thread' = [thread EXCEPT ![Sender] =
                  [todo |-> <<"lock", "send">>, what |-> Head(queue), to |-> None]]
  /\ queue' = Tail(queue)
  /\ UNCHANGED <<program, file, link, rmutex, counts, history>>

\* close and closeLocked.  That of the backend first clears isConnected and then closes
\* the connection it finds, without the mutex.
Closed_NotConn == isConnected' = FALSE /\ UNCHANGED <<conn, open>>
Closed == isConnected' = FALSE /\ open' = open \ {conn} /\ UNCHANGED conn
Forgotten == isConnected' = FALSE /\ UNCHANGED <<conn, open>>

\* sendData.  A failure closes the connection and is logged, with the mutex held.
SendWorks(g) ==
  /\ At(g, "send") /\ conn \in open
  /\ last' = IF thread[g].what = Noise THEN last ELSE thread[g].what
  /\ thread' = [thread EXCEPT ![g] = [Rest EXCEPT !.todo = <<"unlock">>]]
  /\ UNCHANGED <<program, queue, file, link, rmutex, next, faults, history>>

AfterFailure(g) == IF g = Sender THEN <<"log", "unlock", "back">> ELSE <<"log", "unlock">>

CloseLocked_Locks(g) == Goto(g, <<"lock", "close">> \o AfterFailure(g)) /\ UNCHANGED link
CloseLocked(g) == Closed /\ Goto(g, AfterFailure(g))

SendFails(g) ==
  /\ At(g, "send")
  /\ IF conn \in open THEN Fault ELSE UNCHANGED faults
  /\ IF program = "multipusher"
     THEN CloseLocked(g)
     ELSE Forgotten /\ Goto(g, <<"shut">> \o AfterFailure(g))
  /\ UNCHANGED <<program, queue, file, rmutex, next, last, history>>

ShutConn(g) ==
  /\ At(g, "shut")
  /\ open' = open \ {conn}
  /\ Goto(g, Left(g))
  /\ UNCHANGED <<program, queue, file, isConnected, conn, rmutex, counts, history>>

PushFront_Last == Append(queue, thread[Sender].what)
PushFront == <<thread[Sender].what>> \o queue

PutBack ==
  /\ At(Sender, "back")
  /\ queue' = PushFront
  /\ thread' = [thread EXCEPT ![Sender] = Rest]
  /\ UNCHANGED <<program, file, link, rmutex, counts, history>>

\* checkstatus, at a tick: the fifth keeps alive, or it connects.
KeepAlive ==
  /\ Idle(Checker) /\ isConnected
  /\ thread' = [thread EXCEPT ![Checker] = [Rest EXCEPT !.todo = <<"lock", "send">>]]
  /\ UNCHANGED <<program, queue, file, link, rmutex, counts, history>>

\* (Faulty variant: connects at every tick.)
Connect_Always ==
  /\ Idle(Checker)
  /\ Goto(Checker, <<"log", "dial">>)
  /\ UNCHANGED <<program, queue, file, link, rmutex, counts, history>>
Connect ==
  /\ Idle(Checker) /\ ~isConnected
  /\ Goto(Checker, <<"log", "dial">>)
  /\ UNCHANGED <<program, queue, file, link, rmutex, counts, history>>

Dial ==
  /\ At(Checker, "dial")
  /\ \/ Fault /\ Goto(Checker, LogIt) /\ UNCHANGED open
     \/ \E k \in Conns \ (open \cup {conn}) :
          /\ thread[k] = Dead /\ \A g \in Goroutines : thread[g].to # k
          /\ open' = open \cup {k}
          /\ thread' = [thread EXCEPT ![Checker] =
                          [todo |-> <<"lock", "set", "log", "spawn">>, what |-> Noise, to |-> k]]
          /\ UNCHANGED faults
  /\ UNCHANGED <<program, queue, file, isConnected, conn, rmutex, next, last, history>>

\* The readers that have yet to meet the error of an older connection, or to close for it.
Undone == {k \in Conns : \E step \in {"read", "lock", "close", "shut"} : At(k, step)}

SetConn(g) ==
  /\ At(g, "set")
  /\ conn' = thread[g].to /\ isConnected' = TRUE
  /\ late' = late \cup Undone /\ overtaken' = (overtaken \/ Undone # {})
  /\ rmutex' = None
  /\ Goto(g, Left(g))
  /\ UNCHANGED <<program, queue, file, open, counts>>

SpawnReader ==
  /\ At(Checker, "spawn")
  /\ thread' = [thread EXCEPT ![Checker] = Rest,
       ![thread[Checker].to] = [todo |-> <<"read">>, what |-> Noise,
                                to |-> IF program = "multipusher" THEN thread[Checker].to ELSE conn]]
  /\ late' = late \ {thread[Checker].to}
  /\ UNCHANGED <<program, queue, file, link, rmutex, counts, overtaken>>

\* The reader of multipusher keeps the connection it was made for; that of the backend
\* reads from the current one each time.
ReadsOn(k) ==
  /\ At(k, "read") /\ program = "backend" /\ thread[k].to \in open
  /\ thread' = [thread EXCEPT ![k].to = conn]
  /\ UNCHANGED <<program, queue, file, link, rmutex, counts, history>>

ReadFails(k) ==
  /\ At(k, "read") /\ thread[k].to \notin open
  /\ Goto(k, IF program = "multipusher" THEN <<"lock", "close">> ELSE <<"close", "shut", "log">>)
  /\ UNCHANGED <<program, queue, file, link, rmutex, counts, history>>

\* close closes the current connection, whichever the reader was made for.
ReaderCloses(k) ==
  /\ At(k, "close")
  /\ IF program = "multipusher"
     THEN Closed /\ Goto(k, LogIt) /\ rmutex' = None
     ELSE Forgotten /\ Goto(k, Left(k)) /\ UNCHANGED rmutex
  /\ UNCHANGED <<program, queue, file, counts, history>>

\* The server, or the network, ends a connection.
ConnFails ==
  /\ Fault
  /\ \E k \in open : open' = open \ {k}
  /\ UNCHANGED <<program, queue, file, isConnected, conn, rmutex, thread, next, last, history>>

-----------------------------------------------------------------------------
Step(g) ==
  \/ AddLog(g) \/ AddLogLater(g)
  \/ Unlock(g) \/ SendWorks(g) \/ SendFails(g) \/ ShutConn(g) \/ SetConn(g)
Processqueue == Step(Sender) \/ PopFront \/ PutBack
Checkstatus == Step(Checker) \/ KeepAlive \/ Connect \/ Dial \/ SpawnReader
Reader(k) == Step(k) \/ ReadFails(k) \/ ReaderCloses(k)

Next ==
  \/ \E c \in Callers : Log(c) \/ Step(c)
  \/ AutoWrite
  \/ \E g \in Goroutines : Lock(g)
  \/ Processqueue \/ Checkstatus
  \/ \E k \in Conns : Reader(k) \/ ReadsOn(k)
  \/ ConnFails

Spec == Init /\ [][Next]_vars

-----------------------------------------------------------------------------
(* Properties. *)

Pending == <<thread[Sender].what>> \o queue

\* Messages reach the log server in the order of the calls and at most once, those that
\* were put back after a failure included.
InOrder ==
  /\ \A i \in DOMAIN Pending : Pending[i] # Noise => Pending[i] > last
  /\ \A i, j \in DOMAIN Pending :
       i < j /\ Pending[i] # Noise /\ Pending[j] # Noise => Pending[i] < Pending[j]

\* The queue of the log server grows over its limit by the message put back only.
QueueIsBounded == Len(queue) <= MaxQueue + 1

\* No connection is left open and forgotten: in multipusher never, in the backend unless a
\* reader was overtaken by the next connection.
NoConnIsLost ==
  program = "multipusher" \/ ~overtaken => open \subseteq {conn, thread[Checker].to}

\* A reader about to close the current connection closes one that failed, unless it is
\* late: made for an older connection than the one it closes.
HealthyConnStays ==
  \A k \in Conns \ late : At(k, "close") \/ At(k, "shut") => conn \notin open

\* The queue loses nothing but its oldest messages, and changes no order.
QueueIsSound == InOrder /\ QueueIsBounded

\* A connection is closed when it failed (remote.go:216, 230), and a reader closes one that
\* did not only when it is late: r.close() closes whichever r.conn is current (remote.go:250).
ConnsAreKept == NoConnIsLost /\ HealthyConnStays

\* Nobody waits for a mutex that its holder cannot release: no goroutine takes the mutex
\* of the remote log twice or rests with it, and none keeps it for good unless a file was
\* not opened.
MutexIsReleased ==
  \A g \in Goroutines : rmutex = g =>
    /\ ~Idle(g) /\ ~At(g, "lock")
    /\ thread[g] = Dead \/ At(g, "hang") => stuck
=============================================================================
