------------------------------ MODULE WsClient ------------------------------
(***************************************************************************)
(* One reconnecting client of multipusher/ws/ws_client.go.                 *)
(*                                                                         *)
(* WebsocketClientThread starts the client and tidies up when it is closed.*)
(* Every connection is the start of a session: startSessionLoops replaces  *)
(* stopCh and triggerOnce and spawns a readLoop and a heartbeatLoop.  A    *)
(* loop that meets an error calls triggerReconnect, once per session, and  *)
(* ends; reconnectLoop then closes stopCh and the connection and dials     *)
(* until it has the next one.                                              *)
(*                                                                         *)
(* The loops read c.stopCh, c.triggerOnce and c.conn afresh whenever they  *)
(* use them: a loop that is late finds those of a later session.           *)
(* Connection n is the n-th that was made; session n is the one it began,  *)
(* session 0 that of NewReconnectClient.                                   *)
(***************************************************************************)
EXTENDS Naturals, FiniteSets

CONSTANTS
  MaxConns,   \* bound on the connections made
  Prompt      \* TRUE: what does not wait for anything is done before the
              \* back-off of at least a second that follows it is over

ASSUME ClientAssumption ==
  /\ MaxConns \in Nat \ {0}
  /\ Prompt \in BOOLEAN

VARIABLES
  pc,          \* where each goroutine is
  made,        \* how many connections were made
  conn,        \* c.conn: a connection, 0 for nil
  link,        \* [connection -> its state]
  session,     \* the session c.stopCh, c.stopOnce and c.triggerOnce belong to
  stopped,     \* the sessions whose stopCh is closed
  onceLocked,  \* triggerOnce: its mutex is held
  onceDone,    \* triggerOnce: its function was run
  signal,      \* reconnectCh holds a token
  done,        \* doneCh is closed
  reconnect,   \* the flag of that name
  held,        \* [loop -> the connection it reads from or writes to, else 0]
  waitsOn,     \* [heartbeat loop -> the session whose stopCh it waits on, else 0]
  muStuck,     \* connMu was left locked by a panic
  crashed      \* a fatal error ended the program

clientVars == <<conn, session, stopped, onceLocked, onceDone, signal, done, reconnect, muStuck>>
loopVars == <<held, waitsOn>>
vars == <<pc, made, link, clientVars, loopVars, crashed>>

Conns == 1..MaxConns

Reader(n) == <<"readLoop", n>>
Beat(n) == <<"heartbeatLoop", n>>
Thread == <<"WebsocketClientThread", 0>>
Recon == <<"reconnectLoop", 0>>

Readers == {Reader(n) : n \in Conns}
Beats == {Beat(n) : n \in Conns}
Loops == Readers \cup Beats
Procs == Loops \cup {Thread, Recon}

LinkStates == {"none", "open", "broken", "closed"}

TriggerPcs == {"enter", "shut", "signal", "leave"}
ReaderPcs == {"none", "poll", "fetch", "read", "handle", "respond", "write", "end"} \cup TriggerPcs
BeatPcs == {"none", "beat", "write", "select", "wait", "end"} \cup TriggerPcs
ThreadPcs == {"dial", "adopt", "begin", "wait", "close", "farewell", "end"} \cup TriggerPcs
ReconPcs == {"top", "wait", "stop", "drop", "retry", "sleep", "poll", "dial", "adopt", "begin", "end"}

Pcs == ReaderPcs \cup BeatPcs \cup ThreadPcs \cup ReconPcs

PcTypeOK ==
  /\ pc \in [Procs -> Pcs]
  /\ \A p \in Readers : pc[p] \in ReaderPcs
  /\ \A p \in Beats : pc[p] \in BeatPcs
  /\ pc[Thread] \in ThreadPcs /\ pc[Recon] \in ReconPcs

ClientTypeOK ==
  /\ made \in 0..MaxConns /\ conn \in 0..MaxConns /\ session \in 0..MaxConns
  /\ link \in [Conns -> LinkStates]
  /\ stopped \subseteq 0..MaxConns
  /\ onceLocked \in BOOLEAN /\ onceDone \in BOOLEAN /\ signal \in BOOLEAN /\ done \in BOOLEAN
  /\ reconnect \in BOOLEAN /\ muStuck \in BOOLEAN /\ crashed \in BOOLEAN

LoopTypeOK ==
  /\ held \in [Loops -> 0..MaxConns]
  /\ waitsOn \in [Beats -> 0..MaxConns]
  /\ \A p \in Loops : pc[p] \in {"read", "write"} => held[p] # 0

TypeOK == PcTypeOK /\ ClientTypeOK /\ LoopTypeOK

\* Start has spawned reconnectLoop and is about to connect.
Init ==
  /\ pc = [p \in Procs |-> IF p = Thread THEN "dial" ELSE IF p = Recon THEN "top" ELSE "none"]
  /\ made = 0
  /\ conn = 0
  /\ link = [n \in Conns |-> "none"]
  /\ session = 0
  /\ stopped = {}
  /\ onceLocked = FALSE /\ onceDone = FALSE
  /\ signal = FALSE
  /\ done = FALSE
  /\ reconnect = TRUE
  /\ held = [p \in Loops |-> 0]
  /\ waitsOn = [p \in Beats |-> 0]
  /\ muStuck = FALSE
  /\ crashed = FALSE

-----------------------------------------------------------------------------

At(p, place) == pc[p] = place
Goto(p, place) == pc' = [pc EXCEPT ![p] = place]

Live(n) == link[n] \in {"open", "broken"}

Dead(p) == pc[p] \in {"none", "end"}

\* connMu is free: the farewell is the only thing done under it that takes time.
MuFree == ~muStuck /\ ~At(Thread, "farewell")

\* writeMu is free.
WriteMuFree == \A p \in Loops : ~At(p, "write")

\* Close connection n; nothing when n is 0.
Close(n) == link' = [k \in Conns |-> IF k = n THEN "closed" ELSE link[k]]

-----------------------------------------------------------------------------
(* triggerReconnect.                                                       *)

\* (Faulty variant: a Start that goes on when the first connect failed.)
AfterTrigger_Redials(p) == IF p = Thread THEN "dial" ELSE "end"

AfterTrigger(p) == IF p = Thread THEN "wait" ELSE "end"

\* triggerOnce.Do: nothing to do, or take the mutex of the once.
TriggerEnter(p) ==
  /\ At(p, "enter")
  /\ \/ /\ onceDone
        /\ Goto(p, AfterTrigger(p))
        /\ UNCHANGED onceLocked
     \/ /\ ~onceDone /\ ~onceLocked
        /\ onceLocked' = TRUE
        /\ Goto(p, "shut")
  /\ UNCHANGED <<made, link, conn, session, stopped, onceDone, signal, done, reconnect, muStuck,
                 loopVars, crashed>>

\* Close whatever c.conn is now.
TriggerShut(p) ==
  /\ At(p, "shut")
  /\ MuFree
  /\ Close(conn)
  /\ Goto(p, "signal")
  /\ UNCHANGED <<made, clientVars, loopVars, crashed>>

\* (Faulty variant: the token of a trigger is lost when nobody receives yet.)
TriggerSignal_Unbuffered(p) ==
  /\ At(p, "signal")
  /\ signal' = At(Recon, "wait")
  /\ Goto(p, "leave")
  /\ UNCHANGED <<made, link, conn, session, stopped, onceLocked, onceDone, done, reconnect, muStuck,
                 loopVars, crashed>>

TriggerSignal(p) ==
  /\ At(p, "signal")
  /\ signal' = TRUE
  /\ Goto(p, "leave")
  /\ UNCHANGED <<made, link, conn, session, stopped, onceLocked, onceDone, done, reconnect, muStuck,
                 loopVars, crashed>>

\* Do sets the once done and unlocks its mutex.  When the once was replaced in
\* the meantime this is the new one, and unlocking an unlocked mutex is fatal.
TriggerLeave(p) ==
  /\ At(p, "leave")
  /\ onceDone' = TRUE
  /\ onceLocked' = FALSE
  /\ crashed' = ~onceLocked
  /\ Goto(p, AfterTrigger(p))
  /\ UNCHANGED <<made, link, conn, session, stopped, signal, done, reconnect, muStuck, loopVars>>

Trigger(p) == TriggerEnter(p) \/ TriggerShut(p) \/ TriggerSignal(p) \/ TriggerLeave(p)

-----------------------------------------------------------------------------
(* connect and startSessionLoops, by the thread or by reconnectLoop.       *)

\* Dial: at fail when it fails.
Dial(p, fail) ==
  /\ At(p, "dial")
  /\ \/ /\ made < MaxConns
        /\ made' = made + 1
        /\ link' = [link EXCEPT ![made + 1] = "open"]
        /\ Goto(p, "adopt")
     \/ /\ Goto(p, fail)
        /\ UNCHANGED <<made, link>>
  /\ UNCHANGED <<clientVars, loopVars, crashed>>

Adopt(p) ==
  /\ At(p, "adopt")
  /\ MuFree
  /\ conn' = made
  /\ Goto(p, "begin")
  /\ UNCHANGED <<made, link, session, stopped, onceLocked, onceDone, signal, done, reconnect, muStuck,
                 loopVars, crashed>>

\* (Faulty variant: startSessionLoops that keeps triggerOnce.)
FreshOnce_Kept == UNCHANGED <<onceLocked, onceDone>>

FreshOnce == onceLocked' = FALSE /\ onceDone' = FALSE

\* startSessionLoops: session made begins.
Begin(p, next) ==
  /\ At(p, "begin")
  /\ session' = made
  /\ FreshOnce
  /\ pc' = [pc EXCEPT ![p] = next, ![Reader(made)] = "poll", ![Beat(made)] = "beat"]
  /\ UNCHANGED <<made, link, conn, stopped, signal, done, reconnect, muStuck, loopVars, crashed>>

-----------------------------------------------------------------------------
(* reconnectLoop.                                                          *)

OnlyPc == UNCHANGED <<made, link, clientVars, loopVars, crashed>>

\* The conditions of its two for loops.
ReconTop ==
  /\ At(Recon, "top")
  /\ Goto(Recon, IF reconnect THEN "wait" ELSE "end")
  /\ OnlyPc

ReconRetry ==
  /\ At(Recon, "retry")
  /\ Goto(Recon, IF reconnect THEN "sleep" ELSE "top")
  /\ OnlyPc

\* The select on reconnectCh and doneCh.
ReconWait ==
  /\ At(Recon, "wait")
  /\ \/ /\ signal
        /\ signal' = FALSE
        /\ Goto(Recon, IF reconnect THEN "stop" ELSE "end")
     \/ /\ done
        /\ Goto(Recon, "end")
        /\ UNCHANGED signal
  /\ UNCHANGED <<made, link, conn, session, stopped, onceLocked, onceDone, done, reconnect, muStuck,
                 loopVars, crashed>>

\* (Faulty variant: a reconnect that leaves stopCh open.)
ReconStop_Forgotten ==
  /\ At(Recon, "stop")
  /\ Goto(Recon, "drop")
  /\ OnlyPc

\* closeStopCh
ReconStop ==
  /\ At(Recon, "stop")
  /\ stopped' = stopped \cup {session}
  /\ Goto(Recon, "drop")
  /\ UNCHANGED <<made, link, conn, session, onceLocked, onceDone, signal, done, reconnect, muStuck,
                 loopVars, crashed>>

ReconDrop ==
  /\ At(Recon, "drop")
  /\ MuFree
  /\ Close(conn)
  /\ conn' = 0
  /\ Goto(Recon, "retry")
  /\ UNCHANGED <<made, session, stopped, onceLocked, onceDone, signal, done, reconnect, muStuck,
                 loopVars, crashed>>

\* A goroutine that waits for nothing but a processor.
OnItsWay(p) ==
  \/ pc[p] \in {"poll", "fetch", "enter", "shut", "signal", "leave", "select"} /\ MuFree
  \/ pc[p] \in {"read", "write"} /\ link[held[p]] = "closed"
  \/ pc[p] \in {"beat", "respond"} /\ WriteMuFree
  \/ p \in Beats /\ pc[p] = "wait" /\ (done \/ waitsOn[p] \in stopped)

\* (Faulty variant: a reconnect that dials at once.)
ReconSleep_NoDelay ==
  /\ At(Recon, "sleep")
  /\ Goto(Recon, "poll")
  /\ OnlyPc

\* time.Sleep(c.reconnectInterval)
ReconSleep ==
  /\ At(Recon, "sleep")
  /\ Prompt => \A p \in Loops \cup {Thread} : ~OnItsWay(p)
  /\ Goto(Recon, "poll")
  /\ OnlyPc

ReconPoll ==
  /\ At(Recon, "poll")
  /\ Goto(Recon, IF done THEN "end" ELSE "dial")
  /\ OnlyPc

ReconStep ==
  \/ ReconTop \/ ReconWait \/ ReconStop \/ ReconDrop \/ ReconRetry \/ ReconSleep \/ ReconPoll
  \/ Dial(Recon, "retry") \/ Adopt(Recon) \/ Begin(Recon, "top")

-----------------------------------------------------------------------------
(* WebsocketClientThread.                                                  *)

\* The select on doneCh and interrupt; only doneCh leads to the closing.
ThreadWait ==
  /\ At(Thread, "wait")
  /\ done
  /\ Goto(Thread, "close")
  /\ OnlyPc

ThreadInterrupted ==
  /\ At(Thread, "wait")
  /\ reconnect' = FALSE
  /\ Goto(Thread, "end")
  /\ UNCHANGED <<made, link, conn, session, stopped, onceLocked, onceDone, signal, done, muStuck,
                 loopVars, crashed>>

\* Take connMu; with a connection, write the close frame under it.
ThreadClose ==
  /\ At(Thread, "close")
  /\ Goto(Thread, IF conn = 0 THEN "end" ELSE "farewell")
  /\ OnlyPc

\* A writer of the connection the thread writes to: two writers at once make one
\* of them panic ("concurrent write to websocket connection").
WritesTo(p, n) == At(p, "write") /\ held[p] = n

ThreadFarewell ==
  /\ At(Thread, "farewell")
  /\ Close(conn)
  /\ Goto(Thread, "end")
  /\ UNCHANGED <<made, clientVars, loopVars, crashed>>

\* The panic is recovered when the thread is left; connMu is not unlocked.
ThreadPanics ==
  /\ At(Thread, "farewell")
  /\ \E p \in Loops : WritesTo(p, conn)
  /\ muStuck' = TRUE
  /\ Goto(Thread, "end")
  /\ UNCHANGED <<made, link, conn, session, stopped, onceLocked, onceDone, signal, done, reconnect,
                 loopVars, crashed>>

ThreadStep ==
  \/ Dial(Thread, "enter") \/ Adopt(Thread) \/ Begin(Thread, "wait") \/ Trigger(Thread)
  \/ ThreadWait \/ ThreadClose \/ ThreadFarewell \/ ThreadPanics

-----------------------------------------------------------------------------
(* readLoop and heartbeatLoop.                                             *)

\* Take writeMu and read c.conn; to fail when that is nil.
BeginWrite(p, place, fail) ==
  /\ At(p, place)
  /\ WriteMuFree /\ MuFree
  /\ held' = [held EXCEPT ![p] = conn]
  /\ Goto(p, IF conn = 0 THEN fail ELSE "write")
  /\ UNCHANGED <<made, link, clientVars, waitsOn, crashed>>

\* WriteMessage returns and writeMu is released: to ok or, on an error, to fail.  A
\* write on a broken connection may still succeed.
EndWrite(p, ok, fail) ==
  /\ At(p, "write")
  /\ \/ Live(held[p]) /\ Goto(p, ok)
     \/ link[held[p]] # "open" /\ Goto(p, fail)
     \/ At(Thread, "farewell") /\ held[p] = conn /\ Goto(p, "end")
  /\ held' = [held EXCEPT ![p] = 0]
  /\ UNCHANGED <<made, link, clientVars, waitsOn, crashed>>

\* (Faulty variant: a read loop that looks at stopCh only.)
ReadPoll_StopOnly(p) ==
  /\ At(p, "poll")
  /\ Goto(p, IF session \in stopped THEN "end" ELSE "fetch")
  /\ OnlyPc

\* The select on stopCh and doneCh: those of now.
ReadPoll(p) ==
  /\ At(p, "poll")
  /\ Goto(p, IF done \/ session \in stopped THEN "end" ELSE "fetch")
  /\ OnlyPc

\* (Faulty variant: a read loop that does not look for nil.)
ReadFetch_NoNilCheck(p) ==
  /\ At(p, "fetch")
  /\ MuFree
  /\ held' = [held EXCEPT ![p] = conn]
  /\ Goto(p, "read")
  /\ UNCHANGED <<made, link, clientVars, waitsOn, crashed>>

ReadFetch(p) ==
  /\ At(p, "fetch")
  /\ MuFree
  /\ held' = [held EXCEPT ![p] = conn]
  /\ Goto(p, IF conn = 0 THEN "enter" ELSE "read")
  /\ UNCHANGED <<made, link, clientVars, waitsOn, crashed>>

\* ReadMessage: a command, another message, or an error.  It may wait for ever on a
\* broken connection.  Two readers of one connection may disturb each other.
ReadMessage(p) ==
  /\ At(p, "read")
  /\ \/ link[held[p]] = "open" /\ (Goto(p, "handle") \/ Goto(p, "poll"))
     \/ link[held[p]] # "open" /\ Goto(p, "enter")
     \/ /\ \E q \in Readers \ {p} : At(q, "read") /\ held[q] = held[p]
        /\ Goto(p, "enter")
  /\ held' = [held EXCEPT ![p] = 0]
  /\ UNCHANGED <<made, link, clientVars, waitsOn, crashed>>

\* The command returns, or panics (a stopCh of a publisher closed twice).
Handle(p) ==
  /\ At(p, "handle")
  /\ Goto(p, "respond") \/ Goto(p, "end")
  /\ OnlyPc

ReaderStep(p) ==
  \/ ReadPoll(p) \/ ReadFetch(p) \/ ReadMessage(p) \/ Handle(p)
  \/ BeginWrite(p, "respond", "poll") \/ EndWrite(p, "poll", "poll")
  \/ Trigger(p)

\* The select is entered with the stopCh of now.
BeatSelect(p) ==
  /\ At(p, "select")
  /\ waitsOn' = [waitsOn EXCEPT ![p] = session]
  /\ Goto(p, "wait")
  /\ UNCHANGED <<made, link, clientVars, held, crashed>>

BeatStops(p) ==
  /\ At(p, "wait")
  /\ done \/ waitsOn[p] \in stopped
  /\ Goto(p, "end")
  /\ waitsOn' = [waitsOn EXCEPT ![p] = 0]
  /\ UNCHANGED <<made, link, clientVars, held, crashed>>

BeatTick(p) ==
  /\ At(p, "wait")
  /\ Goto(p, "beat")
  /\ waitsOn' = [waitsOn EXCEPT ![p] = 0]
  /\ UNCHANGED <<made, link, clientVars, held, crashed>>

BeatStep(p) ==
  \/ BeginWrite(p, "beat", "enter") \/ EndWrite(p, "select", "enter")
  \/ BeatSelect(p) \/ BeatStops(p) \/ BeatTick(p)
  \/ Trigger(p)

-----------------------------------------------------------------------------

\* closeWsClient, by Restart..., CloseWebsocketMainThread or a new client.
CloseWsClient ==
  /\ ~done
  /\ done' = TRUE
  /\ reconnect' = FALSE
  /\ UNCHANGED <<pc, made, link, conn, session, stopped, onceLocked, onceDone, signal, muStuck,
                 loopVars, crashed>>

\* The peer or the network is gone.
LinkBreaks(n) ==
  /\ link[n] = "open"
  /\ link' = [link EXCEPT ![n] = "broken"]
  /\ UNCHANGED <<pc, made, clientVars, loopVars, crashed>>

Program ==
  \/ ThreadStep \/ ReconStep
  \/ \E p \in Readers : ReaderStep(p)
  \/ \E p \in Beats : BeatStep(p)

Next ==
  \/ ~crashed /\ (Program \/ ThreadInterrupted \/ CloseWsClient)
  \/ \E n \in Conns : LinkBreaks(n)

Spec == Init /\ [][Next]_vars

\* Goroutines that can run are scheduled; a reader on a connection that is not
\* closed may wait for ever.  A ticker is not ready again at once, so a heartbeat
\* whose stopCh is closed sees that; writes on a broken connection fail in the end;
\* a server that is dialled often enough accepts.
ReaderGoes(p) == ReaderStep(p) /\ (At(p, "read") => link[held[p]] = "closed")

Fairness ==
  /\ WF_vars(~crashed /\ ThreadStep)
  /\ WF_vars(~crashed /\ ReconStep)
  /\ \A p \in Readers : WF_vars(~crashed /\ ReaderGoes(p))
  /\ \A p \in Beats : /\ WF_vars(~crashed /\ BeatStep(p))
                      /\ SF_vars(~crashed /\ BeatStops(p))
                      /\ SF_vars(~crashed /\ EndWrite(p, "enter", "enter") /\ link[held[p]] # "open")
  /\ SF_vars(~crashed /\ Dial(Recon, "retry") /\ pc'[Recon] = "adopt")

FairSpec == Spec /\ Fairness

-----------------------------------------------------------------------------
(* What the client guarantees.                                             *)

\* Somebody will notice that the connection is lost, or has and will say so.
Watched ==
  \E p \in Loops :
    \/ pc[p] \in {"shut", "signal"}
    \/ pc[p] = "enter" /\ ~onceDone
    \/ p = Beat(session) /\ pc[p] \in {"beat", "write", "select"}
    \/ p = Beat(session) /\ pc[p] = "wait" /\ waitsOn[p] \notin stopped

\* While reconnectLoop waits with no token to receive, the session has a heartbeat
\* that is not about to end, or a loop that is about to trigger: no reconnect is
\* lost between triggerOnce, the full reconnectCh and the replacement of both.
SessionIsWatched ==
  reconnect /\ ~crashed /\ At(Thread, "wait") /\ At(Recon, "wait") /\ ~signal => Watched

\* A connection that c.conn no longer holds is closed: reconnects leak none.
OldConnsAreClosed ==
  \A n \in Conns : Live(n) => \/ n = conn
                              \/ n = made /\ (At(Thread, "adopt") \/ At(Recon, "adopt"))

\* Heartbeats do not pile up: at most one will send again.  (For goroutines that
\* are scheduled within a back-off.)
OneHeartbeat ==
  Cardinality({n \in Conns : \/ pc[Beat(n)] \in {"beat", "write", "select"}
                             \/ pc[Beat(n)] = "wait" /\ waitsOn[Beat(n)] \notin stopped}) <= 1

\* triggerOnce is never replaced while a loop is inside its Do, which would be fatal.
OnceIsReplacedIdle == ~crashed

\* A read loop of an earlier session is left only in the middle of a command or on its way
\* back from one: it holds no connection to read from and triggers nothing.
OnlyHandlersAreLeft ==
  At(Recon, "begin") =>
    \A p \in Readers : Dead(p) \/ pc[p] \in {"handle", "respond", "write", "poll"}

\* What a session leaves to the next one, as long as goroutines are scheduled within a
\* back-off (ws_client.go:266, 304): no heartbeat that sends again, nobody inside
\* triggerOnce, and no read loop but one in a command.  That one goes on: it looks at the
\* next stopCh (339) and reads beside the next read loop.
OnlyHandlersOutlive == OneHeartbeat /\ OnceIsReplacedIdle /\ OnlyHandlersAreLeft

\* A connection that was lost is replaced, unless the client is closed.
LostIsReplaced ==
  \A n \in 1..(MaxConns - 1) :
    conn = n /\ link[n] # "open" ~> conn > n \/ ~reconnect \/ crashed

\* Once the thread acts on doneCh every goroutine of the client ends, also when
\* reconnectLoop was dialling, unless a panic left connMu locked.
CloseEnds ==
  At(Thread, "close") ~> (\A p \in Procs : Dead(p)) \/ muStuck \/ crashed

\* The client neither stays without a connection nor outlives its close
\* (ws_client.go:90, 457).
Progress == LostIsReplaced /\ CloseEnds
=============================================================================
