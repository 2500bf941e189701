----------------------------- MODULE LoggerProofs -----------------------------
(***************************************************************************)
(* Proofs about the log of the two programs, for any number of goroutines  *)
(* that log, of connections, messages and faults, and any queue limits.    *)
(***************************************************************************)
EXTENDS Logger, SequenceTheorems, TLAPS

Todo(g) == thread[g].todo

Stops == {<<"dead">>, <<"hang">>}

\* checkstatus on its way to a new connection: before it dialled, before c.conn is
\* set, before the reader runs.
Begins == {<<"log", "dial">>, <<"dial">>}
Makes == {<<"lock", "set", "log", "spawn">>, <<"set", "log", "spawn">>}
Made == {<<"log", "spawn">>, <<"spawn">>}
Making == Makes \cup Made

\* A reader that is done with its connection, and one that is not.
Ended == {<<"log">>} \cup Stops
Reads == {<<"read">>, <<"lock", "close">>, <<"close">>, <<"close", "shut", "log">>, <<"shut", "log">>}

CallerTodos == {<<>>, <<"log">>} \cup Stops
SenderTodos ==
  {<<>>, <<"lock", "send">>, <<"send">>, <<"unlock">>, <<"log", "unlock", "back">>,
   <<"shut", "log", "unlock", "back">>, <<"unlock", "back">>, <<"back">>} \cup Stops
CheckerTodos ==
  {<<>>, <<"lock", "send">>, <<"send">>, <<"unlock">>, <<"log", "unlock">>,
   <<"shut", "log", "unlock">>, <<"log">>} \cup Begins \cup Makes \cup Made \cup Stops
ReaderTodos == Ended \cup Reads
WriterTodos == {<<>>, <<"dead">>}

AllTodos == CallerTodos \cup SenderTodos \cup CheckerTodos \cup ReaderTodos

\* What a goroutine may have left to do.
Fits(g, todo) ==
  /\ g \in Callers => todo \in CallerTodos
  /\ g \in Conns => todo \in ReaderTodos
  /\ g = Sender => todo \in SenderTodos
  /\ g = Checker => todo \in CheckerTodos
  /\ g = "autoWrite" => todo \in WriterTodos

Thread == [todo : AllTodos, what : Nat, to : Conns \cup {None}]

ThreadsFit ==
  /\ thread \in [Goroutines -> Thread]
  /\ \A g \in Goroutines : Fits(g, Todo(g))
  /\ next \in Nat /\ next # Noise
  /\ \A i \in 1..Len(queue) : queue[i] \in Nat
  /\ queue \in Seq(Nat)

\* The goroutines are all different.
LEMMA GoroutinesDiffer ==
  /\ Sender # Checker /\ Sender # "autoWrite" /\ Checker # "autoWrite"
  /\ Sender \in Goroutines /\ Checker \in Goroutines /\ "autoWrite" \in Goroutines
  /\ Callers \subseteq Goroutines /\ Conns \subseteq Goroutines
  /\ Callers \cap Conns = {}
  /\ Sender \notin Callers \cup Conns /\ Checker \notin Callers \cup Conns
  /\ "autoWrite" \notin Callers \cup Conns /\ None \notin Callers \cup Conns
  /\ None \notin Goroutines
  /\ \A g \in Goroutines : g \in Callers \/ g \in Conns \/ g = Sender \/ g = Checker \/ g = "autoWrite"
  BY LoggerAssumption DEF Goroutines, Sender, Checker, None

\* The steps a goroutine has left after each first step.
LEMMA Tails ==
  ASSUME NEW t \in AllTodos, t # <<>>
  PROVE  /\ Head(t) = "log" =>
              \/ t = <<"log">> /\ Tail(t) = <<>>
              \/ t = <<"log", "unlock">> /\ Tail(t) = <<"unlock">>
              \/ t = <<"log", "unlock", "back">> /\ Tail(t) = <<"unlock", "back">>
              \/ t = <<"log", "dial">> /\ Tail(t) = <<"dial">>
              \/ t = <<"log", "spawn">> /\ Tail(t) = <<"spawn">>
         /\ Head(t) = "lock" =>
              \/ t = <<"lock", "send">> /\ Tail(t) = <<"send">>
              \/ t = <<"lock", "close">> /\ Tail(t) = <<"close">>
              \/ t = <<"lock", "set", "log", "spawn">> /\ Tail(t) = <<"set", "log", "spawn">>
         /\ Head(t) = "unlock" =>
              \/ t = <<"unlock">> /\ Tail(t) = <<>>
              \/ t = <<"unlock", "back">> /\ Tail(t) = <<"back">>
         /\ Head(t) = "shut" =>
              \/ t = <<"shut", "log">> /\ Tail(t) = <<"log">>
              \/ t = <<"shut", "log", "unlock">> /\ Tail(t) = <<"log", "unlock">>
              \/ t = <<"shut", "log", "unlock", "back">> /\ Tail(t) = <<"log", "unlock", "back">>
         /\ Head(t) = "close" =>
              \/ t = <<"close">> /\ Tail(t) = <<>>
              \/ t = <<"close", "shut", "log">> /\ Tail(t) = <<"shut", "log">>
         /\ Head(t) = "set" => t = <<"set", "log", "spawn">> /\ Tail(t) = <<"log", "spawn">>
         /\ Head(t) = "send" => t = <<"send">>
         /\ Head(t) = "dial" => t = <<"dial">>
         /\ Head(t) = "spawn" => t = <<"spawn">>
         /\ Head(t) = "back" => t = <<"back">>
         /\ Head(t) = "read" => t = <<"read">>
         /\ Head(t) = "hang" => t = <<"hang">>
         /\ Head(t) = "dead" => t = <<"dead">>
<1>1. Head(t) = "log" =>
      \/ t = <<"log">>
      \/ t = <<"log", "unlock">>
      \/ t = <<"log", "unlock", "back">>
      \/ t = <<"log", "dial">>
      \/ t = <<"log", "spawn">>
  BY DEF AllTodos, CallerTodos, SenderTodos, CheckerTodos, ReaderTodos, Stops, Begins,
     Makes, Made, Ended, Reads
<1>2. Head(t) = "lock" =>
      \/ t = <<"lock", "send">>
      \/ t = <<"lock", "close">>
      \/ t = <<"lock", "set", "log", "spawn">>
  BY DEF AllTodos, CallerTodos, SenderTodos, CheckerTodos, ReaderTodos, Stops, Begins,
     Makes, Made, Ended, Reads
<1>3. Head(t) = "unlock" =>
      \/ t = <<"unlock">>
      \/ t = <<"unlock", "back">>
  BY DEF AllTodos, CallerTodos, SenderTodos, CheckerTodos, ReaderTodos, Stops, Begins,
     Makes, Made, Ended, Reads
<1>4. Head(t) = "shut" =>
      \/ t = <<"shut", "log">>
      \/ t = <<"shut", "log", "unlock">>
      \/ t = <<"shut", "log", "unlock", "back">>
  BY DEF AllTodos, CallerTodos, SenderTodos, CheckerTodos, ReaderTodos, Stops, Begins,
     Makes, Made, Ended, Reads
<1>5. Head(t) = "close" =>
      \/ t = <<"close">>
      \/ t = <<"close", "shut", "log">>
  BY DEF AllTodos, CallerTodos, SenderTodos, CheckerTodos, ReaderTodos, Stops, Begins,
     Makes, Made, Ended, Reads
<1>6. Head(t) = "set" => t = <<"set", "log", "spawn">>
  BY DEF AllTodos, CallerTodos, SenderTodos, CheckerTodos, ReaderTodos, Stops, Begins,
     Makes, Made, Ended, Reads
<1>7. Head(t) = "send" => t = <<"send">>
  BY DEF AllTodos, CallerTodos, SenderTodos, CheckerTodos, ReaderTodos, Stops, Begins,
     Makes, Made, Ended, Reads
<1>8. Head(t) = "dial" => t = <<"dial">>
  BY DEF AllTodos, CallerTodos, SenderTodos, CheckerTodos, ReaderTodos, Stops, Begins,
     Makes, Made, Ended, Reads
<1>9. Head(t) = "spawn" => t = <<"spawn">>
  BY DEF AllTodos, CallerTodos, SenderTodos, CheckerTodos, ReaderTodos, Stops, Begins,
     Makes, Made, Ended, Reads
<1>10. Head(t) = "back" => t = <<"back">>
  BY DEF AllTodos, CallerTodos, SenderTodos, CheckerTodos, ReaderTodos, Stops, Begins,
     Makes, Made, Ended, Reads
<1>11. Head(t) = "read" => t = <<"read">>
  BY DEF AllTodos, CallerTodos, SenderTodos, CheckerTodos, ReaderTodos, Stops, Begins,
     Makes, Made, Ended, Reads
<1>12. Head(t) = "hang" => t = <<"hang">>
  BY DEF AllTodos, CallerTodos, SenderTodos, CheckerTodos, ReaderTodos, Stops, Begins,
     Makes, Made, Ended, Reads
<1>13. Head(t) = "dead" => t = <<"dead">>
  BY DEF AllTodos, CallerTodos, SenderTodos, CheckerTodos, ReaderTodos, Stops, Begins,
     Makes, Made, Ended, Reads
<1>14. /\ Tail(<<"log">>) = <<>>
      /\ Tail(<<"log", "unlock">>) = <<"unlock">>
      /\ Tail(<<"log", "unlock", "back">>) = <<"unlock", "back">>
      /\ Tail(<<"log", "dial">>) = <<"dial">>
      /\ Tail(<<"log", "spawn">>) = <<"spawn">>
      /\ Tail(<<"lock", "send">>) = <<"send">>
      /\ Tail(<<"lock", "close">>) = <<"close">>
      /\ Tail(<<"lock", "set", "log", "spawn">>) = <<"set", "log", "spawn">>
      /\ Tail(<<"unlock">>) = <<>>
      /\ Tail(<<"unlock", "back">>) = <<"back">>
      /\ Tail(<<"shut", "log">>) = <<"log">>
      /\ Tail(<<"shut", "log", "unlock">>) = <<"log", "unlock">>
      /\ Tail(<<"shut", "log", "unlock", "back">>) = <<"log", "unlock", "back">>
      /\ Tail(<<"close">>) = <<>>
      /\ Tail(<<"close", "shut", "log">>) = <<"shut", "log">>
      /\ Tail(<<"set", "log", "spawn">>) = <<"log", "spawn">>
  OBVIOUS
<1> QED
  BY <1>1, <1>2, <1>3, <1>4, <1>5, <1>6, <1>7, <1>8, <1>9, <1>10, <1>11, <1>12, <1>13, <1>14

\* closing comes before what a failed send is followed by.
LEMMA ShutFirst ==
  ASSUME NEW g
  PROVE  <<"shut">> \o AfterFailure(g) =
           IF g = Sender THEN <<"shut", "log", "unlock", "back">> ELSE <<"shut", "log", "unlock">>
<1> DEFINE S == {"shut", "log", "unlock", "back"}
<1>1. \A x \in Seq(S) : /\ <<"shut">> \o x \in Seq(S) /\ Len(<<"shut">> \o x) = 1 + Len(x)
                       /\ (<<"shut">> \o x)[1] = "shut"
                       /\ \A i \in 2..(1 + Len(x)) : (<<"shut">> \o x)[i] = x[i - 1]
  <2>1. TAKE x \in Seq(S)
  <2>2. <<"shut">> \in Seq(S) /\ Len(<<"shut">>) = 1 /\ <<"shut">>[1] = "shut" /\ Len(x) \in Nat
    OBVIOUS
  <2>3. /\ <<"shut">> \o x \in Seq(S) /\ Len(<<"shut">> \o x) = Len(<<"shut">>) + Len(x)
        /\ \A i \in 1 .. Len(<<"shut">>) + Len(x) :
             (<<"shut">> \o x)[i] = IF i <= Len(<<"shut">>) THEN <<"shut">>[i] ELSE x[i - Len(<<"shut">>)]
    BY <2>2, ConcatProperties
  <2> HIDE DEF S
  <2>4. QED
    BY <2>2, <2>3
<1>2. ASSUME NEW x \in Seq(S), NEW y \in Seq(S), Len(y) = 1 + Len(x), y[1] = "shut",
             \A i \in 2..(1 + Len(x)) : y[i] = x[i - 1]
      PROVE  <<"shut">> \o x = y
  <2>1. Len(x) \in Nat /\ \A i \in 1..Len(y) : i = 1 \/ i \in 2..(1 + Len(x))
    BY <1>2
  <2>2. \A i \in 1..Len(y) : (<<"shut">> \o x)[i] = y[i]
    BY <1>1, <1>2, <2>1
  <2> HIDE DEF S
  <2>3. QED
    BY <1>1, <1>2, <2>2, SeqEqual
<1>3. <<"shut">> \o <<"log", "unlock">> = <<"shut", "log", "unlock">>
  <2>1. /\ <<"log", "unlock">> \in Seq(S) /\ <<"shut", "log", "unlock">> \in Seq(S)
        /\ 1 + Len(<<"log", "unlock">>) = 3 /\ Len(<<"shut", "log", "unlock">>) = 3
        /\ <<"shut", "log", "unlock">>[1] = "shut"
    OBVIOUS
  <2>2. \A i \in 2..3 : <<"shut", "log", "unlock">>[i] = <<"log", "unlock">>[i - 1]
    <3>1. \A i \in 2..3 : i = 2 \/ i = 3
      OBVIOUS
    <3>2. QED
      BY <3>1
  <2> HIDE DEF S
  <2>3. QED
    BY <1>2, <2>1, <2>2
<1>4. <<"shut">> \o <<"log", "unlock", "back">> = <<"shut", "log", "unlock", "back">>
  <2>1. /\ <<"log", "unlock", "back">> \in Seq(S) /\ <<"shut", "log", "unlock", "back">> \in Seq(S)
        /\ 1 + Len(<<"log", "unlock", "back">>) = 4 /\ Len(<<"shut", "log", "unlock", "back">>) = 4
        /\ <<"shut", "log", "unlock", "back">>[1] = "shut"
    OBVIOUS
  <2>2. \A i \in 2..4 : <<"shut", "log", "unlock", "back">>[i] = <<"log", "unlock", "back">>[i - 1]
    <3>1. \A i \in 2..4 : i = 2 \/ i = 3 \/ i = 4
      OBVIOUS
    <3>2. QED
      BY <3>1
  <2> HIDE DEF S
  <2>3. QED
    BY <1>2, <2>1, <2>2
<1>5. QED
  BY <1>3, <1>4 DEF AfterFailure

-----------------------------------------------------------------------------
(* What the steps do to the goroutines.                                    *)

\* No goroutine but g moves.
Moves(g) ==
  /\ thread' \in [Goroutines -> Thread]
  /\ \A h \in Goroutines \ {g} : thread'[h] = thread[h]

\* g goes from one todo to the next, with what it has in hand.
Goes(g, from, to) ==
  /\ Todo(g) = from /\ thread'[g].todo = to
  /\ thread'[g].what = thread[g].what /\ thread'[g].to = thread[g].to

\* g has died.
Dies(g) == thread'[g].todo = <<"dead">> /\ thread'[g].what = Noise /\ thread'[g].to = None

LEMMA DeadThread ==
  /\ Dead \in Thread /\ Rest \in Thread /\ Rest.todo = <<>> /\ Rest.what = Noise /\ Rest.to = None
  /\ Dead.todo = <<"dead">> /\ Dead.what = Noise /\ Dead.to = None
  BY DEF Dead, Rest, Thread, AllTodos, CallerTodos, Stops, Noise

LEMMA GotoEffect ==
  ASSUME ThreadsFit, NEW g \in Goroutines, NEW todo \in AllTodos, Goto(g, todo)
  PROVE  /\ Moves(g)
         /\ g \in Conns /\ todo = <<>> => Dies(g)
         /\ ~(g \in Conns /\ todo = <<>>) => Goes(g, Todo(g), todo)
<1>1. thread' = [thread EXCEPT ![g] = Does(g, todo)] /\ thread[g] \in Thread
  BY DEF Goto, ThreadsFit
<1>2. CASE g \in Conns /\ todo = <<>>
  <2>1. Does(g, todo) = Dead
    BY <1>2 DEF Does
  <2>2. QED
    BY <1>1, <1>2, <2>1, DeadThread DEF Moves, Dies, ThreadsFit
<1>3. CASE ~(g \in Conns /\ todo = <<>>)
  <2>1. Does(g, todo) = [thread[g] EXCEPT !.todo = todo]
    BY <1>3 DEF Does
  <2>2. /\ Does(g, todo) \in Thread /\ Does(g, todo).todo = todo
        /\ Does(g, todo).what = thread[g].what /\ Does(g, todo).to = thread[g].to
    BY <1>1, <2>1 DEF Thread
  <2>3. QED
    BY <1>1, <1>3, <2>2 DEF Moves, Goes, Todo, ThreadsFit
<1>4. QED
  BY <1>2, <1>3

\* The queue and the numbers keep their types.
LEMMA PutEffect ==
  ASSUME ThreadsFit, NEW g, PutRemote(g)
  PROVE  queue' \in Seq(Nat) /\ next' \in Nat /\ next' # Noise /\ next <= next'
<1>1. PICK m \in Nat : queue' = Put(m)
  BY DEF PutRemote, ThreadsFit, Noise
<1>2. Append(queue, m) \in Seq(Nat) /\ Append(queue, m) # <<>>
  BY AppendProperties DEF ThreadsFit
<1>3. Tail(Append(queue, m)) \in Seq(Nat)
  BY <1>2, HeadTailProperties
<1>4. QED
  BY <1>1, <1>2, <1>3 DEF Put, PutRemote, ThreadsFit, Noise

\* A log call in the program or in the log itself.
LEMMA LogEffect ==
  ASSUME ThreadsFit, NEW g \in Goroutines, AddLog(g) \/ AddLogLater(g)
  PROVE  /\ Moves(g)
         /\ \/ g \in Conns /\ Todo(g) = <<"log">> /\ Dies(g)
            \/ g \notin Conns /\ Goes(g, <<"log">>, <<>>)
            \/ Goes(g, <<"log", "unlock">>, <<"unlock">>)
            \/ Goes(g, <<"log", "unlock", "back">>, <<"unlock", "back">>)
            \/ Goes(g, <<"log", "dial">>, <<"dial">>)
            \/ Goes(g, <<"log", "spawn">>, <<"spawn">>)
            \/ stuck /\ Goes(g, Todo(g), <<"hang">>)
            \/ Dies(g) /\ stuck' /\ rmutex' # g
         /\ Head(Todo(g)) = "log" /\ Todo(g) \in AllTodos \ {<<>>}
         /\ rmutex' = rmutex \/ (rmutex = g /\ rmutex' = None)
         /\ stuck => stuck'
<1>1. Todo(g) \in AllTodos /\ Todo(g) # <<>> /\ Head(Todo(g)) = "log" /\ Left(g) = Tail(Todo(g))
  BY DEF AddLog, AddLogLater, At, Todo, Left, ThreadsFit, Thread
<1>2. /\ Left(g) \in AllTodos
      /\ \/ Todo(g) = <<"log">> /\ Left(g) = <<>>
         \/ Todo(g) = <<"log", "unlock">> /\ Left(g) = <<"unlock">>
         \/ Todo(g) = <<"log", "unlock", "back">> /\ Left(g) = <<"unlock", "back">>
         \/ Todo(g) = <<"log", "dial">> /\ Left(g) = <<"dial">>
         \/ Todo(g) = <<"log", "spawn">> /\ Left(g) = <<"spawn">>
  BY <1>1, Tails DEF AllTodos, CallerTodos, SenderTodos, CheckerTodos, Begins, Made
<1>3. rmutex # g \/ None # g
  BY GoroutinesDiffer
<1>4. CASE Goto(g, Left(g)) /\ UNCHANGED <<rmutex, stuck>>
  <2>1. /\ Moves(g)
        /\ g \in Conns /\ Left(g) = <<>> => Dies(g)
        /\ ~(g \in Conns /\ Left(g) = <<>>) => Goes(g, Todo(g), Left(g))
    BY <1>2, <1>4, GotoEffect
  <2>2. <<"unlock">> # <<>> /\ <<"unlock", "back">> # <<>> /\ <<"dial">> # <<>> /\ <<"spawn">> # <<>>
    OBVIOUS
  <2> QED
    BY <1>1, <1>2, <1>4, <2>1, <2>2
<1>5. CASE Goto(g, <<"hang">>) /\ stuck /\ UNCHANGED <<rmutex, stuck>>
  <2>1. <<"hang">> \in AllTodos /\ <<"hang">> # <<>>
    BY DEF AllTodos, CallerTodos, Stops
  <2>2. Moves(g) /\ Goes(g, Todo(g), <<"hang">>)
    BY <1>5, <2>1, GotoEffect
  <2> QED
    BY <1>1, <1>5, <2>2
<1>6. CASE /\ thread' = [thread EXCEPT ![g] = Dead] /\ stuck'
           /\ rmutex' = IF rmutex = g THEN None ELSE rmutex
  <2>1. Moves(g) /\ Dies(g)
    BY <1>6, DeadThread DEF Moves, Dies, ThreadsFit
  <2> QED
    BY <1>1, <1>6, <2>1, GoroutinesDiffer
<1> QED
  BY <1>4, <1>5, <1>6 DEF AddLog, AddLogLater

\* The other steps that only shorten what a goroutine has to do.
LEMMA ShortenEffect ==
  ASSUME ThreadsFit, NEW g \in Goroutines
  PROVE  /\ Lock(g) =>
              /\ Moves(g)
              /\ \/ Goes(g, <<"lock", "send">>, <<"send">>)
                 \/ Goes(g, <<"lock", "close">>, <<"close">>)
                 \/ Goes(g, <<"lock", "set", "log", "spawn">>, <<"set", "log", "spawn">>)
         /\ Unlock(g) =>
              /\ Moves(g) /\ g \notin Conns
              /\ Goes(g, <<"unlock">>, <<>>) \/ Goes(g, <<"unlock", "back">>, <<"back">>)
         /\ ShutConn(g) =>
              /\ Moves(g)
              /\ \/ Goes(g, <<"shut", "log">>, <<"log">>)
                 \/ Goes(g, <<"shut", "log", "unlock">>, <<"log", "unlock">>)
                 \/ Goes(g, <<"shut", "log", "unlock", "back">>, <<"log", "unlock", "back">>)
         /\ SetConn(g) => Moves(g) /\ Goes(g, <<"set", "log", "spawn">>, <<"log", "spawn">>)
<1>1. Todo(g) \in AllTodos /\ Left(g) = Tail(Todo(g))
  BY DEF Todo, Left, ThreadsFit, Thread
<1>2. /\ {<<"send">>, <<"close">>, <<"set", "log", "spawn">>, <<>>, <<"back">>, <<"log">>,
          <<"log", "unlock">>, <<"log", "unlock", "back">>, <<"log", "spawn">>} \subseteq AllTodos
      /\ <<"send">> # <<>> /\ <<"close">> # <<>> /\ <<"set", "log", "spawn">> # <<>>
      /\ <<"back">> # <<>> /\ <<"log">> # <<>> /\ <<"log", "unlock">> # <<>>
      /\ <<"log", "unlock", "back">> # <<>> /\ <<"log", "spawn">> # <<>>
  BY DEF AllTodos, CallerTodos, SenderTodos, CheckerTodos, ReaderTodos, Makes, Made, Ended, Reads
<1>3. ASSUME Lock(g)
      PROVE  /\ Moves(g)
             /\ \/ Goes(g, <<"lock", "send">>, <<"send">>)
                \/ Goes(g, <<"lock", "close">>, <<"close">>)
                \/ Goes(g, <<"lock", "set", "log", "spawn">>, <<"set", "log", "spawn">>)
  <2>1. Todo(g) # <<>> /\ Head(Todo(g)) = "lock" /\ Goto(g, Left(g))
    BY <1>3 DEF Lock, At, Todo
  <2>2. \/ Todo(g) = <<"lock", "send">> /\ Left(g) = <<"send">>
        \/ Todo(g) = <<"lock", "close">> /\ Left(g) = <<"close">>
        \/ Todo(g) = <<"lock", "set", "log", "spawn">> /\ Left(g) = <<"set", "log", "spawn">>
    BY <1>1, <2>1, Tails
  <2>3. QED
    BY <1>2, <2>1, <2>2, GotoEffect
<1>4. ASSUME Unlock(g)
      PROVE  /\ Moves(g) /\ g \notin Conns
             /\ Goes(g, <<"unlock">>, <<>>) \/ Goes(g, <<"unlock", "back">>, <<"back">>)
  <2>1. Todo(g) # <<>> /\ Head(Todo(g)) = "unlock" /\ Goto(g, Left(g))
    BY <1>4 DEF Unlock, At, Todo
  <2>2. \/ Todo(g) = <<"unlock">> /\ Left(g) = <<>>
        \/ Todo(g) = <<"unlock", "back">> /\ Left(g) = <<"back">>
    BY <1>1, <2>1, Tails
  <2>3. g \notin Conns
    BY <2>2 DEF ThreadsFit, Fits, ReaderTodos, Ended, Reads, Stops
  <2>4. QED
    BY <1>2, <2>1, <2>2, <2>3, GotoEffect
<1>5. ASSUME ShutConn(g)
      PROVE  /\ Moves(g)
             /\ \/ Goes(g, <<"shut", "log">>, <<"log">>)
                \/ Goes(g, <<"shut", "log", "unlock">>, <<"log", "unlock">>)
                \/ Goes(g, <<"shut", "log", "unlock", "back">>, <<"log", "unlock", "back">>)
  <2>1. Todo(g) # <<>> /\ Head(Todo(g)) = "shut" /\ Goto(g, Left(g))
    BY <1>5 DEF ShutConn, At, Todo
  <2>2. \/ Todo(g) = <<"shut", "log">> /\ Left(g) = <<"log">>
        \/ Todo(g) = <<"shut", "log", "unlock">> /\ Left(g) = <<"log", "unlock">>
        \/ Todo(g) = <<"shut", "log", "unlock", "back">> /\ Left(g) = <<"log", "unlock", "back">>
    BY <1>1, <2>1, Tails
  <2>3. QED
    BY <1>2, <2>1, <2>2, GotoEffect
<1>6. ASSUME SetConn(g)
      PROVE  Moves(g) /\ Goes(g, <<"set", "log", "spawn">>, <<"log", "spawn">>)
  <2>1. Todo(g) # <<>> /\ Head(Todo(g)) = "set" /\ Goto(g, Left(g))
    BY <1>6 DEF SetConn, At, Todo
  <2>2. Todo(g) = <<"set", "log", "spawn">> /\ Left(g) = <<"log", "spawn">>
    BY <1>1, <2>1, Tails
  <2>3. QED
    BY <1>2, <2>1, <2>2, GotoEffect
<1>7. QED
  BY <1>3, <1>4, <1>5, <1>6

\* g has this thread now.
Gets(g, todo, what, to) ==
  thread'[g].todo = todo /\ thread'[g].what = what /\ thread'[g].to = to

\* Sending, which the sender and the checker do.
LEMMA SendEffect ==
  ASSUME ThreadsFit, NEW g \in Goroutines
  PROVE  /\ SendWorks(g) \/ SendFails(g) => Moves(g) /\ Todo(g) = <<"send">> /\ (g = Sender \/ g = Checker)
         /\ SendWorks(g) => Gets(g, <<"unlock">>, Noise, None)
         /\ SendFails(g) => \/ /\ program = "multipusher"
                               /\ \/ g = Sender /\ Goes(g, <<"send">>, <<"log", "unlock", "back">>)
                                  \/ g = Checker /\ Goes(g, <<"send">>, <<"log", "unlock">>)
                            \/ /\ program # "multipusher"
                               /\ \/ g = Sender /\ Goes(g, <<"send">>, <<"shut", "log", "unlock", "back">>)
                                  \/ g = Checker /\ Goes(g, <<"send">>, <<"shut", "log", "unlock">>)
<1> SUFFICES ASSUME SendWorks(g) \/ SendFails(g)
             PROVE  /\ Moves(g) /\ Todo(g) = <<"send">> /\ (g = Sender \/ g = Checker)
                    /\ SendWorks(g) => Gets(g, <<"unlock">>, Noise, None)
                    /\ SendFails(g) =>
                            \/ /\ program = "multipusher"
                               /\ \/ g = Sender /\ Goes(g, <<"send">>, <<"log", "unlock", "back">>)
                                  \/ g = Checker /\ Goes(g, <<"send">>, <<"log", "unlock">>)
                            \/ /\ program # "multipusher"
                               /\ \/ g = Sender /\ Goes(g, <<"send">>, <<"shut", "log", "unlock", "back">>)
                                  \/ g = Checker /\ Goes(g, <<"send">>, <<"shut", "log", "unlock">>)
  OBVIOUS
<1>1. Todo(g) \in AllTodos /\ Todo(g) # <<>> /\ Head(Todo(g)) = "send"
  BY DEF SendWorks, SendFails, At, Todo, ThreadsFit, Thread
<1>2. Todo(g) = <<"send">>
  BY <1>1, Tails
<1>3. g = Sender \/ g = Checker
  <2>1. Fits(g, <<"send">>)
    BY <1>2 DEF ThreadsFit
  <2>2. <<"send">> \notin CallerTodos /\ <<"send">> \notin ReaderTodos /\ <<"send">> \notin WriterTodos
    BY DEF CallerTodos, ReaderTodos, WriterTodos, Ended, Reads, Stops
  <2>3. QED
    BY <2>1, <2>2, GoroutinesDiffer DEF Fits
<1>4. /\ {<<"log", "unlock">>, <<"log", "unlock", "back">>, <<"shut", "log", "unlock">>,
          <<"shut", "log", "unlock", "back">>, <<"unlock">>} \subseteq AllTodos
      /\ g \notin Conns
  BY <1>3, GoroutinesDiffer DEF AllTodos, SenderTodos, CheckerTodos
<1>5. ASSUME SendWorks(g)
      PROVE  Moves(g) /\ Gets(g, <<"unlock">>, Noise, None)
  <2>1. thread' = [thread EXCEPT ![g] = [Rest EXCEPT !.todo = <<"unlock">>]]
    BY <1>5 DEF SendWorks
  <2>2. [Rest EXCEPT !.todo = <<"unlock">>] = [todo |-> <<"unlock">>, what |-> Noise, to |-> None]
    BY DEF Rest
  <2>3. [todo |-> <<"unlock">>, what |-> Noise, to |-> None] \in Thread
    BY <1>4 DEF Thread, Noise
  <2>4. QED
    BY <2>1, <2>2, <2>3 DEF Moves, Gets, ThreadsFit
<1>6. ASSUME SendFails(g), program = "multipusher"
      PROVE  /\ Moves(g)
             /\ \/ g = Sender /\ Goes(g, <<"send">>, <<"log", "unlock", "back">>)
                \/ g = Checker /\ Goes(g, <<"send">>, <<"log", "unlock">>)
  <2>1. Goto(g, AfterFailure(g))
    BY <1>6 DEF SendFails, CloseLocked
  <2>2. QED
    BY <1>2, <1>3, <1>4, <2>1, GotoEffect, GoroutinesDiffer DEF AfterFailure
<1>7. ASSUME SendFails(g), program # "multipusher"
      PROVE  /\ Moves(g)
             /\ \/ g = Sender /\ Goes(g, <<"send">>, <<"shut", "log", "unlock", "back">>)
                \/ g = Checker /\ Goes(g, <<"send">>, <<"shut", "log", "unlock">>)
  <2>1. Goto(g, <<"shut">> \o AfterFailure(g))
    BY <1>7 DEF SendFails
  <2>2. QED
    BY <1>2, <1>3, <1>4, <2>1, GotoEffect, ShutFirst, GoroutinesDiffer
<1>8. QED
  BY <1>2, <1>3, <1>5, <1>6, <1>7

\* The sender takes a message or puts one back; the checker starts.
LEMMA BeginEffect ==
  ASSUME ThreadsFit
  PROVE  /\ PopFront => /\ Moves(Sender) /\ Todo(Sender) = <<>>
                        /\ Gets(Sender, <<"lock", "send">>, Head(queue), None)
         /\ PutBack => Moves(Sender) /\ Todo(Sender) = <<"back">> /\ Gets(Sender, <<>>, Noise, None)
         /\ KeepAlive => /\ Moves(Checker) /\ Todo(Checker) = <<>>
                         /\ Gets(Checker, <<"lock", "send">>, Noise, None)
         /\ Connect => Moves(Checker) /\ Goes(Checker, <<>>, <<"log", "dial">>)
         /\ \A c \in Callers : Log(c) => Moves(c) /\ Goes(c, <<>>, <<"log">>)
<1>1. /\ {<<"lock", "send">>, <<"log", "dial">>, <<"log">>, <<>>} \subseteq AllTodos
      /\ <<"log">> # <<>> /\ <<"log", "dial">> # <<>>
  BY DEF AllTodos, CallerTodos, SenderTodos, CheckerTodos, Begins
<1>2. ASSUME PopFront
      PROVE  /\ Moves(Sender) /\ Todo(Sender) = <<>>
             /\ Gets(Sender, <<"lock", "send">>, Head(queue), None)
  <2>1. Head(queue) \in Nat
    BY <1>2, HeadTailProperties DEF PopFront, ThreadsFit
  <2>2. thread' = [thread EXCEPT ![Sender] =
                  [todo |-> <<"lock", "send">>, what |-> Head(queue), to |-> None]]
    BY <1>2 DEF PopFront
  <2>3. [todo |-> <<"lock", "send">>, what |-> Head(queue), to |-> None] \in Thread
    BY <1>1, <2>1 DEF Thread
  <2>4. QED
    BY <1>2, <2>2, <2>3, GoroutinesDiffer DEF Moves, Gets, ThreadsFit, PopFront, Idle, Todo
<1>3. ASSUME PutBack
      PROVE  Moves(Sender) /\ Todo(Sender) = <<"back">> /\ Gets(Sender, <<>>, Noise, None)
  <2>1. Todo(Sender) \in AllTodos /\ Todo(Sender) # <<>> /\ Head(Todo(Sender)) = "back"
    BY <1>3, GoroutinesDiffer DEF PutBack, At, Todo, ThreadsFit, Thread
  <2>2. Todo(Sender) = <<"back">>
    BY <2>1, Tails
  <2>3. thread' = [thread EXCEPT ![Sender] = Rest]
    BY <1>3 DEF PutBack
  <2>4. QED
    BY <2>2, <2>3, DeadThread, GoroutinesDiffer DEF Moves, Gets, ThreadsFit
<1>4. ASSUME KeepAlive
      PROVE  /\ Moves(Checker) /\ Todo(Checker) = <<>>
             /\ Gets(Checker, <<"lock", "send">>, Noise, None)
  <2>1. thread' = [thread EXCEPT ![Checker] = [Rest EXCEPT !.todo = <<"lock", "send">>]]
    BY <1>4 DEF KeepAlive
  <2>2. [Rest EXCEPT !.todo = <<"lock", "send">>] = [todo |-> <<"lock", "send">>, what |-> Noise, to |-> None]
    BY DEF Rest
  <2>3. [todo |-> <<"lock", "send">>, what |-> Noise, to |-> None] \in Thread
    BY <1>1 DEF Thread, Noise
  <2>4. QED
    BY <1>4, <2>1, <2>2, <2>3, GoroutinesDiffer DEF Moves, Gets, ThreadsFit, KeepAlive, Idle, Todo
<1>5. ASSUME Connect
      PROVE  Moves(Checker) /\ Goes(Checker, <<>>, <<"log", "dial">>)
  BY <1>1, <1>5, GotoEffect, GoroutinesDiffer DEF Connect, Idle, Todo
<1>6. ASSUME NEW c \in Callers, Log(c)
      PROVE  Moves(c) /\ Goes(c, <<>>, <<"log">>)
  BY <1>1, <1>6, GotoEffect, GoroutinesDiffer DEF Log, LogIt, Idle, Todo
<1>7. QED
  BY <1>2, <1>3, <1>4, <1>5, <1>6

\* Dialling: it fails and is logged, or there is a new connection.
LEMMA DialEffect ==
  ASSUME ThreadsFit, Dial
  PROVE  /\ Moves(Checker) /\ Todo(Checker) = <<"dial">>
         /\ \/ Goes(Checker, <<"dial">>, <<"log">>) /\ UNCHANGED open
            \/ \E k \in Conns \ (open \cup {conn}) :
                 /\ thread[k] = Dead /\ open' = open \cup {k}
                 /\ Gets(Checker, <<"lock", "set", "log", "spawn">>, Noise, k)
<1>1. Todo(Checker) \in AllTodos /\ Todo(Checker) # <<>> /\ Head(Todo(Checker)) = "dial"
  BY GoroutinesDiffer DEF Dial, At, Todo, ThreadsFit, Thread
<1>2. Todo(Checker) = <<"dial">>
  BY <1>1, Tails
<1>3. <<"log">> \in AllTodos /\ <<"lock", "set", "log", "spawn">> \in AllTodos /\ <<"log">> # <<>>
  BY DEF AllTodos, CallerTodos, CheckerTodos, Makes
<1>4. CASE Goto(Checker, LogIt) /\ UNCHANGED open
  BY <1>2, <1>3, <1>4, GotoEffect, GoroutinesDiffer DEF LogIt
<1>5. ASSUME NEW k \in Conns \ (open \cup {conn}), thread[k] = Dead, open' = open \cup {k},
             thread' = [thread EXCEPT ![Checker] =
                          [todo |-> <<"lock", "set", "log", "spawn">>, what |-> Noise, to |-> k]]
      PROVE  /\ Moves(Checker)
             /\ thread[k] = Dead /\ open' = open \cup {k}
             /\ Gets(Checker, <<"lock", "set", "log", "spawn">>, Noise, k)
  <2>1. [todo |-> <<"lock", "set", "log", "spawn">>, what |-> Noise, to |-> k] \in Thread
    BY <1>3 DEF Thread, Noise
  <2>2. QED
    BY <1>5, <2>1, GoroutinesDiffer DEF Moves, Gets, ThreadsFit
<1>6. QED
  BY <1>2, <1>4, <1>5 DEF Dial

\* A new connection gets its reader.
LEMMA SpawnEffect ==
  ASSUME ThreadsFit, SpawnReader, thread[Checker].to \in Conns, conn \in Conns
  PROVE  /\ Todo(Checker) = <<"spawn">>
         /\ thread' \in [Goroutines -> Thread]
         /\ \A h \in Goroutines \ {Checker, thread[Checker].to} : thread'[h] = thread[h]
         /\ Gets(Checker, <<>>, Noise, None)
         /\ Gets(thread[Checker].to, <<"read">>, Noise,
                 IF program = "multipusher" THEN thread[Checker].to ELSE conn)
<1> DEFINE k == thread[Checker].to
           r == [todo |-> <<"read">>, what |-> Noise, to |-> IF program = "multipusher" THEN k ELSE conn]
<1>1. Todo(Checker) \in AllTodos /\ Todo(Checker) # <<>> /\ Head(Todo(Checker)) = "spawn"
  BY GoroutinesDiffer DEF SpawnReader, At, Todo, ThreadsFit, Thread
<1>2. Todo(Checker) = <<"spawn">>
  BY <1>1, Tails
<1>3. thread' = [thread EXCEPT ![Checker] = Rest, ![k] = r]
  BY DEF SpawnReader
<1>4. <<"read">> \in AllTodos
  BY DEF AllTodos, ReaderTodos, Reads
<1>5. r \in Thread /\ r.todo = <<"read">> /\ r.what = Noise
      /\ r.to = IF program = "multipusher" THEN k ELSE conn
  BY <1>4 DEF Thread, Noise
<1>6. k \in Goroutines /\ k # Checker /\ Checker \in Goroutines
  BY GoroutinesDiffer
<1> HIDE DEF k, r
<1>7. /\ thread' \in [Goroutines -> Thread]
      /\ \A h \in Goroutines \ {Checker, k} : thread'[h] = thread[h]
      /\ thread'[Checker] = Rest /\ thread'[k] = r
  BY <1>3, <1>5, <1>6, DeadThread DEF ThreadsFit
<1>8. QED
  BY <1>2, <1>5, <1>7, DeadThread DEF Gets, k

\* What a reader does with its connection.
LEMMA ReaderEffect ==
  ASSUME ThreadsFit, NEW k \in Conns
  PROVE  /\ ReadsOn(k) /\ conn \in Conns \cup {None} =>
              Moves(k) /\ Todo(k) = <<"read">> /\ Gets(k, <<"read">>, thread[k].what, conn)
         /\ ReadFails(k) =>
              /\ Moves(k)
              /\ \/ program = "multipusher" /\ Goes(k, <<"read">>, <<"lock", "close">>)
                 \/ program # "multipusher" /\ Goes(k, <<"read">>, <<"close", "shut", "log">>)
         /\ ReaderCloses(k) /\ program = "multipusher" =>
              /\ Moves(k) /\ Todo(k) \in {<<"close">>, <<"close", "shut", "log">>}
              /\ Goes(k, Todo(k), <<"log">>)
         /\ ReaderCloses(k) /\ program # "multipusher" =>
              /\ Moves(k)
              /\ \/ Goes(k, <<"close", "shut", "log">>, <<"shut", "log">>)
                 \/ Todo(k) = <<"close">> /\ Dies(k)
<1>1. Todo(k) \in AllTodos /\ k \in Goroutines /\ Left(k) = Tail(Todo(k)) /\ thread[k] \in Thread
  BY GoroutinesDiffer DEF Todo, Left, ThreadsFit, Thread
<1>2. /\ {<<"read">>, <<"log">>, <<"shut", "log">>, <<"lock", "close">>, <<"close", "shut", "log">>, <<>>}
           \subseteq AllTodos
      /\ <<"log">> # <<>> /\ <<"shut", "log">> # <<>> /\ <<"lock", "close">> # <<>>
      /\ <<"close", "shut", "log">> # <<>>
  BY DEF AllTodos, CallerTodos, ReaderTodos, Ended, Reads
<1>3. ASSUME ReadsOn(k), conn \in Conns \cup {None}
      PROVE  Moves(k) /\ Todo(k) = <<"read">> /\ Gets(k, <<"read">>, thread[k].what, conn)
  <2>1. Todo(k) # <<>> /\ Head(Todo(k)) = "read"
    BY <1>3 DEF ReadsOn, At, Todo
  <2>2. Todo(k) = <<"read">>
    BY <1>1, <2>1, Tails
  <2>3. thread' = [thread EXCEPT ![k].to = conn]
    BY <1>3 DEF ReadsOn
  <2>4. QED
    BY <1>1, <1>3, <2>2, <2>3 DEF Moves, Gets, ThreadsFit, Thread, Todo
<1>4. ASSUME ReadFails(k)
      PROVE  /\ Moves(k)
             /\ \/ program = "multipusher" /\ Goes(k, <<"read">>, <<"lock", "close">>)
                \/ program # "multipusher" /\ Goes(k, <<"read">>, <<"close", "shut", "log">>)
  <2>1. Todo(k) # <<>> /\ Head(Todo(k)) = "read"
    BY <1>4 DEF ReadFails, At, Todo
  <2>2. Todo(k) = <<"read">>
    BY <1>1, <2>1, Tails
  <2>3. CASE program = "multipusher"
    <3>1. Goto(k, <<"lock", "close">>)
      BY <1>4, <2>3 DEF ReadFails
    <3>2. QED
      BY <1>1, <1>2, <2>2, <2>3, <3>1, GotoEffect
  <2>4. CASE program # "multipusher"
    <3>1. Goto(k, <<"close", "shut", "log">>)
      BY <1>4, <2>4 DEF ReadFails
    <3>2. QED
      BY <1>1, <1>2, <2>2, <2>4, <3>1, GotoEffect
  <2>5. QED
    BY <2>3, <2>4
<1>5. ASSUME ReaderCloses(k)
      PROVE  \/ Todo(k) = <<"close">> /\ Left(k) = <<>>
             \/ Todo(k) = <<"close", "shut", "log">> /\ Left(k) = <<"shut", "log">>
  <2>1. Todo(k) # <<>> /\ Head(Todo(k)) = "close"
    BY <1>5 DEF ReaderCloses, At, Todo
  <2>2. QED
    BY <1>1, <2>1, Tails
<1>6. ASSUME ReaderCloses(k), program = "multipusher"
      PROVE  /\ Moves(k) /\ Todo(k) \in {<<"close">>, <<"close", "shut", "log">>}
             /\ Goes(k, Todo(k), <<"log">>)
  <2>1. Goto(k, <<"log">>)
    BY <1>6 DEF ReaderCloses, LogIt
  <2>2. QED
    BY <1>1, <1>2, <1>5, <1>6, <2>1, GotoEffect
<1>7. ASSUME ReaderCloses(k), program # "multipusher"
      PROVE  /\ Moves(k)
             /\ \/ Goes(k, <<"close", "shut", "log">>, <<"shut", "log">>)
                \/ Todo(k) = <<"close">> /\ Dies(k)
  <2>1. Goto(k, Left(k))
    BY <1>7 DEF ReaderCloses
  <2>2. QED
    BY <1>1, <1>2, <1>5, <1>7, <2>1, GotoEffect
<1>8. QED
  BY <1>3, <1>4, <1>6, <1>7

\* The writer of the backend's file.
LEMMA WriterEffect ==
  ASSUME ThreadsFit, AutoWrite
  PROVE  thread' = thread \/ (Moves("autoWrite") /\ Dies("autoWrite"))
<1>1. CASE thread' = [thread EXCEPT !["autoWrite"] = Dead]
  BY <1>1, DeadThread, GoroutinesDiffer DEF Moves, Dies, ThreadsFit
<1>2. QED
  BY <1>1 DEF AutoWrite

-----------------------------------------------------------------------------
(* The mutex of the remote log.                                            *)

\* What is left to do by a goroutine that has locked the mutex.
AfterLock ==
  {<<"send">>, <<"unlock">>, <<"unlock", "back">>, <<"log", "unlock">>, <<"log", "unlock", "back">>,
   <<"shut", "log", "unlock">>, <<"shut", "log", "unlock", "back">>, <<"set", "log", "spawn">>, <<"close">>}

\* The two programs close a connection in different ways.
OfBackend ==
  {<<"close", "shut", "log">>, <<"shut", "log">>, <<"shut", "log", "unlock">>,
   <<"shut", "log", "unlock", "back">>}
OfMultipusher == {<<"lock", "close">>, <<"close">>}

HeldBy(g) ==
  /\ rmutex = g => Todo(g) \in AfterLock \cup {<<"hang">>}
  /\ Todo(g) = <<"hang">> => stuck
  /\ Todo(g) \in OfBackend => program = "backend"
  /\ Todo(g) \in OfMultipusher => program = "multipusher"

\* checkstatus has a connection in hand from the dialling to the start of its reader.
CheckerConn ==
  /\ Todo(Checker) \in Making =>
       thread[Checker].to \in Conns /\ Todo(thread[Checker].to) = <<"dead">>
  /\ Todo(Checker) \in Made => conn = thread[Checker].to
  /\ thread[Checker].to # None => Todo(Checker) \in Making \cup {<<"hang">>}

Held ==
  /\ program \in {"multipusher", "backend"}
  /\ conn \in Conns \cup {None} /\ open \subseteq Conns
  /\ rmutex \in Goroutines \cup {None}
  /\ \A g \in Goroutines : HeldBy(g)
  /\ CheckerConn

\* Which todos are of which kind.
LEMMA Kinds ==
  /\ <<"log", "unlock">> \in AfterLock /\ <<"log", "unlock", "back">> \in AfterLock
     /\ <<"send">> \in AfterLock /\ <<"close">> \in AfterLock
     /\ <<"set", "log", "spawn">> \in AfterLock /\ <<"unlock">> \in AfterLock
     /\ <<"unlock", "back">> \in AfterLock /\ <<"shut", "log", "unlock">> \in AfterLock
     /\ <<"shut", "log", "unlock", "back">> \in AfterLock
  /\ <<>> \notin AfterLock /\ <<"log">> \notin AfterLock /\ <<"log", "dial">> \notin AfterLock
     /\ <<"log", "spawn">> \notin AfterLock /\ <<"lock", "send">> \notin AfterLock
     /\ <<"lock", "close">> \notin AfterLock /\ <<"lock", "set", "log", "spawn">> \notin AfterLock
     /\ <<"close", "shut", "log">> \notin AfterLock /\ <<"back">> \notin AfterLock
     /\ <<"shut", "log">> \notin AfterLock /\ <<"dial">> \notin AfterLock
     /\ <<"spawn">> \notin AfterLock /\ <<"read">> \notin AfterLock /\ <<"hang">> \notin AfterLock
     /\ <<"dead">> \notin AfterLock
  /\ <<"close", "shut", "log">> \in OfBackend /\ <<"shut", "log">> \in OfBackend
     /\ <<"shut", "log", "unlock">> \in OfBackend
     /\ <<"shut", "log", "unlock", "back">> \in OfBackend
  /\ <<>> \notin OfBackend /\ <<"log">> \notin OfBackend /\ <<"log", "unlock">> \notin OfBackend
     /\ <<"log", "unlock", "back">> \notin OfBackend /\ <<"log", "dial">> \notin OfBackend
     /\ <<"log", "spawn">> \notin OfBackend /\ <<"lock", "send">> \notin OfBackend
     /\ <<"lock", "close">> \notin OfBackend /\ <<"lock", "set", "log", "spawn">> \notin OfBackend
     /\ <<"send">> \notin OfBackend /\ <<"close">> \notin OfBackend
     /\ <<"set", "log", "spawn">> \notin OfBackend /\ <<"unlock">> \notin OfBackend
     /\ <<"unlock", "back">> \notin OfBackend /\ <<"back">> \notin OfBackend
     /\ <<"dial">> \notin OfBackend /\ <<"spawn">> \notin OfBackend /\ <<"read">> \notin OfBackend
     /\ <<"hang">> \notin OfBackend /\ <<"dead">> \notin OfBackend
  /\ <<"lock", "close">> \in OfMultipusher /\ <<"close">> \in OfMultipusher
  /\ <<>> \notin OfMultipusher /\ <<"log">> \notin OfMultipusher
     /\ <<"log", "unlock">> \notin OfMultipusher /\ <<"log", "unlock", "back">> \notin OfMultipusher
     /\ <<"log", "dial">> \notin OfMultipusher /\ <<"log", "spawn">> \notin OfMultipusher
     /\ <<"lock", "send">> \notin OfMultipusher
     /\ <<"lock", "set", "log", "spawn">> \notin OfMultipusher /\ <<"send">> \notin OfMultipusher
     /\ <<"close", "shut", "log">> \notin OfMultipusher
     /\ <<"set", "log", "spawn">> \notin OfMultipusher /\ <<"unlock">> \notin OfMultipusher
     /\ <<"unlock", "back">> \notin OfMultipusher /\ <<"back">> \notin OfMultipusher
     /\ <<"shut", "log">> \notin OfMultipusher /\ <<"shut", "log", "unlock">> \notin OfMultipusher
     /\ <<"shut", "log", "unlock", "back">> \notin OfMultipusher /\ <<"dial">> \notin OfMultipusher
     /\ <<"spawn">> \notin OfMultipusher /\ <<"read">> \notin OfMultipusher
     /\ <<"hang">> \notin OfMultipusher /\ <<"dead">> \notin OfMultipusher
  /\ <<"log", "spawn">> \in Making /\ <<"lock", "set", "log", "spawn">> \in Making
     /\ <<"set", "log", "spawn">> \in Making /\ <<"spawn">> \in Making
  /\ <<>> \notin Making /\ <<"log">> \notin Making /\ <<"log", "unlock">> \notin Making
     /\ <<"log", "unlock", "back">> \notin Making /\ <<"log", "dial">> \notin Making
     /\ <<"lock", "send">> \notin Making /\ <<"lock", "close">> \notin Making
     /\ <<"send">> \notin Making /\ <<"close">> \notin Making
     /\ <<"close", "shut", "log">> \notin Making /\ <<"unlock">> \notin Making
     /\ <<"unlock", "back">> \notin Making /\ <<"back">> \notin Making
     /\ <<"shut", "log">> \notin Making /\ <<"shut", "log", "unlock">> \notin Making
     /\ <<"shut", "log", "unlock", "back">> \notin Making /\ <<"dial">> \notin Making
     /\ <<"read">> \notin Making /\ <<"hang">> \notin Making /\ <<"dead">> \notin Making
  /\ <<"log", "spawn">> \in Made /\ <<"spawn">> \in Made
  /\ <<>> \notin Made /\ <<"log">> \notin Made /\ <<"log", "unlock">> \notin Made
     /\ <<"log", "unlock", "back">> \notin Made /\ <<"log", "dial">> \notin Made
     /\ <<"lock", "send">> \notin Made /\ <<"lock", "close">> \notin Made
     /\ <<"lock", "set", "log", "spawn">> \notin Made /\ <<"send">> \notin Made
     /\ <<"close">> \notin Made /\ <<"close", "shut", "log">> \notin Made
     /\ <<"set", "log", "spawn">> \notin Made /\ <<"unlock">> \notin Made
     /\ <<"unlock", "back">> \notin Made /\ <<"back">> \notin Made /\ <<"shut", "log">> \notin Made
     /\ <<"shut", "log", "unlock">> \notin Made /\ <<"shut", "log", "unlock", "back">> \notin Made
     /\ <<"dial">> \notin Made /\ <<"read">> \notin Made /\ <<"hang">> \notin Made
     /\ <<"dead">> \notin Made
  /\ <<>> # <<"hang">> /\ <<"log">> # <<"hang">> /\ <<"log", "unlock">> # <<"hang">>
     /\ <<"log", "unlock", "back">> # <<"hang">> /\ <<"log", "dial">> # <<"hang">>
     /\ <<"log", "spawn">> # <<"hang">> /\ <<"lock", "send">> # <<"hang">>
     /\ <<"lock", "close">> # <<"hang">> /\ <<"lock", "set", "log", "spawn">> # <<"hang">>
     /\ <<"send">> # <<"hang">> /\ <<"close">> # <<"hang">>
     /\ <<"close", "shut", "log">> # <<"hang">> /\ <<"set", "log", "spawn">> # <<"hang">>
     /\ <<"unlock">> # <<"hang">> /\ <<"unlock", "back">> # <<"hang">> /\ <<"back">> # <<"hang">>
     /\ <<"shut", "log">> # <<"hang">> /\ <<"shut", "log", "unlock">> # <<"hang">>
     /\ <<"shut", "log", "unlock", "back">> # <<"hang">> /\ <<"dial">> # <<"hang">>
     /\ <<"spawn">> # <<"hang">> /\ <<"read">> # <<"hang">> /\ <<"dead">> # <<"hang">>
  BY DEF AfterLock, OfBackend, OfMultipusher, Making, Makes, Made

\* A step of g keeps all this if it is right for g.
LEMMA MoveKeepsHeld ==
  ASSUME ThreadsFit, Held, NEW g \in Goroutines, Moves(g), Fits(g, Todo(g)'),
         program' = program, open' \subseteq Conns, stuck => stuck',
         queue' \in Seq(Nat), next' \in Nat, next' # Noise,
         rmutex' \in {rmutex, None, g}, HeldBy(g)',
         \/ g = Checker /\ CheckerConn' /\ conn' \in Conns \cup {None}
         \/ g # Checker /\ conn' = conn /\ (Todo(g) = <<"dead">> => Todo(g)' = <<"dead">>)
  PROVE  ThreadsFit' /\ Held'
<1>1. ThreadsFit'
  <2>1. \A h \in Goroutines : Fits(h, Todo(h)')
    BY DEF Moves, ThreadsFit, Todo
  <2>2. \A i \in 1..Len(queue') : queue'[i] \in Nat
    OBVIOUS
  <2>3. QED
    BY <2>1, <2>2 DEF ThreadsFit, Moves
<1>2. \A h \in Goroutines : HeldBy(h)'
  <2>1. ASSUME NEW h \in Goroutines, h # g
        PROVE  HeldBy(h)'
    <3>1. Todo(h)' = Todo(h) /\ HeldBy(h)
      BY <2>1 DEF Moves, Todo, Held
    <3>2. rmutex' = h => rmutex = h
      BY <2>1, GoroutinesDiffer
    <3>3. QED
      BY <3>1, <3>2 DEF HeldBy
  <2>2. QED
    BY <2>1
<1>3. CheckerConn'
  <2>1. CASE g # Checker /\ conn' = conn /\ (Todo(g) = <<"dead">> => Todo(g)' = <<"dead">>)
    <3>1. thread'[Checker] = thread[Checker]
      BY <2>1, GoroutinesDiffer DEF Moves
    <3>2. thread[Checker].to \in Conns => thread[Checker].to \in Goroutines
      BY GoroutinesDiffer
    <3>3. thread[Checker].to \in Conns /\ Todo(thread[Checker].to) = <<"dead">> =>
            Todo(thread[Checker].to)' = <<"dead">>
      BY <2>1, <3>1, <3>2 DEF Moves, Todo
    <3>4. QED
      BY <2>1, <3>1, <3>3 DEF Held, CheckerConn, Todo
  <2>2. QED
    BY <2>1
<1>4. conn' \in Conns \cup {None} /\ rmutex' \in Goroutines \cup {None}
  BY DEF Held
<1>5. QED
  BY <1>1, <1>2, <1>3, <1>4 DEF Held

\* A goroutine that does its next step, or dies, stays one of its kind.
LEMMA FitsOn ==
  ASSUME NEW g \in Goroutines
  PROVE  /\ g \notin Conns /\ Fits(g, <<"log">>) => Fits(g, <<>>)
         /\ Fits(g, <<"log", "unlock">>) => g = Checker
         /\ Fits(g, <<"log", "unlock", "back">>) => g = Sender
         /\ Fits(g, <<"log", "dial">>) => g = Checker
         /\ Fits(g, <<"log", "spawn">>) => g = Checker
         /\ Fits(g, <<"lock", "send">>) => (g = Sender \/ g = Checker)
         /\ Fits(g, <<"lock", "close">>) => g \in Conns
         /\ Fits(g, <<"close">>) => g \in Conns
         /\ Fits(g, <<"close", "shut", "log">>) => g \in Conns
         /\ Fits(g, <<"lock", "set", "log", "spawn">>) => g = Checker
         /\ Fits(g, <<"set", "log", "spawn">>) => g = Checker
         /\ Fits(g, <<"unlock">>) => (g = Sender \/ g = Checker)
         /\ Fits(g, <<"unlock", "back">>) => g = Sender
         /\ Fits(g, <<"shut", "log">>) => g \in Conns
         /\ Fits(g, <<"shut", "log", "unlock">>) => g = Checker
         /\ Fits(g, <<"shut", "log", "unlock", "back">>) => g = Sender
         /\ Fits(g, <<"dead">>)
         /\ g # "autoWrite" => Fits(g, <<"hang">>)
         /\ \A t \in AllTodos : Fits("autoWrite", t) => t \in {<<>>, <<"dead">>}
<1> USE DEF Fits, CallerTodos, SenderTodos, CheckerTodos, ReaderTodos, WriterTodos, Ended, Reads,
            Begins, Makes, Made, Stops
<1>1. g \notin Conns /\ Fits(g, <<"log">>) => Fits(g, <<>>)
  OBVIOUS
<1>2. Fits(g, <<"log", "unlock">>) => g = Checker
  BY GoroutinesDiffer
<1>3. Fits(g, <<"log", "unlock", "back">>) => g = Sender
  BY GoroutinesDiffer
<1>4. Fits(g, <<"log", "dial">>) => g = Checker
  BY GoroutinesDiffer
<1>5. Fits(g, <<"log", "spawn">>) => g = Checker
  BY GoroutinesDiffer
<1>6. Fits(g, <<"lock", "send">>) => (g = Sender \/ g = Checker)
  BY GoroutinesDiffer
<1>7. Fits(g, <<"lock", "close">>) => g \in Conns
  BY GoroutinesDiffer
<1>8. Fits(g, <<"close">>) => g \in Conns
  BY GoroutinesDiffer
<1>9. Fits(g, <<"close", "shut", "log">>) => g \in Conns
  BY GoroutinesDiffer
<1>10. Fits(g, <<"lock", "set", "log", "spawn">>) => g = Checker
  BY GoroutinesDiffer
<1>11. Fits(g, <<"set", "log", "spawn">>) => g = Checker
  BY GoroutinesDiffer
<1>12. Fits(g, <<"unlock">>) => (g = Sender \/ g = Checker)
  BY GoroutinesDiffer
<1>13. Fits(g, <<"unlock", "back">>) => g = Sender
  BY GoroutinesDiffer
<1>14. Fits(g, <<"shut", "log">>) => g \in Conns
  BY GoroutinesDiffer
<1>15. Fits(g, <<"shut", "log", "unlock">>) => g = Checker
  BY GoroutinesDiffer
<1>16. Fits(g, <<"shut", "log", "unlock", "back">>) => g = Sender
  BY GoroutinesDiffer
<1>17. Fits(g, <<"dead">>)
  OBVIOUS
<1>18. g # "autoWrite" => Fits(g, <<"hang">>)
  OBVIOUS
<1>19. \A t \in AllTodos : Fits("autoWrite", t) => t \in {<<>>, <<"dead">>}
  OBVIOUS
<1> HIDE DEF Fits
<1>20. QED
  BY <1>1, <1>2, <1>3, <1>4, <1>5, <1>6, <1>7, <1>8, <1>9, <1>10, <1>11, <1>12, <1>13, <1>14,
     <1>15, <1>16, <1>17, <1>18, <1>19

\* The step of checkstatus leaves the readers alone.
LEMMA CheckerMoves ==
  ASSUME Moves(Checker)
  PROVE  \A k \in Conns : Todo(k)' = Todo(k)
  BY GoroutinesDiffer DEF Moves, Todo

LEMMA HeldLog ==
  ASSUME ThreadsFit, Held, NEW g \in Goroutines, AddLog(g) \/ AddLogLater(g)
  PROVE  ThreadsFit' /\ Held'
<1>1. /\ Moves(g)
      /\ \/ g \in Conns /\ Todo(g) = <<"log">> /\ Dies(g)
         \/ g \notin Conns /\ Goes(g, <<"log">>, <<>>)
         \/ Goes(g, <<"log", "unlock">>, <<"unlock">>)
         \/ Goes(g, <<"log", "unlock", "back">>, <<"unlock", "back">>)
         \/ Goes(g, <<"log", "dial">>, <<"dial">>)
         \/ Goes(g, <<"log", "spawn">>, <<"spawn">>)
         \/ stuck /\ Goes(g, Todo(g), <<"hang">>)
         \/ Dies(g) /\ stuck' /\ rmutex' # g
      /\ Head(Todo(g)) = "log" /\ Todo(g) \in AllTodos \ {<<>>}
      /\ rmutex' = rmutex \/ (rmutex = g /\ rmutex' = None)
      /\ stuck => stuck'
  BY LogEffect
<1>2. /\ program' = program /\ conn' = conn /\ open' \subseteq Conns
      /\ queue' \in Seq(Nat) /\ next' \in Nat /\ next' # Noise
  BY PutEffect DEF AddLog, AddLogLater, link, Held
<1>3. Fits(g, Todo(g)) /\ HeldBy(g)
  BY DEF ThreadsFit, Held
<1>4. g # "autoWrite" /\ Todo(g) # <<"dead">>
  BY <1>1, <1>3, FitsOn
<1>5. Fits(g, Todo(g)')
  <2>1. /\ Fits("autoWrite", <<"dead">>) 
        /\ Fits(Checker, <<"unlock">>) /\ Fits(Sender, <<"unlock", "back">>)
        /\ Fits(Checker, <<"dial">>) /\ Fits(Checker, <<"spawn">>)
    BY GoroutinesDiffer DEF Fits, WriterTodos, CheckerTodos, SenderTodos, Begins, Made
  <2>2. QED
    BY <1>1, <1>3, <1>4, <2>1, FitsOn DEF Goes, Dies, Todo
<1>6. HeldBy(g)'
  BY <1>1, <1>2, <1>3, GoroutinesDiffer, Kinds DEF HeldBy, Goes, Dies, Todo
<1>7. ASSUME g = Checker
      PROVE  CheckerConn'
  <2>1. CheckerConn /\ \A k \in Conns : Todo(k)' = Todo(k)
    BY <1>1, <1>7, CheckerMoves DEF Held
  <2>2. conn' = conn
    BY <1>2
  <2>3. \/ thread'[g].to = thread[g].to
        \/ Dies(g)
    BY <1>1 DEF Goes
  <2>4. Todo(g)' \in Making \cup {<<"hang">>} \/ thread'[g].to = None
    <3>1. Todo(g) \in Making => Todo(g)' = <<"spawn">> \/ Todo(g)' = <<"hang">> \/ Dies(g)
      BY <1>1, Kinds DEF Goes, Todo
    <3>2. thread[g].to # None => Todo(g) \in Making
      BY <1>1, <1>7, <2>1, Kinds DEF CheckerConn
    <3>3. QED
      BY <2>3, <3>1, <3>2, Kinds DEF Dies
  <2>5. Todo(g)' \in Making => thread'[g].to = thread[g].to /\ Todo(g) \in Made
    BY <1>1, Kinds DEF Goes, Dies, Todo
  <2>6. QED
    BY <1>7, <2>1, <2>2, <2>4, <2>5, GoroutinesDiffer, Kinds DEF CheckerConn, Making
<1>8. conn' \in Conns \cup {None} /\ rmutex' \in {rmutex, None, g}
  BY <1>1, <1>2 DEF Held
<1>9. QED
  BY <1>1, <1>2, <1>4, <1>5, <1>6, <1>7, <1>8, MoveKeepsHeld

LEMMA HeldShorten ==
  ASSUME ThreadsFit, Held, NEW g \in Goroutines, Lock(g) \/ Unlock(g) \/ ShutConn(g) \/ SetConn(g)
  PROVE  ThreadsFit' /\ Held'
<1>1. /\ program' = program /\ queue' \in Seq(Nat) /\ next' \in Nat /\ next' # Noise /\ stuck' = stuck
      /\ open' \subseteq Conns
  BY DEF Lock, Unlock, ShutConn, SetConn, link, file, counts, ThreadsFit, Held
<1>2. Fits(g, Todo(g)) /\ HeldBy(g)
  BY DEF ThreadsFit, Held
<1>3. /\ Fits(Sender, <<"send">>) /\ Fits(Checker, <<"send">>) /\ Fits(Checker, <<"set", "log", "spawn">>)
      /\ Fits(Sender, <<>>) /\ Fits(Checker, <<>>) /\ Fits(Sender, <<"back">>)
      /\ Fits(Checker, <<"log", "unlock">>) /\ Fits(Sender, <<"log", "unlock", "back">>)
      /\ Fits(Checker, <<"log", "spawn">>)
      /\ \A k \in Conns : Fits(k, <<"close">>) /\ Fits(k, <<"log">>)
  BY GoroutinesDiffer DEF Fits, CheckerTodos, SenderTodos, ReaderTodos, Makes, Made, Ended, Reads
<1>4. CASE Lock(g)
  <2>1. /\ Moves(g)
        /\ \/ Goes(g, <<"lock", "send">>, <<"send">>)
           \/ Goes(g, <<"lock", "close">>, <<"close">>)
           \/ Goes(g, <<"lock", "set", "log", "spawn">>, <<"set", "log", "spawn">>)
    BY <1>4, ShortenEffect
  <2>2. rmutex' = g /\ conn' = conn
    BY <1>4 DEF Lock, link
  <2>3. Fits(g, Todo(g)') /\ Todo(g) # <<"dead">>
    <3>1. CASE Goes(g, <<"lock", "send">>, <<"send">>)
      BY <1>2, <1>3, <3>1, FitsOn DEF Goes, Todo
    <3>2. CASE Goes(g, <<"lock", "close">>, <<"close">>)
      BY <1>2, <1>3, <3>2, FitsOn DEF Goes, Todo
    <3>3. CASE Goes(g, <<"lock", "set", "log", "spawn">>, <<"set", "log", "spawn">>)
      BY <1>2, <1>3, <3>3, FitsOn DEF Goes, Todo
    <3>4. QED
      BY <2>1, <3>1, <3>2, <3>3
  <2>4. HeldBy(g)'
    BY <1>1, <1>2, <2>1, <2>2, Kinds DEF HeldBy, Goes, Todo
  <2>5. ASSUME g = Checker
        PROVE  CheckerConn'
    <3>1. CheckerConn /\ \A k \in Conns : Todo(k)' = Todo(k)
      BY <2>1, <2>5, CheckerMoves DEF Held
    <3>2. QED
      BY <2>1, <2>2, <2>5, <3>1, Kinds DEF CheckerConn, Goes, Todo
  <2>6. conn' \in Conns \cup {None}
    BY <2>2 DEF Held
  <2>7. QED
    BY <1>1, <2>1, <2>2, <2>3, <2>4, <2>5, <2>6, MoveKeepsHeld
<1>5. CASE Unlock(g)
  <2>1. /\ Moves(g)
        /\ Goes(g, <<"unlock">>, <<>>) \/ Goes(g, <<"unlock", "back">>, <<"back">>)
    BY <1>5, ShortenEffect
  <2>2. rmutex' = None /\ conn' = conn
    BY <1>5 DEF Unlock, link
  <2>3. Fits(g, Todo(g)') /\ Todo(g) # <<"dead">>
    <3>1. CASE Goes(g, <<"unlock">>, <<>>)
      BY <1>2, <1>3, <2>1, <3>1, FitsOn DEF Goes, Todo
    <3>2. CASE Goes(g, <<"unlock", "back">>, <<"back">>)
      BY <1>2, <1>3, <3>2, FitsOn DEF Goes, Todo
    <3>3. QED
      BY <2>1, <3>1, <3>2
  <2>4. HeldBy(g)'
    BY <1>1, <1>2, <2>1, <2>2, GoroutinesDiffer, Kinds DEF HeldBy, Goes, Todo
  <2>5. ASSUME g = Checker
        PROVE  CheckerConn'
    <3>1. CheckerConn /\ \A k \in Conns : Todo(k)' = Todo(k)
      BY <2>1, <2>5, CheckerMoves DEF Held
    <3>2. QED
      BY <2>1, <2>2, <2>5, <3>1, Kinds DEF CheckerConn, Goes, Todo
  <2>6. conn' \in Conns \cup {None}
    BY <2>2 DEF Held
  <2>7. QED
    BY <1>1, <2>1, <2>2, <2>3, <2>4, <2>5, <2>6, MoveKeepsHeld
<1>6. CASE ShutConn(g)
  <2>1. /\ Moves(g)
        /\ \/ Goes(g, <<"shut", "log">>, <<"log">>)
           \/ Goes(g, <<"shut", "log", "unlock">>, <<"log", "unlock">>)
           \/ Goes(g, <<"shut", "log", "unlock", "back">>, <<"log", "unlock", "back">>)
    BY <1>6, ShortenEffect
  <2>2. rmutex' = rmutex /\ conn' = conn
    BY <1>6 DEF ShutConn
  <2>3. Fits(g, Todo(g)') /\ Todo(g) # <<"dead">>
    <3>1. CASE Goes(g, <<"shut", "log">>, <<"log">>)
      BY <1>2, <1>3, <3>1, FitsOn DEF Goes, Todo
    <3>2. CASE Goes(g, <<"shut", "log", "unlock">>, <<"log", "unlock">>)
      BY <1>2, <1>3, <3>2, FitsOn DEF Goes, Todo
    <3>3. CASE Goes(g, <<"shut", "log", "unlock", "back">>, <<"log", "unlock", "back">>)
      BY <1>2, <1>3, <3>3, FitsOn DEF Goes, Todo
    <3>4. QED
      BY <2>1, <3>1, <3>2, <3>3
  <2>4. HeldBy(g)'
    BY <1>1, <1>2, <2>1, <2>2, Kinds DEF HeldBy, Goes, Todo
  <2>5. ASSUME g = Checker
        PROVE  CheckerConn'
    <3>1. CheckerConn /\ \A k \in Conns : Todo(k)' = Todo(k)
      BY <2>1, <2>5, CheckerMoves DEF Held
    <3>2. QED
      BY <2>1, <2>2, <2>5, <3>1, Kinds DEF CheckerConn, Goes, Todo
  <2>6. conn' \in Conns \cup {None}
    BY <2>2 DEF Held
  <2>7. QED
    BY <1>1, <2>1, <2>2, <2>3, <2>4, <2>5, <2>6, MoveKeepsHeld
<1>7. CASE SetConn(g)
  <2>1. Moves(g) /\ Goes(g, <<"set", "log", "spawn">>, <<"log", "spawn">>)
    BY <1>7, ShortenEffect
  <2>2. rmutex' = None /\ conn' = thread[g].to
    BY <1>7 DEF SetConn
  <2>3. g = Checker
    BY <1>2, <2>1, FitsOn DEF Goes
  <2>4. Fits(g, Todo(g)')
    BY <1>3, <2>1, <2>3 DEF Goes, Todo
  <2>5. HeldBy(g)'
    BY <1>1, <1>2, <2>1, <2>2, GoroutinesDiffer, Kinds DEF HeldBy, Goes, Todo
  <2>6. CheckerConn' /\ conn' \in Conns \cup {None}
    <3>1. CheckerConn /\ \A k \in Conns : Todo(k)' = Todo(k)
      BY <2>1, <2>3, CheckerMoves DEF Held
    <3>2. QED
      BY <2>1, <2>2, <2>3, <3>1, Kinds DEF CheckerConn, Goes, Todo
  <2>7. QED
    BY <1>1, <2>1, <2>2, <2>3, <2>4, <2>5, <2>6, MoveKeepsHeld
<1>8. QED
  BY <1>4, <1>5, <1>6, <1>7

LEMMA HeldSend ==
  ASSUME ThreadsFit, Held, NEW g \in Goroutines, SendWorks(g) \/ SendFails(g)
  PROVE  ThreadsFit' /\ Held'
<1>1. /\ program' = program /\ queue' \in Seq(Nat) /\ next' \in Nat /\ next' # Noise /\ stuck' = stuck
      /\ rmutex' = rmutex
  BY DEF SendWorks, SendFails, file, ThreadsFit
<1>2. conn' = conn /\ open' \subseteq Conns
  BY DEF SendWorks, SendFails, CloseLocked, Closed, Forgotten, link, Held
<1>3. /\ Moves(g) /\ Todo(g) = <<"send">> /\ (g = Sender \/ g = Checker)
      /\ \/ Gets(g, <<"unlock">>, Noise, None)
         \/ /\ program = "multipusher"
            /\ \/ g = Sender /\ Goes(g, <<"send">>, <<"log", "unlock", "back">>)
               \/ g = Checker /\ Goes(g, <<"send">>, <<"log", "unlock">>)
         \/ /\ program # "multipusher"
            /\ \/ g = Sender /\ Goes(g, <<"send">>, <<"shut", "log", "unlock", "back">>)
               \/ g = Checker /\ Goes(g, <<"send">>, <<"shut", "log", "unlock">>)
  BY SendEffect
<1>4. HeldBy(g) /\ program \in {"multipusher", "backend"} /\ Todo(g) # <<"dead">>
  BY <1>3 DEF Held
<1>5. Fits(g, Todo(g)')
  <2>1. /\ Fits(Sender, <<"unlock">>) /\ Fits(Checker, <<"unlock">>)
        /\ Fits(Sender, <<"log", "unlock", "back">>) /\ Fits(Checker, <<"log", "unlock">>)
        /\ Fits(Sender, <<"shut", "log", "unlock", "back">>) /\ Fits(Checker, <<"shut", "log", "unlock">>)
    BY GoroutinesDiffer DEF Fits, CheckerTodos, SenderTodos
  <2>2. QED
    BY <1>3, <2>1 DEF Gets, Goes, Todo
<1>6. HeldBy(g)'
  BY <1>1, <1>3, <1>4, Kinds DEF HeldBy, Gets, Goes, Todo
<1>7. ASSUME g = Checker
      PROVE  CheckerConn'
  <2>1. CheckerConn
    BY DEF Held
  <2>2. QED
    BY <1>3, <1>7, <2>1, Kinds DEF CheckerConn, Gets, Goes, Todo
<1>8. conn' \in Conns \cup {None}
  BY <1>2 DEF Held
<1>9. QED
  BY <1>1, <1>2, <1>3, <1>4, <1>5, <1>6, <1>7, <1>8, MoveKeepsHeld

LEMMA HeldBegin ==
  ASSUME ThreadsFit, Held,
         PopFront \/ PutBack \/ KeepAlive \/ Connect \/ \E c \in Callers : Log(c)
  PROVE  ThreadsFit' /\ Held'
<1>1. /\ program' = program /\ next' \in Nat /\ next' # Noise /\ stuck' = stuck
      /\ rmutex' = rmutex /\ conn' = conn /\ open' \subseteq Conns /\ conn' \in Conns \cup {None}
  BY DEF PopFront, PutBack, KeepAlive, Connect, Log, file, link, counts, ThreadsFit, Held
<1>2. queue' \in Seq(Nat)
  <2>1. PopFront => Tail(queue) \in Seq(Nat)
    BY HeadTailProperties DEF PopFront, ThreadsFit
  <2>2. <<thread[Sender].what>> \o queue \in Seq(Nat)
    <3>1. <<thread[Sender].what>> \in Seq(Nat)
      BY GoroutinesDiffer DEF ThreadsFit, Thread
    <3>2. QED
      BY <3>1, ConcatProperties DEF ThreadsFit
  <2>3. QED
    BY <2>1, <2>2 DEF PopFront, PutBack, KeepAlive, Connect, Log, PushFront, ThreadsFit
<1>3. PICK g \in Goroutines :
        /\ Moves(g)
        /\ \/ g = Sender /\ Todo(g) = <<>> /\ Gets(g, <<"lock", "send">>, Head(queue), None)
           \/ g = Sender /\ Todo(g) = <<"back">> /\ Gets(g, <<>>, Noise, None)
           \/ g = Checker /\ Todo(g) = <<>> /\ Gets(g, <<"lock", "send">>, Noise, None)
           \/ g = Checker /\ Goes(g, <<>>, <<"log", "dial">>)
           \/ g \in Callers /\ Goes(g, <<>>, <<"log">>)
  BY BeginEffect, GoroutinesDiffer
<1>4. Fits(g, Todo(g)')
  <2>1. /\ Fits(Sender, <<>>) /\ Fits(Sender, <<"lock", "send">>) /\ Fits(Checker, <<"lock", "send">>)
        /\ Fits(Checker, <<"log", "dial">>) /\ \A c \in Callers : Fits(c, <<"log">>)
    BY GoroutinesDiffer DEF Fits, CheckerTodos, SenderTodos, CallerTodos, Begins
  <2>2. QED
    BY <1>3, <2>1 DEF Gets, Goes, Todo
<1>5. HeldBy(g)'
  <2>1. HeldBy(g)
    BY DEF Held
  <2>2. QED
    BY <1>1, <1>3, <2>1, Kinds DEF HeldBy, Gets, Goes, Todo
<1>6. ASSUME g = Checker
      PROVE  CheckerConn'
  <2>1. CheckerConn
    BY DEF Held
  <2>2. QED
    BY <1>3, <1>6, <2>1, GoroutinesDiffer, Kinds DEF CheckerConn, Gets, Goes, Todo
<1>7. Todo(g) # <<"dead">>
  BY <1>3 DEF Goes
<1>8. QED
  BY <1>1, <1>2, <1>3, <1>4, <1>5, <1>6, <1>7, MoveKeepsHeld

LEMMA HeldDial ==
  ASSUME ThreadsFit, Held, Dial
  PROVE  ThreadsFit' /\ Held'
<1>1. /\ program' = program /\ next' \in Nat /\ next' # Noise /\ stuck' = stuck /\ queue' \in Seq(Nat)
      /\ rmutex' = rmutex /\ conn' = conn /\ conn' \in Conns \cup {None}
  BY DEF Dial, file, ThreadsFit, Held
<1>2. /\ Moves(Checker) /\ Todo(Checker) = <<"dial">>
      /\ \/ Goes(Checker, <<"dial">>, <<"log">>) /\ UNCHANGED open
         \/ \E k \in Conns \ (open \cup {conn}) :
              /\ thread[k] = Dead /\ open' = open \cup {k}
              /\ Gets(Checker, <<"lock", "set", "log", "spawn">>, Noise, k)
  BY DialEffect
<1>3. open' \subseteq Conns
  BY <1>2 DEF Held
<1>4. Fits(Checker, Todo(Checker)')
  <2>1. Fits(Checker, <<"log">>) /\ Fits(Checker, <<"lock", "set", "log", "spawn">>)
    BY GoroutinesDiffer DEF Fits, CheckerTodos, Makes
  <2>2. QED
    BY <1>2, <2>1 DEF Gets, Goes, Todo
<1>5. HeldBy(Checker)'
  <2>1. HeldBy(Checker)
    BY GoroutinesDiffer DEF Held
  <2>2. QED
    BY <1>1, <1>2, <2>1, Kinds DEF HeldBy, Gets, Goes, Todo
<1>6. CheckerConn'
  <2>1. CheckerConn /\ \A k \in Conns : Todo(k)' = Todo(k)
    BY <1>2, CheckerMoves DEF Held
  <2>2. CASE Goes(Checker, <<"dial">>, <<"log">>)
    BY <1>2, <2>1, <2>2, Kinds DEF CheckerConn, Goes, Todo
  <2>3. ASSUME NEW k \in Conns, thread[k] = Dead, Gets(Checker, <<"lock", "set", "log", "spawn">>, Noise, k)
        PROVE  CheckerConn'
    <3>1. Todo(k) = <<"dead">>
      BY <2>3, DeadThread DEF Todo
    <3>2. QED
      BY <2>1, <2>3, <3>1, Kinds DEF CheckerConn, Gets, Todo, Making
  <2>4. QED
    BY <1>2, <2>2, <2>3
<1>7. QED
  BY <1>1, <1>2, <1>3, <1>4, <1>5, <1>6, MoveKeepsHeld, GoroutinesDiffer

LEMMA HeldReader ==
  ASSUME ThreadsFit, Held, NEW k \in Conns, ReadsOn(k) \/ ReadFails(k) \/ ReaderCloses(k)
  PROVE  ThreadsFit' /\ Held'
<1>1. /\ program' = program /\ next' \in Nat /\ next' # Noise /\ stuck' = stuck /\ queue' \in Seq(Nat)
      /\ rmutex' \in {rmutex, None, k} /\ conn' = conn /\ open' \subseteq Conns
  BY DEF ReadsOn, ReadFails, ReaderCloses, Closed, Forgotten, file, link, counts, ThreadsFit, Held
<1>2. k \in Goroutines /\ k # Checker /\ HeldBy(k) /\ conn \in Conns \cup {None}
      /\ program \in {"multipusher", "backend"}
  BY GoroutinesDiffer DEF Held
<1>3. CASE ReadsOn(k) \/ ReadFails(k)
  <2>1. /\ Moves(k) /\ Todo(k) = <<"read">>
        /\ \/ Gets(k, <<"read">>, thread[k].what, conn)
           \/ program = "multipusher" /\ Goes(k, <<"read">>, <<"lock", "close">>)
           \/ program # "multipusher" /\ Goes(k, <<"read">>, <<"close", "shut", "log">>)
    BY <1>2, <1>3, ReaderEffect DEF Goes
  <2>2. rmutex' = rmutex
    BY <1>3 DEF ReadsOn, ReadFails
  <2>3. Fits(k, Todo(k)')
    <3>1. Fits(k, <<"read">>) /\ Fits(k, <<"lock", "close">>) /\ Fits(k, <<"close", "shut", "log">>)
      BY GoroutinesDiffer DEF Fits, ReaderTodos, Reads
    <3>2. QED
      BY <2>1, <3>1 DEF Gets, Goes, Todo
  <2>4. HeldBy(k)'
    BY <1>1, <1>2, <2>1, <2>2, Kinds DEF HeldBy, Gets, Goes, Todo
  <2>5. Todo(k) # <<"dead">>
    BY <2>1
  <2>6. QED
    BY <1>1, <1>2, <2>1, <2>3, <2>4, <2>5, MoveKeepsHeld
<1>4. CASE ReaderCloses(k)
  <2>1. /\ Moves(k)
        /\ \/ /\ program = "multipusher" /\ Todo(k) \in {<<"close">>, <<"close", "shut", "log">>}
              /\ Goes(k, Todo(k), <<"log">>) /\ rmutex' = None
           \/ /\ program # "multipusher" /\ rmutex' = rmutex
              /\ \/ Goes(k, <<"close", "shut", "log">>, <<"shut", "log">>)
                 \/ Todo(k) = <<"close">> /\ Dies(k)
    BY <1>4, ReaderEffect DEF ReaderCloses
  <2>2. Fits(k, Todo(k)')
    <3>1. Fits(k, <<"log">>) /\ Fits(k, <<"shut", "log">>) /\ Fits(k, <<"dead">>)
      BY GoroutinesDiffer DEF Fits, ReaderTodos, Reads, Ended, Stops
    <3>2. QED
      BY <2>1, <3>1 DEF Dies, Goes, Todo
  <2>3. HeldBy(k)'
    BY <1>1, <1>2, <2>1, GoroutinesDiffer, Kinds DEF HeldBy, Dies, Goes, Todo
  <2>4. Todo(k) # <<"dead">>
    BY <2>1 DEF Goes
  <2>5. QED
    BY <1>1, <1>2, <2>1, <2>2, <2>3, <2>4, MoveKeepsHeld
<1>5. QED
  BY <1>3, <1>4

LEMMA HeldSpawn ==
  ASSUME ThreadsFit, Held, SpawnReader
  PROVE  ThreadsFit' /\ Held'
<1> DEFINE k == thread[Checker].to
<1>1. Todo(Checker) \in AllTodos /\ Todo(Checker) # <<>> /\ Head(Todo(Checker)) = "spawn"
  BY GoroutinesDiffer DEF SpawnReader, At, Todo, ThreadsFit, Thread
<1>2. Todo(Checker) = <<"spawn">>
  BY <1>1, Tails
<1>3. k \in Conns /\ conn = k
  BY <1>2, Kinds DEF Held, CheckerConn
<1>4. /\ thread' \in [Goroutines -> Thread]
      /\ \A h \in Goroutines \ {Checker, k} : thread'[h] = thread[h]
      /\ Gets(Checker, <<>>, Noise, None)
      /\ Gets(k, <<"read">>, Noise, IF program = "multipusher" THEN k ELSE conn)
  BY <1>3, SpawnEffect
<1>5. /\ program' = program /\ next' = next /\ stuck' = stuck /\ queue' = queue
      /\ rmutex' = rmutex /\ conn' = conn /\ open' = open
  BY DEF SpawnReader, file, link, counts
<1>6. k \in Goroutines /\ Checker \in Goroutines /\ k # Checker
  BY <1>3, GoroutinesDiffer
<1> HIDE DEF k
<1>7. ASSUME NEW h \in Goroutines
      PROVE  Fits(h, Todo(h)') /\ HeldBy(h)'
  <2>1. Fits(h, Todo(h)) /\ HeldBy(h) /\ HeldBy(Checker) /\ HeldBy(k)
    BY <1>6 DEF ThreadsFit, Held
  <2>2. CASE h = Checker
    <3>1. Fits(Checker, <<>>)
      BY GoroutinesDiffer DEF Fits, CheckerTodos
    <3>2. QED
      BY <1>2, <1>4, <1>5, <2>1, <2>2, <3>1, Kinds DEF HeldBy, Gets, Todo
  <2>3. CASE h = k
    <3>1. Fits(k, <<"read">>)
      BY <1>3, GoroutinesDiffer DEF Fits, ReaderTodos, Reads
    <3>2. rmutex # k
      <4>1. Todo(k) = <<"dead">>
        BY <1>2, Kinds DEF Held, CheckerConn, k
      <4>2. QED
        BY <2>1, <4>1, Kinds DEF HeldBy
    <3>3. QED
      BY <1>4, <1>5, <2>3, <3>1, <3>2, Kinds DEF HeldBy, Gets, Todo
  <2>4. CASE h # Checker /\ h # k
    BY <1>4, <1>5, <2>1, <2>4 DEF HeldBy, Todo
  <2>5. QED
    BY <2>2, <2>3, <2>4
<1>8. CheckerConn'
  BY <1>4, Kinds DEF CheckerConn, Gets, Todo
<1>9. QED
  BY <1>4, <1>5, <1>7, <1>8 DEF ThreadsFit, Held

LEMMA HeldInit == Init => ThreadsFit /\ Held
<1> SUFFICES ASSUME Init
             PROVE  ThreadsFit /\ Held
  OBVIOUS
<1>1. \A g \in Goroutines : thread[g] = Dead \/ (g \notin Conns /\ thread[g] = Rest)
  BY DEF Init
<1>2. \A g \in Goroutines : Fits(g, Todo(g))
  <2>1. Fits(Sender, <<>>) /\ Fits(Checker, <<>>) /\ Fits("autoWrite", <<>>) /\ \A c \in Callers : Fits(c, <<>>)
    BY GoroutinesDiffer DEF Fits, SenderTodos, CheckerTodos, WriterTodos, CallerTodos
  <2>2. \A g \in Goroutines : Fits(g, <<"dead">>)
    BY FitsOn
  <2>3. QED
    BY <1>1, <2>1, <2>2, DeadThread, GoroutinesDiffer DEF Todo
<1>3. ThreadsFit
  BY <1>1, <1>2, DeadThread DEF Init, ThreadsFit, Noise
<1>4. \A g \in Goroutines : HeldBy(g)
  BY <1>1, DeadThread, GoroutinesDiffer, Kinds DEF Init, HeldBy, Todo
<1>5. CheckerConn
  BY <1>1, DeadThread, GoroutinesDiffer, Kinds DEF Init, CheckerConn, Todo
<1>6. QED
  BY <1>3, <1>4, <1>5 DEF Init, Held

LEMMA HeldNext ==
  ASSUME ThreadsFit, Held, [Next]_vars
  PROVE  ThreadsFit' /\ Held'
<1>1. ASSUME NEW g \in Goroutines, Step(g)
      PROVE  ThreadsFit' /\ Held'
  BY <1>1, HeldLog, HeldShorten, HeldSend DEF Step
<1>2. CASE AutoWrite
  <2>1. /\ program' = program /\ next' \in Nat /\ next' # Noise /\ stuck' = stuck /\ queue' \in Seq(Nat)
        /\ rmutex' = rmutex /\ conn' = conn /\ open' \subseteq Conns
    BY <1>2 DEF AutoWrite, link, ThreadsFit, Held
  <2>2. CASE thread' = thread
    <3>1. UNCHANGED <<program, next, stuck, queue, rmutex, conn, open>>
      BY <1>2 DEF AutoWrite, link
    <3>2. QED
      BY <2>2, <3>1 DEF ThreadsFit, Held, HeldBy, CheckerConn, Todo
  <2>3. CASE Moves("autoWrite") /\ Dies("autoWrite")
    <3>1. Fits("autoWrite", Todo("autoWrite")') /\ "autoWrite" \in Goroutines /\ "autoWrite" # Checker
      BY <2>3, FitsOn, GoroutinesDiffer DEF Dies, Todo
    <3>2. HeldBy("autoWrite")'
      <4>1. HeldBy("autoWrite") /\ Todo("autoWrite") = <<>>
        BY <1>2, <3>1 DEF Held, AutoWrite, Idle, Todo
      <4>2. QED
        BY <2>1, <2>3, <4>1, Kinds DEF HeldBy, Dies, Todo
    <3>3. QED
      BY <2>1, <2>3, <3>1, <3>2, MoveKeepsHeld DEF Dies, Todo
  <2>4. QED
    BY <1>2, <2>2, <2>3, WriterEffect
<1>3. CASE ConnFails \/ UNCHANGED vars
  <2>1. UNCHANGED <<program, next, stuck, queue, rmutex, conn, thread>> /\ open' \subseteq Conns
    BY <1>3 DEF ConnFails, vars, file, link, counts, Held
  <2>2. QED
    BY <2>1 DEF ThreadsFit, Held, HeldBy, CheckerConn, Todo
<1>4. QED
  <2>1. Sender \in Goroutines /\ Checker \in Goroutines /\ Callers \subseteq Goroutines /\ Conns \subseteq Goroutines
    BY GoroutinesDiffer
  <2>2. CASE Next
    BY <1>1, <1>2, <1>3, <2>1, <2>2, HeldShorten, HeldBegin, HeldDial, HeldReader, HeldSpawn
       DEF Next, Processqueue, Checkstatus, Reader
  <2>3. QED
    BY <1>3, <2>2

\* Whoever has the mutex of the remote log (remote.go: put, pop_front, close, sendData) has
\* a step to take that does not wait for it, or waits for a file that a panic has left
\* locked: no goroutine locks it twice, ends or dies with it.
THEOREM NobodyRestsWithTheMutex == Spec => []MutexIsReleased
<1>1. ThreadsFit /\ Held => MutexIsReleased
  <2> SUFFICES ASSUME ThreadsFit, Held, NEW g \in Goroutines, rmutex = g
               PROVE  ~Idle(g) /\ ~At(g, "lock") /\ (thread[g] = Dead \/ At(g, "hang") => stuck)
    BY DEF MutexIsReleased
  <2>1. Todo(g) \in AfterLock \cup {<<"hang">>} /\ (Todo(g) = <<"hang">> => stuck) /\ Todo(g) \in AllTodos
    BY DEF Held, HeldBy, ThreadsFit, Thread, Todo
  <2>2. Todo(g) # <<>> /\ Head(Todo(g)) # "lock"
    BY <2>1 DEF AfterLock
  <2>3. thread[g] # Dead
    BY <2>1, DeadThread, Kinds DEF Todo
  <2>4. At(g, "hang") => stuck
    BY <2>1, <2>2, Tails DEF At, Todo
  <2>5. QED
    BY <2>2, <2>3, <2>4 DEF Idle, At, Todo
<1>2. QED
  BY <1>1, HeldInit, HeldNext, PTL DEF Spec

-----------------------------------------------------------------------------
(* The mutex of the remote log excludes.                                   *)

\* What is left to do while the mutex is held.
Holding ==
  {<<"send">>, <<"close">>, <<"set", "log", "spawn">>, <<"unlock">>, <<"unlock", "back">>,
   <<"log", "unlock">>, <<"log", "unlock", "back">>, <<"shut", "log", "unlock">>,
   <<"shut", "log", "unlock", "back">>}

Locks == \A g \in Goroutines : Todo(g) \in Holding => rmutex = g

\* A step of g keeps this if it is right for g and releases no mutex of another.
LEMMA MoveKeepsLocks ==
  ASSUME Locks, NEW g \in Goroutines, Moves(g), None \notin Goroutines,
         Todo(g)' \in Holding => rmutex' = g,
         rmutex' = rmutex \/ rmutex = None \/ rmutex = g
  PROVE  Locks'
<1> SUFFICES ASSUME NEW h \in Goroutines, Todo(h)' \in Holding
             PROVE  rmutex' = h
  BY DEF Locks
<1>1. CASE h # g
  BY <1>1 DEF Locks, Moves, Todo
<1>2. QED
  BY <1>1

LEMMA NotHolding ==
  /\ \A t \in {<<>>, <<"log">>, <<"log", "dial">>, <<"dial">>, <<"log", "spawn">>, <<"spawn">>,
               <<"lock", "send">>, <<"lock", "close">>, <<"lock", "set", "log", "spawn">>,
               <<"read">>, <<"back">>, <<"shut", "log">>, <<"close", "shut", "log">>,
               <<"hang">>, <<"dead">>} : t \notin Holding
  /\ \A t \in {<<"send">>, <<"close">>, <<"set", "log", "spawn">>, <<"unlock">>,
               <<"unlock", "back">>, <<"log", "unlock">>, <<"log", "unlock", "back">>,
               <<"shut", "log", "unlock">>, <<"shut", "log", "unlock", "back">>} : t \in Holding
  BY DEF Holding

LEMMA LocksLog ==
  ASSUME ThreadsFit, Locks, NEW g \in Goroutines, AddLog(g) \/ AddLogLater(g)
  PROVE  Locks'
<1>1. /\ Moves(g)
      /\ \/ Goes(g, <<"log", "unlock">>, <<"unlock">>)
         \/ Goes(g, <<"log", "unlock", "back">>, <<"unlock", "back">>)
         \/ Todo(g)' \notin Holding
      /\ rmutex' = rmutex \/ (rmutex = g /\ rmutex' = None)
  <2>1. /\ Moves(g)
        /\ \/ g \in Conns /\ Todo(g) = <<"log">> /\ Dies(g)
           \/ g \notin Conns /\ Goes(g, <<"log">>, <<>>)
           \/ Goes(g, <<"log", "unlock">>, <<"unlock">>)
           \/ Goes(g, <<"log", "unlock", "back">>, <<"unlock", "back">>)
           \/ Goes(g, <<"log", "dial">>, <<"dial">>)
           \/ Goes(g, <<"log", "spawn">>, <<"spawn">>)
           \/ stuck /\ Goes(g, Todo(g), <<"hang">>)
           \/ Dies(g) /\ stuck' /\ rmutex' # g
        /\ rmutex' = rmutex \/ (rmutex = g /\ rmutex' = None)
    BY LogEffect
  <2>2. \A t \in {<<>>, <<"dial">>, <<"spawn">>, <<"hang">>, <<"dead">>} : t \notin Holding
    BY NotHolding
  <2>3. QED
    BY <2>1, <2>2 DEF Goes, Dies, Todo
<1>2. rmutex' = rmutex \/ thread'[g] = Dead
  BY DEF AddLog, AddLogLater, ThreadsFit
<1>3. Todo(g)' \in Holding => rmutex' = rmutex
  BY <1>2, DeadThread, NotHolding DEF Todo
<1>4. Todo(g)' \in Holding => Todo(g) \in Holding
  BY <1>1, NotHolding DEF Goes
<1>5. Todo(g)' \in Holding => rmutex' = g
  BY <1>3, <1>4 DEF Locks
<1>6. QED
  BY <1>1, <1>5, GoroutinesDiffer, MoveKeepsLocks

LEMMA LocksShorten ==
  ASSUME ThreadsFit, Locks, NEW g \in Goroutines,
         Lock(g) \/ Unlock(g) \/ ShutConn(g) \/ SetConn(g)
  PROVE  Locks'
<1>1. CASE Lock(g)
  <2>1. Moves(g) /\ rmutex = None /\ rmutex' = g
    BY <1>1, ShortenEffect DEF Lock
  <2>2. QED
    BY <2>1, GoroutinesDiffer, MoveKeepsLocks
<1>2. CASE Unlock(g)
  <2>1. Moves(g) /\ (Goes(g, <<"unlock">>, <<>>) \/ Goes(g, <<"unlock", "back">>, <<"back">>))
    BY <1>2, ShortenEffect
  <2>2. Todo(g) \in Holding /\ Todo(g)' \notin Holding
    BY <2>1, NotHolding DEF Goes, Todo
  <2>3. rmutex = g
    BY <2>2 DEF Locks
  <2>4. QED
    BY <2>1, <2>2, <2>3, GoroutinesDiffer, MoveKeepsLocks
<1>3. CASE ShutConn(g)
  <2>1. /\ Moves(g)
        /\ \/ Goes(g, <<"shut", "log">>, <<"log">>)
           \/ Goes(g, <<"shut", "log", "unlock">>, <<"log", "unlock">>)
           \/ Goes(g, <<"shut", "log", "unlock", "back">>, <<"log", "unlock", "back">>)
    BY <1>3, ShortenEffect
  <2>2. Todo(g)' \in Holding => Todo(g) \in Holding
    BY <2>1, NotHolding DEF Goes, Todo
  <2>3. rmutex' = rmutex
    BY <1>3 DEF ShutConn
  <2>4. Todo(g)' \in Holding => rmutex' = g
    BY <2>2, <2>3 DEF Locks
  <2>5. QED
    BY <2>1, <2>3, <2>4, GoroutinesDiffer, MoveKeepsLocks
<1>4. CASE SetConn(g)
  <2>1. Moves(g) /\ Goes(g, <<"set", "log", "spawn">>, <<"log", "spawn">>)
    BY <1>4, ShortenEffect
  <2>2. Todo(g) \in Holding /\ Todo(g)' \notin Holding
    BY <2>1, NotHolding DEF Goes, Todo
  <2>3. rmutex = g
    BY <2>2 DEF Locks
  <2>4. QED
    BY <2>1, <2>2, <2>3, GoroutinesDiffer, MoveKeepsLocks
<1>5. QED
  BY <1>1, <1>2, <1>3, <1>4

LEMMA LocksSend ==
  ASSUME ThreadsFit, Locks, NEW g \in Goroutines, SendWorks(g) \/ SendFails(g)
  PROVE  Locks'
<1>1. Moves(g) /\ Todo(g) = <<"send">>
  BY SendEffect
<1>2. rmutex' = rmutex
  BY DEF SendWorks, SendFails
<1>3. rmutex = g
  BY <1>1, NotHolding DEF Locks
<1>4. QED
  BY <1>1, <1>2, <1>3, GoroutinesDiffer, MoveKeepsLocks

LEMMA LocksReader ==
  ASSUME ThreadsFit, Held, Locks, NEW k \in Conns, ReadsOn(k) \/ ReadFails(k) \/ ReaderCloses(k)
  PROVE  Locks'
<1>1. k \in Goroutines /\ HeldBy(k) /\ conn \in Conns \cup {None}
      /\ program \in {"multipusher", "backend"}
  BY GoroutinesDiffer DEF Held
<1>2. CASE ReadsOn(k) \/ ReadFails(k)
  <2>1. /\ Moves(k)
        /\ \/ Gets(k, <<"read">>, thread[k].what, conn)
           \/ Goes(k, <<"read">>, <<"lock", "close">>)
           \/ Goes(k, <<"read">>, <<"close", "shut", "log">>)
    BY <1>1, <1>2, ReaderEffect
  <2>2. rmutex' = rmutex
    BY <1>2 DEF ReadsOn, ReadFails
  <2>3. Todo(k)' \notin Holding
    BY <2>1, NotHolding DEF Gets, Goes, Todo
  <2>4. QED
    BY <1>1, <2>1, <2>2, <2>3, GoroutinesDiffer, MoveKeepsLocks
<1>3. CASE ReaderCloses(k) /\ program = "multipusher"
  <2>1. Moves(k) /\ Todo(k) \in {<<"close">>, <<"close", "shut", "log">>} /\ Goes(k, Todo(k), <<"log">>)
    BY <1>3, ReaderEffect
  <2>2. Todo(k) = <<"close">>
    BY <1>1, <1>3, <2>1, Kinds DEF HeldBy
  <2>3. rmutex = k
    BY <1>1, <2>2, NotHolding DEF Locks
  <2>4. Todo(k)' \notin Holding
    BY <2>1, NotHolding DEF Goes, Todo
  <2>5. rmutex' = None
    BY <1>3 DEF ReaderCloses
  <2>6. QED
    BY <1>1, <2>1, <2>3, <2>4, <2>5, GoroutinesDiffer, MoveKeepsLocks
<1>4. CASE ReaderCloses(k) /\ program # "multipusher"
  <2>1. /\ Moves(k)
        /\ \/ Goes(k, <<"close", "shut", "log">>, <<"shut", "log">>)
           \/ Todo(k) = <<"close">> /\ Dies(k)
    BY <1>4, ReaderEffect
  <2>2. Todo(k)' \notin Holding
    BY <2>1, NotHolding DEF Goes, Dies, Todo
  <2>3. rmutex' = rmutex
    BY <1>4 DEF ReaderCloses
  <2>4. QED
    BY <1>1, <2>1, <2>2, <2>3, GoroutinesDiffer, MoveKeepsLocks
<1>5. QED
  BY <1>2, <1>3, <1>4

LEMMA LocksSpawn ==
  ASSUME ThreadsFit, Held, Locks, SpawnReader
  PROVE  Locks'
<1>1. Todo(Checker) \in AllTodos /\ Todo(Checker) # <<>> /\ Head(Todo(Checker)) = "spawn"
  BY GoroutinesDiffer DEF SpawnReader, At, Todo, ThreadsFit, Thread
<1>2. Todo(Checker) = <<"spawn">>
  BY <1>1, Tails
<1>3. PICK k \in Conns : k = thread[Checker].to /\ conn = k
  BY <1>2, Kinds DEF Held, CheckerConn
<1>4. /\ \A h \in Goroutines \ {Checker, k} : thread'[h] = thread[h]
      /\ Gets(Checker, <<>>, Noise, None)
      /\ Gets(k, <<"read">>, Noise, IF program = "multipusher" THEN k ELSE conn)
  BY <1>3, SpawnEffect
<1>5. rmutex' = rmutex
  BY DEF SpawnReader
<1>6. Todo(Checker)' \notin Holding /\ Todo(k)' \notin Holding
  BY <1>4, NotHolding DEF Gets, Todo
<1>7. \A h \in Goroutines \ {Checker, k} : Todo(h)' = Todo(h)
  BY <1>4 DEF Todo
<1>8. QED
  BY <1>5, <1>6, <1>7 DEF Locks

LEMMA LocksInit == Init => Locks
<1> SUFFICES ASSUME Init, NEW g \in Goroutines
             PROVE  Todo(g) \notin Holding
  BY DEF Locks
<1>1. thread[g] \in {Dead, Rest}
  BY DEF Init
<1>2. QED
  BY <1>1, DeadThread, NotHolding DEF Todo

LEMMA LocksNext ==
  ASSUME ThreadsFit, Held, Locks, [Next]_vars
  PROVE  Locks'
<1>1. ASSUME NEW g \in Goroutines, Step(g)
      PROVE  Locks'
  BY <1>1, LocksLog, LocksShorten, LocksSend DEF Step
<1>2. CASE ConnFails \/ UNCHANGED vars
  <2>1. UNCHANGED <<rmutex, thread>>
    BY <1>2 DEF ConnFails, vars
  <2>2. QED
    BY <2>1 DEF Locks, Todo
<1>3. CASE AutoWrite
  <2>1. rmutex' = rmutex
    BY <1>3 DEF AutoWrite
  <2>2. CASE thread' = thread
    BY <2>1, <2>2 DEF Locks, Todo
  <2>3. CASE Moves("autoWrite") /\ Dies("autoWrite")
    <3>1. Todo("autoWrite")' \notin Holding
      BY <2>3, NotHolding DEF Dies, Todo
    <3>2. QED
      BY <2>1, <2>3, <3>1, GoroutinesDiffer, MoveKeepsLocks
  <2>4. QED
    BY <1>3, <2>2, <2>3, WriterEffect
<1>4. CASE PopFront \/ PutBack \/ KeepAlive \/ Connect \/ \E c \in Callers : Log(c)
  <2>1. PICK g \in Goroutines :
          /\ Moves(g)
          /\ \/ Gets(g, <<"lock", "send">>, Head(queue), None)
             \/ Gets(g, <<>>, Noise, None)
             \/ Gets(g, <<"lock", "send">>, Noise, None)
             \/ Goes(g, <<>>, <<"log", "dial">>)
             \/ Goes(g, <<>>, <<"log">>)
    BY <1>4, BeginEffect, GoroutinesDiffer
  <2>2. Todo(g)' \notin Holding
    BY <2>1, NotHolding DEF Gets, Goes, Todo
  <2>3. rmutex' = rmutex
    BY <1>4 DEF PopFront, PutBack, KeepAlive, Connect, Log
  <2>4. QED
    BY <2>1, <2>2, <2>3, GoroutinesDiffer, MoveKeepsLocks
<1>5. CASE Dial
  <2>1. /\ Moves(Checker)
        /\ \/ Goes(Checker, <<"dial">>, <<"log">>)
           \/ \E k \in Conns : Gets(Checker, <<"lock", "set", "log", "spawn">>, Noise, k)
    BY <1>5, DialEffect
  <2>2. Todo(Checker)' \notin Holding
    BY <2>1, NotHolding DEF Gets, Goes, Todo
  <2>3. rmutex' = rmutex
    BY <1>5 DEF Dial
  <2>4. QED
    BY <2>1, <2>2, <2>3, GoroutinesDiffer, MoveKeepsLocks
<1>6. CASE Next
  <2>1. /\ Sender \in Goroutines /\ Checker \in Goroutines
        /\ Callers \subseteq Goroutines /\ Conns \subseteq Goroutines
    BY GoroutinesDiffer
  <2>2. QED
    BY <1>1, <1>2, <1>3, <1>4, <1>5, <1>6, <2>1, LocksShorten, LocksReader, LocksSpawn
       DEF Next, Processqueue, Checkstatus, Reader
<1>7. QED
  BY <1>2, <1>6

-----------------------------------------------------------------------------
(* The connections.                                                        *)

\* checkstatus before c.conn is the new connection.
Opening == Begins \cup Makes

\* A reader that has met an error and is not done with it.
Closing == {<<"lock", "close">>, <<"close">>, <<"close", "shut", "log">>, <<"shut", "log">>}

\* The program is multipusher, or no reader has been overtaken.
Kept == program = "multipusher" \/ ~overtaken

OneIsOpen == Kept => open \subseteq {conn, thread[Checker].to}

\* A connection is made when the last one is given up.
OldIsGone == Kept /\ Todo(Checker) \in Opening => ~isConnected

\* Who has cleared isConnected closes the connection, too.
ClosesOrShuts == Kept /\ ~isConnected /\ conn \in open => \E g \in Goroutines : At(g, "shut")

\* A reader that is not late reads from the current connection, and its error is of it.
ReadersReadIt == \A k \in Conns \ late : Todo(k) = <<"read">> => thread[k].to = conn
ErrorsAreOfIt == \A k \in Conns \ late : Todo(k) \in Closing => conn \notin open

Linked ==
  /\ OneIsOpen /\ OldIsGone /\ ClosesOrShuts
  /\ ReadersReadIt /\ ErrorsAreOfIt

LEMMA LinkKinds ==
  /\ <<"log", "dial">> \in Opening /\ <<"lock", "set", "log", "spawn">> \in Opening
     /\ <<"set", "log", "spawn">> \in Opening /\ <<"dial">> \in Opening
  /\ <<>> \notin Opening /\ <<"log">> \notin Opening /\ <<"log", "unlock">> \notin Opening
     /\ <<"log", "unlock", "back">> \notin Opening /\ <<"log", "spawn">> \notin Opening
     /\ <<"lock", "send">> \notin Opening /\ <<"send">> \notin Opening
     /\ <<"unlock">> \notin Opening /\ <<"unlock", "back">> \notin Opening
     /\ <<"back">> \notin Opening /\ <<"shut", "log", "unlock">> \notin Opening
     /\ <<"shut", "log", "unlock", "back">> \notin Opening /\ <<"spawn">> \notin Opening
     /\ <<"hang">> \notin Opening /\ <<"dead">> \notin Opening
  /\ <<"log">> \in Ended /\ <<"hang">> \in Ended /\ <<"dead">> \in Ended
  /\ <<"read">> \notin Ended /\ <<"lock", "close">> \notin Ended /\ <<"close">> \notin Ended
     /\ <<"close", "shut", "log">> \notin Ended /\ <<"shut", "log">> \notin Ended
  /\ <<"lock", "close">> \in Closing /\ <<"close">> \in Closing
     /\ <<"close", "shut", "log">> \in Closing /\ <<"shut", "log">> \in Closing
  /\ <<"read">> \notin Closing /\ <<"log">> \notin Closing /\ <<"hang">> \notin Closing
     /\ <<"dead">> \notin Closing
  BY DEF Opening, Begins, Makes, Ended, Stops, Closing

\* A step of g that makes no connection keeps all this if it is right for g.
LEMMA MoveKeepsLinked ==
  ASSUME ThreadsFit, Held, Linked, NEW g \in Goroutines, Moves(g),
         program' = program, late' = late, overtaken' = overtaken, conn' = conn, open' \subseteq open,
         isConnected' => isConnected,
         thread'[Checker].to = thread[Checker].to \/ thread[Checker].to \in {None, conn},
         g = Checker /\ Todo(g)' \in Opening =>
           Todo(g) \in Opening \/ ~isConnected,
         Kept /\ ~isConnected' /\ conn \in open' => (~isConnected /\ ~At(g, "shut")) \/ At(g, "shut")',
         g \in Conns \ late => /\ Todo(g)' = <<"read">> => thread'[g].to = conn
                               /\ Todo(g)' \in Closing => conn \notin open
  PROVE  Linked'
<1>1. \A h \in Goroutines \ {g} : Todo(h)' = Todo(h) /\ thread'[h] = thread[h] /\ (At(h, "shut") => At(h, "shut")')
  BY DEF Moves, Todo, At
<1>2. Conns \subseteq Goroutines /\ Checker \in Goroutines /\ Checker \notin Conns
      /\ open \subseteq Conns /\ None \notin Conns
  BY GoroutinesDiffer DEF Held
<1>3. OneIsOpen'
  BY <1>2 DEF Linked, OneIsOpen, Kept
<1>4. OldIsGone'
  BY <1>1, <1>2 DEF Linked, OldIsGone, Kept
<1>5. ClosesOrShuts'
  <2> SUFFICES ASSUME Kept, ~isConnected', conn \in open'
               PROVE  \E h \in Goroutines : At(h, "shut")'
    BY DEF ClosesOrShuts, Kept
  <2>1. CASE At(g, "shut")'
    BY <2>1
  <2>2. CASE ~isConnected /\ ~At(g, "shut")
    <3>1. PICK h \in Goroutines : At(h, "shut")
      BY <2>2 DEF Linked, ClosesOrShuts
    <3>2. QED
      BY <1>1, <2>2, <3>1
  <2>3. QED
    BY <2>1, <2>2
<1>6. ReadersReadIt'
  BY <1>1, <1>2 DEF Linked, ReadersReadIt
<1>7. ErrorsAreOfIt'
  BY <1>1, <1>2 DEF Linked, ErrorsAreOfIt
<1>8. QED
  BY <1>3, <1>4, <1>5, <1>6, <1>7 DEF Linked

LEMMA LinkedLog ==
  ASSUME ThreadsFit, Held, Linked, NEW g \in Goroutines, AddLog(g) \/ AddLogLater(g)
  PROVE  Linked'
<1>1. /\ Moves(g)
      /\ \/ g \in Conns /\ Todo(g) = <<"log">> /\ Dies(g)
         \/ g \notin Conns /\ Goes(g, <<"log">>, <<>>)
         \/ Goes(g, <<"log", "unlock">>, <<"unlock">>)
         \/ Goes(g, <<"log", "unlock", "back">>, <<"unlock", "back">>)
         \/ Goes(g, <<"log", "dial">>, <<"dial">>)
         \/ Goes(g, <<"log", "spawn">>, <<"spawn">>)
         \/ stuck /\ Goes(g, Todo(g), <<"hang">>)
         \/ Dies(g) /\ stuck' /\ rmutex' # g
      /\ Head(Todo(g)) = "log" /\ Todo(g) \in AllTodos \ {<<>>}
  BY LogEffect
<1>2. program' = program /\ late' = late /\ overtaken' = overtaken /\ conn' = conn /\ open' = open /\ isConnected' = isConnected
  BY DEF AddLog, AddLogLater, link, history
<1>3. g = Checker => CheckerConn /\ thread[g].to \in Conns \cup {None}
  BY DEF Held, ThreadsFit, Thread
<1>4. thread'[Checker].to = thread[Checker].to \/ thread[Checker].to \in {None, conn}
  <2>1. CASE g # Checker
    BY <1>1, <2>1, GoroutinesDiffer DEF Moves
  <2>2. CASE g = Checker
    <3>1. Todo(g) = <<"log", "spawn">> \/ Todo(g) \notin Making \cup {<<"hang">>}
      BY <1>1, Tails, Kinds
    <3>2. QED
      BY <1>3, <2>2, <3>1, Kinds DEF CheckerConn
  <2>3. QED
    BY <2>1, <2>2
<1>5. g = Checker /\ Todo(g)' \in Opening => Todo(g) \in Opening
  BY <1>1, LinkKinds DEF Goes, Dies, Todo
<1>6. ~At(g, "shut")
  BY <1>1 DEF At, Todo
<1>7. ASSUME g \in Conns
      PROVE  Todo(g)' # <<"read">> /\ Todo(g)' \notin Closing
  <2>1. Todo(g) \in ReaderTodos
    BY <1>7 DEF ThreadsFit, Fits
  <2>2. Todo(g) = <<"log">>
    BY <1>1, <2>1 DEF ReaderTodos, Ended, Reads, Stops
  <2>3. Todo(g)' = <<"dead">> \/ Todo(g)' = <<"hang">>
    BY <1>1, <1>7, <2>2 DEF Goes, Dies, Todo
  <2>4. QED
    BY <2>3, LinkKinds
<1>8. QED
  BY <1>1, <1>2, <1>4, <1>5, <1>6, <1>7, MoveKeepsLinked

LEMMA LinkedShorten ==
  ASSUME ThreadsFit, Held, Linked, NEW g \in Goroutines, Lock(g) \/ Unlock(g) \/ ShutConn(g)
  PROVE  Linked'
<1>1. /\ program' = program /\ late' = late /\ overtaken' = overtaken /\ conn' = conn /\ open' \subseteq open
      /\ isConnected' = isConnected /\ (ShutConn(g) => conn \notin open')
  BY DEF Lock, Unlock, ShutConn, link, history
<1>2. /\ Moves(g)
      /\ \/ ~ShutConn(g) /\ Goes(g, <<"lock", "send">>, <<"send">>)
         \/ ~ShutConn(g) /\ Goes(g, <<"lock", "close">>, <<"close">>)
         \/ ~ShutConn(g) /\ Goes(g, <<"lock", "set", "log", "spawn">>, <<"set", "log", "spawn">>)
         \/ ~ShutConn(g) /\ g \notin Conns /\ Goes(g, <<"unlock">>, <<>>)
         \/ ~ShutConn(g) /\ Goes(g, <<"unlock", "back">>, <<"back">>)
         \/ ShutConn(g) /\ Goes(g, <<"shut", "log">>, <<"log">>)
         \/ ShutConn(g) /\ Goes(g, <<"shut", "log", "unlock">>, <<"log", "unlock">>)
         \/ ShutConn(g) /\ Goes(g, <<"shut", "log", "unlock", "back">>, <<"log", "unlock", "back">>)
  <2>1. CASE ShutConn(g)
    BY <2>1, ShortenEffect
  <2>2. CASE ~ShutConn(g)
    BY <2>2, ShortenEffect
  <2>3. QED
    BY <2>1, <2>2
<1>3. thread'[Checker].to = thread[Checker].to
  BY <1>2, GoroutinesDiffer DEF Moves, Goes
<1>4. g = Checker /\ Todo(g)' \in Opening => Todo(g) \in Opening
  <2> SUFFICES ASSUME g = Checker
               PROVE  Todo(g)' \in Opening => Todo(g) \in Opening
    OBVIOUS
  <2>1. Fits(g, Todo(g)) /\ g \notin Conns
    BY GoroutinesDiffer DEF ThreadsFit
  <2>2. Todo(g) # <<"lock", "close">> /\ Todo(g) # <<"shut", "log">>
    BY <2>1, FitsOn
  <2>3. QED
    BY <1>2, <2>2, LinkKinds DEF Goes, Todo
<1>5. conn \in open' => ~At(g, "shut")
  <2>1. ~ShutConn(g) => Head(Todo(g)) # "shut"
    BY <1>2 DEF Goes
  <2>2. QED
    BY <1>1, <2>1 DEF At, Todo
<1>6. ASSUME g \in Conns \ late
      PROVE  /\ Todo(g)' # <<"read">>
             /\ Todo(g)' \in Closing => conn \notin open
  <2>1. Todo(g) \in ReaderTodos
    BY <1>6 DEF ThreadsFit, Fits
  <2>2. \/ Goes(g, <<"lock", "close">>, <<"close">>)
        \/ Goes(g, <<"shut", "log">>, <<"log">>)
    <3>1. Fits(g, Todo(g)) /\ g # Sender /\ g # Checker
      BY <1>6, GoroutinesDiffer DEF ThreadsFit
    <3>2. QED
      BY <1>2, <1>6, <3>1, FitsOn DEF Goes
  <2>3. Todo(g) \in Closing => conn \notin open
    BY <1>6 DEF Linked, ErrorsAreOfIt
  <2>4. QED
    BY <2>2, <2>3, LinkKinds DEF Goes, Todo
<1>7. QED
  BY <1>1, <1>2, <1>3, <1>4, <1>5, <1>6, MoveKeepsLinked

LEMMA LinkedSend ==
  ASSUME ThreadsFit, Held, Linked, NEW g \in Goroutines, SendWorks(g) \/ SendFails(g)
  PROVE  Linked'
<1>1. /\ program' = program /\ late' = late /\ overtaken' = overtaken /\ conn' = conn /\ open' \subseteq open
      /\ isConnected' => isConnected
      /\ SendWorks(g) => isConnected' = isConnected
      /\ SendFails(g) /\ program = "multipusher" => conn \notin open'
  BY DEF SendWorks, SendFails, CloseLocked, Closed, Forgotten, link, history
<1>2. /\ Moves(g) /\ Todo(g) = <<"send">> /\ (g = Sender \/ g = Checker)
      /\ SendWorks(g) => Gets(g, <<"unlock">>, Noise, None)
      /\ SendFails(g) => \/ /\ program = "multipusher"
                            /\ \/ g = Sender /\ Goes(g, <<"send">>, <<"log", "unlock", "back">>)
                               \/ g = Checker /\ Goes(g, <<"send">>, <<"log", "unlock">>)
                         \/ /\ program # "multipusher"
                            /\ \/ g = Sender /\ Goes(g, <<"send">>, <<"shut", "log", "unlock", "back">>)
                               \/ g = Checker /\ Goes(g, <<"send">>, <<"shut", "log", "unlock">>)
  BY SendEffect
<1>3. thread'[Checker].to = thread[Checker].to \/ thread[Checker].to \in {None, conn}
  <2>1. CASE g = Checker
    <3>1. thread[Checker].to = None
      BY <1>2, <2>1, Kinds DEF Held, CheckerConn
    <3>2. QED
      BY <3>1
  <2>2. CASE g # Checker
    BY <1>2, <2>2, GoroutinesDiffer DEF Moves
  <2>3. QED
    BY <2>1, <2>2
<1>4. Todo(g)' \notin Opening
  BY <1>2, LinkKinds DEF Gets, Goes, Todo
<1>5. ~At(g, "shut")
  BY <1>2 DEF At, Todo
<1>6. SendFails(g) /\ program # "multipusher" => At(g, "shut")'
  <2>1. SendFails(g) /\ program # "multipusher" => Todo(g)' # <<>> /\ Head(Todo(g)') = "shut"
    BY <1>2 DEF Goes, Todo
  <2>2. QED
    BY <2>1 DEF At, Todo
<1>7. g \notin Conns
  BY <1>2, GoroutinesDiffer
<1>8. Kept /\ ~isConnected' /\ conn \in open' => (~isConnected /\ ~At(g, "shut")) \/ At(g, "shut")'
  BY <1>1, <1>5, <1>6
<1>9. QED
  BY <1>1, <1>2, <1>3, <1>4, <1>7, <1>8, MoveKeepsLinked

LEMMA LinkedBegin ==
  ASSUME ThreadsFit, Held, Linked,
         PopFront \/ PutBack \/ KeepAlive \/ \E c \in Callers : Log(c)
  PROVE  Linked'
<1>1. /\ program' = program /\ late' = late /\ overtaken' = overtaken /\ conn' = conn /\ open' = open
      /\ isConnected' = isConnected
  BY DEF PopFront, PutBack, KeepAlive, Log, link, history
<1>2. PICK g \in Goroutines :
        /\ Moves(g)
        /\ \/ g = Sender /\ Todo(g) = <<>> /\ Gets(g, <<"lock", "send">>, Head(queue), None)
           \/ g = Sender /\ Todo(g) = <<"back">> /\ Gets(g, <<>>, Noise, None)
           \/ g = Checker /\ Todo(g) = <<>> /\ Gets(g, <<"lock", "send">>, Noise, None)
           \/ g \in Callers /\ Goes(g, <<>>, <<"log">>)
  BY BeginEffect, GoroutinesDiffer
<1>3. g \notin Conns
  BY <1>2, GoroutinesDiffer
<1>4. thread'[Checker].to = thread[Checker].to \/ thread[Checker].to \in {None, conn}
  <2>1. CASE g = Checker
    <3>1. Todo(g) = <<>>
      BY <1>2, <2>1, GoroutinesDiffer
    <3>2. thread[Checker].to = None
      BY <2>1, <3>1, Kinds DEF Held, CheckerConn
    <3>3. QED
      BY <3>2
  <2>2. CASE g # Checker
    BY <1>2, <2>2, GoroutinesDiffer DEF Moves
  <2>3. QED
    BY <2>1, <2>2
<1>5. Todo(g)' \notin Opening
  BY <1>2, LinkKinds DEF Gets, Goes, Todo
<1>6. ~At(g, "shut")
  BY <1>2 DEF At, Todo, Goes
<1>7. QED
  BY <1>1, <1>2, <1>3, <1>4, <1>5, <1>6, MoveKeepsLinked

\* The checker connects when the connection has been given up.
LEMMA LinkedConnect ==
  ASSUME ThreadsFit, Held, Linked, Connect
  PROVE  Linked'
<1>1. /\ program' = program /\ late' = late /\ overtaken' = overtaken
      /\ conn' = conn /\ open' = open /\ isConnected' = isConnected /\ ~isConnected
  BY DEF Connect, link, history
<1>2. Moves(Checker) /\ Goes(Checker, <<>>, <<"log", "dial">>) /\ Checker \in Goroutines /\ Checker \notin Conns
  BY BeginEffect, GoroutinesDiffer
<1>3. ~At(Checker, "shut")
  BY <1>2 DEF Goes, At, Todo
<1>4. thread'[Checker].to = thread[Checker].to
  BY <1>2 DEF Goes
<1>5. QED
  BY <1>1, <1>2, <1>3, <1>4, MoveKeepsLinked

LEMMA LinkedDial ==
  ASSUME ThreadsFit, Held, Linked, Dial
  PROVE  Linked'
<1>1. program' = program /\ late' = late /\ overtaken' = overtaken /\ conn' = conn /\ isConnected' = isConnected
  BY DEF Dial, history
<1>2. /\ Moves(Checker) /\ Todo(Checker) = <<"dial">>
      /\ \/ Goes(Checker, <<"dial">>, <<"log">>) /\ UNCHANGED open
         \/ \E k \in Conns \ (open \cup {conn}) :
              /\ thread[k] = Dead /\ open' = open \cup {k}
              /\ Gets(Checker, <<"lock", "set", "log", "spawn">>, Noise, k)
  BY DialEffect
<1>3. Checker \in Goroutines /\ Checker \notin Conns /\ ~At(Checker, "shut")
  BY <1>2, GoroutinesDiffer DEF At, Todo
<1>4. CASE Goes(Checker, <<"dial">>, <<"log">>) /\ UNCHANGED open
  <2>1. thread'[Checker].to = thread[Checker].to /\ Todo(Checker)' \notin Opening
    BY <1>4, LinkKinds DEF Goes, Todo
  <2>2. QED
    BY <1>1, <1>2, <1>3, <1>4, <2>1, MoveKeepsLinked
<1>5. ASSUME NEW k \in Conns \ (open \cup {conn}), open' = open \cup {k},
             Gets(Checker, <<"lock", "set", "log", "spawn">>, Noise, k)
      PROVE  Linked'
  <2>1. thread[Checker].to = None /\ None \notin open
    BY <1>2, Kinds, GoroutinesDiffer DEF Held, CheckerConn
  <2>2. Todo(Checker) \in Opening
    BY <1>2, LinkKinds
  <2>3. \A h \in Conns : Todo(h)' = Todo(h) /\ thread'[h].to = thread[h].to
    BY <1>2, <1>3, GoroutinesDiffer DEF Moves, Todo
  <2>4. OneIsOpen' /\ OldIsGone'
    BY <1>1, <1>5, <2>1, <2>2 DEF Linked, OneIsOpen, OldIsGone, Kept, Gets
  <2>5. ClosesOrShuts'
    <3> SUFFICES ASSUME Kept, ~isConnected, conn \in open
                 PROVE  \E h \in Goroutines : At(h, "shut")'
      BY <1>1, <1>5 DEF ClosesOrShuts, Kept
    <3>1. PICK h \in Goroutines : At(h, "shut")
      BY DEF Linked, ClosesOrShuts
    <3>2. thread'[h] = thread[h]
      BY <1>2, <1>3, <3>1 DEF Moves
    <3>3. QED
      BY <3>1, <3>2 DEF At
  <2>6. ReadersReadIt' /\ ErrorsAreOfIt'
    BY <1>1, <1>5, <2>2, <2>3 DEF Linked, ReadersReadIt, ErrorsAreOfIt
  <2>7. QED
    BY <2>4, <2>5, <2>6 DEF Linked
<1>6. QED
  BY <1>2, <1>4, <1>5

\* Nobody but a reader is about to shut a connection while another has the mutex.
LEMMA NobodyElseShuts ==
  ASSUME ThreadsFit, Held, Locks, NEW g \in Goroutines, Todo(g) \in Holding,
         NEW h \in Goroutines \ Conns, At(h, "shut")
  PROVE  g = h
<1>1. Todo(h) \in AllTodos /\ Todo(h) # <<>> /\ Head(Todo(h)) = "shut" /\ Fits(h, Todo(h))
  BY DEF At, Todo, ThreadsFit, Thread
<1>2. Todo(h) \in {<<"shut", "log">>, <<"shut", "log", "unlock">>, <<"shut", "log", "unlock", "back">>}
  BY <1>1, Tails
<1>3. Todo(h) # <<"shut", "log">>
  BY <1>1, FitsOn, GoroutinesDiffer
<1>4. Todo(h) \in Holding
  BY <1>2, <1>3 DEF Holding
<1>5. QED
  BY <1>4 DEF Locks

LEMMA LinkedSet ==
  ASSUME ThreadsFit, Held, Locks, Linked, NEW g \in Goroutines, SetConn(g)
  PROVE  Linked'
<1>1. /\ program' = program /\ conn' = thread[g].to /\ isConnected' = TRUE
      /\ open' = open /\ late' = late \cup Undone /\ overtaken' = (overtaken \/ Undone # {})
  BY DEF SetConn
<1>2. Moves(g) /\ Goes(g, <<"set", "log", "spawn">>, <<"log", "spawn">>)
  BY ShortenEffect
<1>3. g = Checker /\ thread'[g].to = thread[g].to
  BY <1>2, FitsOn DEF ThreadsFit, Goes
<1>4. Todo(Checker) \in Opening /\ Todo(Checker)' \notin Opening
  BY <1>2, <1>3, LinkKinds DEF Goes, Todo
<1>5. \A k \in Conns : Todo(k)' = Todo(k)
  BY <1>2, <1>3, CheckerMoves
<1>6. Kept' => Kept /\ ~ \E h \in Goroutines : At(h, "shut")
  <2> SUFFICES ASSUME Kept'
               PROVE  Kept /\ ~ \E h \in Goroutines : At(h, "shut")
    OBVIOUS
  <2>1. Kept /\ (program = "multipusher" \/ Undone = {})
    BY <1>1 DEF Kept
  <2>2. ASSUME NEW h \in Goroutines, At(h, "shut")
        PROVE  FALSE
    <3>1. Todo(h) \in AllTodos /\ Todo(h) # <<>> /\ Head(Todo(h)) = "shut"
      BY <2>2 DEF At, Todo, ThreadsFit, Thread
    <3>2. Todo(h) \in OfBackend
      BY <3>1, Tails, Kinds
    <3>3. program # "multipusher"
      BY <3>2 DEF Held, HeldBy
    <3>4. h \notin Conns
      BY <2>1, <2>2, <3>3 DEF Undone
    <3>5. Todo(g) \in Holding /\ Todo(g) = <<"set", "log", "spawn">>
      BY <1>2 DEF Goes, Holding, Todo
    <3>6. h = g
      BY <2>2, <3>4, <3>5, NobodyElseShuts
    <3>7. QED
      BY <3>1, <3>5, <3>6
  <2>3. QED
    BY <2>1, <2>2
<1>7. Kept' => conn \notin open
  BY <1>4, <1>6 DEF Linked, OldIsGone, ClosesOrShuts
<1>8. OneIsOpen' /\ OldIsGone' /\ ClosesOrShuts'
  BY <1>1, <1>3, <1>4, <1>6, <1>7 DEF Linked, OneIsOpen, OldIsGone, ClosesOrShuts
<1>9. ASSUME NEW k \in Conns \ late'
      PROVE  Todo(k)' # <<"read">> /\ Todo(k)' \notin Closing
  <2>1. k \notin Undone
    BY <1>1, <1>9
  <2>2. ~At(k, "read") /\ ~At(k, "lock") /\ ~At(k, "close") /\ ~At(k, "shut")
    BY <2>1 DEF Undone
  <2>3. Todo(k) # <<"read">> /\ Todo(k) \notin Closing
    BY <2>2 DEF At, Todo, Closing
  <2>4. QED
    BY <1>5, <2>3
<1>10. ReadersReadIt' /\ ErrorsAreOfIt'
  BY <1>9 DEF ReadersReadIt, ErrorsAreOfIt
<1>11. QED
  BY <1>8, <1>10 DEF Linked

LEMMA LinkedReader ==
  ASSUME ThreadsFit, Held, Linked, NEW k \in Conns, ReadsOn(k) \/ ReadFails(k) \/ ReaderCloses(k)
  PROVE  Linked'
<1>1. /\ program' = program /\ late' = late /\ overtaken' = overtaken /\ conn' = conn /\ open' \subseteq open
      /\ isConnected' => isConnected
  BY DEF ReadsOn, ReadFails, ReaderCloses, Closed, Forgotten, link, history
<1>2. /\ k \in Goroutines /\ k # Checker /\ HeldBy(k) /\ conn \in Conns \cup {None}
      /\ program \in {"multipusher", "backend"}
  BY GoroutinesDiffer DEF Held
<1>3. CASE ReadsOn(k) \/ ReadFails(k)
  <2>1. /\ Moves(k) /\ Todo(k) = <<"read">>
        /\ \/ Gets(k, <<"read">>, thread[k].what, conn)
           \/ ReadFails(k) /\ Goes(k, <<"read">>, <<"lock", "close">>)
           \/ ReadFails(k) /\ Goes(k, <<"read">>, <<"close", "shut", "log">>)
    BY <1>2, <1>3, ReaderEffect DEF Goes
  <2>2. isConnected' = isConnected
    BY <1>3 DEF ReadsOn, ReadFails, link
  <2>3. thread'[Checker] = thread[Checker]
    BY <1>2, <2>1, GoroutinesDiffer DEF Moves
  <2>4. ~At(k, "shut")
    BY <2>1 DEF At, Todo
  <2>5. Todo(k)' = <<"read">> => thread'[k].to = conn
    BY <2>1 DEF Gets, Goes, Todo
  <2>6. k \notin late /\ Todo(k)' \in Closing => conn \notin open
    <3>1. CASE Gets(k, <<"read">>, thread[k].what, conn)
      BY <3>1, LinkKinds DEF Gets, Todo
    <3>2. CASE ReadFails(k)
      BY <2>1, <3>2 DEF ReadFails, Linked, ReadersReadIt
    <3>3. QED
      BY <2>1, <3>1, <3>2
  <2>7. QED
    BY <1>1, <1>2, <2>1, <2>2, <2>3, <2>4, <2>5, <2>6, MoveKeepsLinked
<1>4. CASE ReaderCloses(k)
  <2>1. /\ Moves(k) /\ Todo(k) \in {<<"close">>, <<"close", "shut", "log">>}
        /\ \/ /\ program = "multipusher" /\ conn \notin open'
              /\ Goes(k, Todo(k), <<"log">>)
           \/ /\ program # "multipusher"
              /\ \/ Goes(k, <<"close", "shut", "log">>, <<"shut", "log">>)
                 \/ Todo(k) = <<"close">> /\ Dies(k)
    BY <1>4, ReaderEffect DEF ReaderCloses, Closed, Goes
  <2>2. ~(program # "multipusher" /\ Todo(k) = <<"close">>)
    BY <1>2, Kinds DEF HeldBy
  <2>3. \/ conn \notin open' /\ Todo(k)' = <<"log">>
        \/ Todo(k)' = <<"shut", "log">>
    BY <2>1, <2>2 DEF Goes, Todo
  <2>4. thread'[Checker] = thread[Checker]
    BY <1>2, <2>1, GoroutinesDiffer DEF Moves
  <2>5. Todo(k) \in Closing
    BY <2>1, LinkKinds
  <2>6. conn \in open' => At(k, "shut")'
    <3>1. <<"shut", "log">> # <<>> /\ Head(<<"shut", "log">>) = "shut"
      OBVIOUS
    <3>2. QED
      BY <2>3, <3>1 DEF At, Todo
  <2>7. Todo(k)' # <<"read">>
    BY <2>3
  <2>8. k \notin late => conn \notin open
    BY <2>5 DEF Linked, ErrorsAreOfIt
  <2>9. QED
    BY <1>1, <1>2, <2>1, <2>4, <2>5, <2>6, <2>7, <2>8, MoveKeepsLinked
<1>5. QED
  BY <1>3, <1>4

LEMMA LinkedSpawn ==
  ASSUME ThreadsFit, Held, Linked, SpawnReader
  PROVE  Linked'
<1> DEFINE r == thread[Checker].to
<1>1. Todo(Checker) \in AllTodos /\ Todo(Checker) # <<>> /\ Head(Todo(Checker)) = "spawn"
  BY GoroutinesDiffer DEF SpawnReader, At, Todo, ThreadsFit, Thread
<1>2. Todo(Checker) = <<"spawn">>
  BY <1>1, Tails
<1>3. r \in Conns /\ conn = r
  BY <1>2, Kinds DEF Held, CheckerConn
<1>4. /\ \A h \in Goroutines \ {Checker, r} : thread'[h] = thread[h]
      /\ Gets(Checker, <<>>, Noise, None)
      /\ Gets(r, <<"read">>, Noise, IF program = "multipusher" THEN r ELSE conn)
  BY <1>3, SpawnEffect
<1>5. /\ program' = program /\ overtaken' = overtaken /\ late' = late \ {r}
      /\ UNCHANGED <<isConnected, conn, open>>
  BY DEF SpawnReader, link
<1>6. Todo(r) = <<"dead">>
  BY <1>2, Kinds DEF Held, CheckerConn
<1> HIDE DEF r
<1>7. Todo(Checker)' \notin Opening
  BY <1>4, LinkKinds DEF Gets, Todo
<1>8. open \subseteq Conns /\ None \notin Conns
  BY GoroutinesDiffer DEF Held
<1>9. OneIsOpen' /\ OldIsGone'
  BY <1>3, <1>4, <1>5, <1>7 DEF Linked, OneIsOpen, OldIsGone, Kept, Gets, r
<1>10. ClosesOrShuts'
  <2> SUFFICES ASSUME Kept, ~isConnected, conn \in open
               PROVE  \E h \in Goroutines : At(h, "shut")'
    BY <1>5 DEF ClosesOrShuts, Kept
  <2>1. PICK h \in Goroutines : At(h, "shut")
    BY DEF Linked, ClosesOrShuts
  <2>2. h # Checker /\ h # r
    BY <1>2, <1>6, <2>1 DEF At, Todo
  <2>3. QED
    BY <1>4, <2>1, <2>2 DEF At
<1>11. ASSUME NEW k \in Conns \ late'
       PROVE  /\ Todo(k)' = <<"read">> => thread'[k].to = conn
              /\ Todo(k)' \in Closing => conn \notin open
  <2>1. CASE k = r
    BY <1>3, <1>4, <2>1, LinkKinds DEF Gets, Todo
  <2>2. CASE k # r
    <3>1. Todo(k)' = Todo(k) /\ thread'[k].to = thread[k].to
      BY <1>4, <2>2, GoroutinesDiffer DEF Todo
    <3>2. QED
      BY <1>5, <2>2, <3>1 DEF Linked, ReadersReadIt, ErrorsAreOfIt
  <2>3. QED
    BY <2>1, <2>2
<1>12. ReadersReadIt' /\ ErrorsAreOfIt'
  BY <1>5, <1>11 DEF ReadersReadIt, ErrorsAreOfIt
<1>13. QED
  BY <1>9, <1>10, <1>12 DEF Linked

LEMMA LinkedInit == Init => Linked
<1> SUFFICES ASSUME Init
             PROVE  Linked
  OBVIOUS
<1>1. Todo(Checker) = <<>> /\ open = {} /\ \A k \in Conns : Todo(k) = <<"dead">>
  BY DeadThread, GoroutinesDiffer DEF Init, Todo
<1>2. QED
  BY <1>1, LinkKinds DEF Linked, OneIsOpen, OldIsGone, ClosesOrShuts, ReadersReadIt,
     ErrorsAreOfIt

LEMMA LinkedNext ==
  ASSUME ThreadsFit, Held, Locks, Linked, [Next]_vars
  PROVE  Linked'
<1>1. ASSUME NEW g \in Goroutines, Step(g)
      PROVE  Linked'
  BY <1>1, LinkedLog, LinkedShorten, LinkedSend, LinkedSet DEF Step
<1>2. ASSUME UNCHANGED <<program, late, overtaken, isConnected, conn, thread>>, open' \subseteq open
      PROVE  Linked'
  BY <1>2 DEF Linked, OneIsOpen, OldIsGone, ClosesOrShuts, ReadersReadIt,
     ErrorsAreOfIt, Kept, Todo, At
<1>3. CASE ConnFails \/ UNCHANGED vars
  <2>1. UNCHANGED <<program, late, overtaken, isConnected, conn, thread>> /\ open' \subseteq open
    BY <1>3 DEF ConnFails, vars, link, history
  <2>2. QED
    BY <1>2, <2>1
<1>4. CASE AutoWrite
  <2>1. UNCHANGED <<program, late, overtaken, isConnected, conn, open>>
    BY <1>4 DEF AutoWrite, link, history
  <2>2. CASE Moves("autoWrite") /\ Dies("autoWrite")
    <3>1. "autoWrite" \in Goroutines /\ "autoWrite" # Checker /\ "autoWrite" \notin Conns /\ Checker \in Goroutines
      BY GoroutinesDiffer
    <3>2. ~At("autoWrite", "shut") /\ thread'[Checker] = thread[Checker]
      BY <1>4, <2>2, <3>1 DEF AutoWrite, Idle, At, Moves
    <3>3. QED
      BY <2>1, <2>2, <3>1, <3>2, MoveKeepsLinked
  <2>3. QED
    BY <1>2, <1>4, <2>1, <2>2, WriterEffect
<1>5. CASE Next
  <2>1. Sender \in Goroutines /\ Checker \in Goroutines /\ Callers \subseteq Goroutines /\ Conns \subseteq Goroutines
    BY GoroutinesDiffer
  <2>2. QED
    BY <1>1, <1>3, <1>4, <1>5, <2>1, LinkedShorten, LinkedBegin, LinkedConnect, LinkedDial, LinkedReader,
       LinkedSpawn
       DEF Next, Processqueue, Checkstatus, Reader
<1>6. QED
  BY <1>3, <1>5

\* The remote log keeps at most the connection it uses and the one it has just made open
\* (remote.go: close, checkstatus, the readers), in the backend as long as no reader was
\* overtaken by a new connection; and of both programs only such a reader closes the
\* current connection for an error that is not its own.
THEOREM TheLogKeepsItsConnection == Spec => []ConnsAreKept
<1>1. ThreadsFit /\ Held /\ Linked => ConnsAreKept
  <2> SUFFICES ASSUME ThreadsFit, Held, Linked
               PROVE  ConnsAreKept
    OBVIOUS
  <2>1. NoConnIsLost
    BY DEF Linked, OneIsOpen, Kept, NoConnIsLost
  <2>2. ASSUME NEW k \in Conns \ late, At(k, "close") \/ At(k, "shut")
        PROVE  conn \notin open
    <3>1. Todo(k) \in ReaderTodos
      BY <2>2, GoroutinesDiffer DEF ThreadsFit, Fits
    <3>2. Todo(k) # <<>> /\ (Head(Todo(k)) = "close" \/ Head(Todo(k)) = "shut")
      BY <2>2 DEF At, Todo
    <3>3. Todo(k) \in Closing
      BY <3>1, <3>2 DEF ReaderTodos, Reads, Ended, Stops, Closing
    <3>4. QED
      BY <2>2, <3>3 DEF Linked, ErrorsAreOfIt
  <2>3. QED
    BY <2>1, <2>2 DEF ConnsAreKept, HealthyConnStays
<1>2. QED
  BY <1>1, HeldInit, HeldNext, LocksInit, LocksNext, LinkedInit, LinkedNext, PTL DEF Spec

-----------------------------------------------------------------------------
(* The queue of the log server.                                            *)

\* The messages of q and the one in hand, h, are in order, after l and before n.
Ordered(q, h, l, n) ==
  /\ l < n /\ (h # Noise => l < h /\ h < n)
  /\ \A i \in 1..Len(q) : q[i] # Noise => l < q[i] /\ q[i] < n /\ (h # Noise => h < q[i])
  /\ \A i, j \in 1..Len(q) : i < j /\ q[i] # Noise /\ q[j] # Noise => q[i] < q[j]

\* A message that comes last keeps the order.
LEMMA OrderedAppend ==
  ASSUME NEW q \in Seq(Nat), NEW h \in Nat, NEW l \in Nat, NEW n \in Nat, Ordered(q, h, l, n),
         NEW m \in Nat, NEW n1 \in Nat, (m = Noise /\ n1 = n) \/ (m = n /\ n1 = n + 1)
  PROVE  Ordered(Append(q, m), h, l, n1)
<1> DEFINE p == Append(q, m)
<1>1. /\ p \in Seq(Nat) /\ Len(p) = Len(q) + 1 /\ p[Len(q) + 1] = m /\ Len(q) \in Nat
      /\ \A i \in 1..Len(q) : p[i] = q[i]
  BY AppendProperties
<1> HIDE DEF p
<1>2. \A i \in 1..Len(p) : i \in 1..Len(q) \/ i = Len(q) + 1
  BY <1>1
<1>3. \A i \in 1..Len(q) : q[i] \in Nat
  BY ElementOfSeq
<1>4. \A i \in 1..Len(p) : p[i] # Noise => l < p[i] /\ p[i] < n1 /\ (h # Noise => h < p[i])
  <2> SUFFICES ASSUME NEW i \in 1..Len(p), p[i] # Noise
               PROVE  l < p[i] /\ p[i] < n1 /\ (h # Noise => h < p[i])
    OBVIOUS
  <2>1. l < n /\ (h # Noise => h < n) /\ n <= n1
    BY DEF Ordered
  <2>2. CASE i \in 1..Len(q)
    <3>1. p[i] = q[i] /\ q[i] \in Nat /\ l < q[i] /\ q[i] < n /\ (h # Noise => h < q[i])
      BY <1>1, <1>3, <2>2 DEF Ordered
    <3>2. QED
      BY <2>1, <3>1
  <2>3. CASE i = Len(q) + 1
    <3>1. p[i] = n /\ n1 = n + 1
      BY <1>1, <2>3
    <3>2. QED
      BY <2>1, <3>1
  <2>4. QED
    BY <1>2, <2>2, <2>3
<1>5. \A i, j \in 1..Len(p) : i < j /\ p[i] # Noise /\ p[j] # Noise => p[i] < p[j]
  <2> SUFFICES ASSUME NEW i \in 1..Len(p), NEW j \in 1..Len(p), i < j, p[i] # Noise, p[j] # Noise
               PROVE  p[i] < p[j]
    OBVIOUS
  <2>1. i \in 1..Len(q) /\ p[i] = q[i]
    <3>1. j <= Len(q) + 1 /\ i \in Nat /\ j \in Nat /\ i >= 1
      BY <1>1
    <3>2. i \in 1..Len(q)
      BY <1>1, <3>1
    <3>3. QED
      BY <1>1, <3>2
  <2>2. CASE j \in 1..Len(q)
    BY <1>1, <2>1, <2>2 DEF Ordered
  <2>3. CASE j = Len(q) + 1
    BY <1>1, <2>1, <2>3 DEF Ordered
  <2>4. QED
    BY <1>2, <2>2, <2>3
<1>6. QED
  BY <1>4, <1>5 DEF Ordered, p

\* So does dropping the first, or taking it in hand.
LEMMA OrderedTail ==
  ASSUME NEW q \in Seq(Nat), q # <<>>, NEW h \in Nat, NEW l \in Nat, NEW n \in Nat, Ordered(q, h, l, n)
  PROVE  /\ Ordered(Tail(q), h, l, n)
         /\ h = Noise => Ordered(Tail(q), Head(q), l, n)
<1> DEFINE t == Tail(q)
<1>1. /\ t \in Seq(Nat) /\ Len(t) = Len(q) - 1 /\ Head(q) = q[1] /\ Len(q) \in Nat /\ Len(q) >= 1
      /\ \A i \in 1..Len(t) : t[i] = q[i + 1] /\ i + 1 \in 1..Len(q) /\ 1 < i + 1
  <2>1. Len(q) \in Nat /\ Len(q) >= 1
    BY EmptySeq
  <2>2. t \in Seq(Nat) /\ Len(t) = Len(q) - 1 /\ Head(q) = q[1] /\ \A i \in 1..Len(t) : t[i] = q[i + 1]
    BY HeadTailProperties
  <2>3. QED
    BY <2>1, <2>2
<1> HIDE DEF t
<1>2. 1 \in 1..Len(q) /\ \A i \in 1..Len(q) : q[i] \in Nat
  BY <1>1, ElementOfSeq
<1>3. \A i, j \in 1..Len(t) : i < j => i + 1 < j + 1
  BY <1>1
<1>4. Ordered(t, h, l, n)
  BY <1>1, <1>3 DEF Ordered
<1>5. ASSUME h = Noise
      PROVE  Ordered(t, Head(q), l, n)
  BY <1>1, <1>2, <1>3, <1>5 DEF Ordered
<1>6. QED
  BY <1>4, <1>5 DEF t

\* So does putting the message in hand back before the others.
LEMMA OrderedPush ==
  ASSUME NEW q \in Seq(Nat), NEW h \in Nat, NEW l \in Nat, NEW n \in Nat, Ordered(q, h, l, n)
  PROVE  Ordered(<<h>> \o q, Noise, l, n)
<1> DEFINE p == <<h>> \o q
<1>1. /\ Len(p) = 1 + Len(q) /\ Len(q) \in Nat /\ p[1] = h
      /\ \A i \in 2..Len(p) : p[i] = q[i - 1] /\ i - 1 \in 1..Len(q)
  <2>1. <<h>> \in Seq(Nat) /\ Len(<<h>>) = 1 /\ <<h>>[1] = h /\ Len(q) \in Nat
    OBVIOUS
  <2>2. /\ Len(p) = Len(<<h>>) + Len(q)
        /\ \A i \in 1 .. Len(<<h>>) + Len(q) :
             p[i] = IF i <= Len(<<h>>) THEN <<h>>[i] ELSE q[i - Len(<<h>>)]
    BY <2>1, ConcatProperties
  <2> HIDE DEF p
  <2>3. QED
    BY <2>1, <2>2
<1> HIDE DEF p
<1>2. \A i \in 1..Len(p) : i = 1 \/ i \in 2..Len(p)
  BY <1>1
<1>3. \A i \in 1..Len(p) : p[i] # Noise => l < p[i] /\ p[i] < n
  BY <1>1, <1>2 DEF Ordered
<1>4. \A i, j \in 1..Len(p) : i < j /\ p[i] # Noise /\ p[j] # Noise => p[i] < p[j]
  <2> SUFFICES ASSUME NEW i \in 1..Len(p), NEW j \in 1..Len(p), i < j, p[i] # Noise, p[j] # Noise
               PROVE  p[i] < p[j]
    OBVIOUS
  <2>1. j \in 2..Len(p)
    BY <1>1
  <2>2. CASE i = 1
    BY <1>1, <2>1, <2>2 DEF Ordered
  <2>3. CASE i \in 2..Len(p)
    <3>1. i - 1 < j - 1 /\ p[i] = q[i - 1] /\ p[j] = q[j - 1] /\ i - 1 \in 1..Len(q) /\ j - 1 \in 1..Len(q)
      BY <1>1, <2>1, <2>3
    <3>2. QED
      BY <3>1 DEF Ordered
  <2>4. QED
    BY <1>2, <2>2, <2>3
<1>5. QED
  BY <1>3, <1>4 DEF Ordered, p

Hand == thread[Sender].what

Sound ==
  /\ last \in Nat
  /\ Ordered(queue, Hand, last, next)
  /\ Len(queue) <= MaxQueue + 1
  /\ Todo(Sender) # <<>> => Len(queue) <= MaxQueue
  /\ Todo(Sender) \in {<<>>, <<"unlock">>} => Hand = Noise
  /\ thread[Checker].what = Noise

\* A goroutine that puts a message does not disturb it.
LEMMA PutIsSound ==
  ASSUME ThreadsFit, Sound, NEW g, PutRemote(g)
  PROVE  /\ Ordered(queue', Hand, last, next')
         /\ Len(queue') <= MaxQueue + 1
         /\ Len(queue) <= MaxQueue => Len(queue') <= MaxQueue
<1>1. PICK m \in Nat, n \in Nat :
        /\ (m = Noise /\ n = next) \/ (m = next /\ n = next + 1)
        /\ queue' = Put(m) /\ next' = n
  <2>1. CASE g \in Callers
    BY <2>1 DEF PutRemote, ThreadsFit
  <2>2. CASE g \notin Callers
    BY <2>2 DEF PutRemote, ThreadsFit, Noise
  <2>3. QED
    BY <2>1, <2>2
<1>2. queue \in Seq(Nat) /\ next \in Nat /\ Hand \in Nat /\ last \in Nat /\ Ordered(queue, Hand, last, next)
      /\ MaxQueue \in Nat
  BY GoroutinesDiffer, LoggerAssumption DEF ThreadsFit, Thread, Sound, Hand
<1> DEFINE q == Append(queue, m)
<1>3. /\ q \in Seq(Nat) /\ Len(q) = Len(queue) + 1 /\ Len(queue) \in Nat /\ q # <<>>
      /\ Ordered(q, Hand, last, n)
  BY <1>1, <1>2, AppendProperties, OrderedAppend
<1>4. queue' = IF Len(q) > MaxQueue THEN Tail(q) ELSE q
  BY <1>1 DEF Put
<1> HIDE DEF q
<1>5. Len(Tail(q)) = Len(q) - 1 /\ Ordered(Tail(q), Hand, last, n)
  BY <1>2, <1>3, HeadTailProperties, OrderedTail
<1>6. QED
  BY <1>1, <1>2, <1>3, <1>4, <1>5 DEF Sound

\* A message in hand may be lost, or the queue stays as it is.
LEMMA HandIsDropped ==
  ASSUME NEW q, NEW h, NEW l, NEW n, Ordered(q, h, l, n)
  PROVE  Ordered(q, Noise, l, n)
  BY DEF Ordered

\* A step that puts nothing into the queue of the log server keeps it so.
LEMMA SoundQuiet ==
  ASSUME ThreadsFit, Sound, UNCHANGED <<queue, next, last>>,
         Hand' = Hand \/ Hand' = Noise,
         Todo(Sender)' # <<>> => Len(queue) <= MaxQueue,
         Todo(Sender)' \in {<<>>, <<"unlock">>} => Hand' = Noise,
         thread'[Checker].what \in {thread[Checker].what, Noise}
  PROVE  Sound'
<1>1. Ordered(queue, Hand', last, next)
  BY HandIsDropped DEF Sound
<1>2. QED
  BY <1>1 DEF Sound

\* Nor does one of another goroutine.
LEMMA SoundOthers ==
  ASSUME ThreadsFit, Sound, UNCHANGED <<queue, next, last>>, thread'[Sender] = thread[Sender],
         thread'[Checker].what \in {thread[Checker].what, Noise}
  PROVE  Sound'
  BY SoundQuiet DEF Sound, Hand, Todo

LEMMA SoundLog ==
  ASSUME ThreadsFit, Sound, NEW g \in Goroutines, AddLog(g) \/ AddLogLater(g)
  PROVE  Sound'
<1>1. /\ Moves(g)
      /\ \/ g \in Conns /\ Todo(g) = <<"log">> /\ Dies(g)
         \/ g \notin Conns /\ Goes(g, <<"log">>, <<>>)
         \/ Goes(g, <<"log", "unlock">>, <<"unlock">>)
         \/ Goes(g, <<"log", "unlock", "back">>, <<"unlock", "back">>)
         \/ Goes(g, <<"log", "dial">>, <<"dial">>)
         \/ Goes(g, <<"log", "spawn">>, <<"spawn">>)
         \/ stuck /\ Goes(g, Todo(g), <<"hang">>)
         \/ Dies(g) /\ stuck' /\ rmutex' # g
      /\ Todo(g) \in AllTodos \ {<<>>}
  BY LogEffect
<1>2. last' = last /\ PutRemote(g)
  BY DEF AddLog, AddLogLater
<1>3. /\ Ordered(queue', Hand, last, next') /\ Len(queue') <= MaxQueue + 1
      /\ Len(queue) <= MaxQueue => Len(queue') <= MaxQueue
  BY <1>2, PutIsSound
<1>4. thread'[Checker].what \in {thread[Checker].what, Noise}
  BY <1>1, GoroutinesDiffer DEF Moves, Goes, Dies
<1>5. CASE g # Sender
  <2>1. thread'[Sender] = thread[Sender]
    BY <1>1, <1>5, GoroutinesDiffer DEF Moves
  <2>2. QED
    BY <1>2, <1>3, <1>4, <2>1 DEF Sound, Hand, Todo
<1>6. CASE g = Sender
  <2>1. Fits(g, Todo(g)) /\ g \notin Conns
    BY <1>6, GoroutinesDiffer DEF ThreadsFit
  <2>2. Todo(g) # <<"log">> /\ Todo(g) # <<"log", "unlock">> /\ Todo(g) # <<"log", "dial">>
        /\ Todo(g) # <<"log", "spawn">>
    <3>1. Todo(g) # <<"log">>
      BY <1>6, <2>1 DEF Fits, SenderTodos, Stops
    <3>2. QED
      BY <1>6, <2>1, <3>1, FitsOn, GoroutinesDiffer
  <2>3. \/ Todo(g)' = <<"unlock", "back">> /\ Hand' = Hand
        \/ Todo(g)' = <<"hang">> /\ Hand' = Hand
        \/ Todo(g)' = <<"dead">> /\ Hand' = Noise
    BY <1>1, <1>6, <2>1, <2>2 DEF Goes, Dies, Todo, Hand
  <2>4. Todo(g)' # <<>> /\ Todo(g)' # <<"unlock">> /\ Todo(g) # <<>>
    BY <1>1, <2>3
  <2>5. Ordered(queue', Hand', last, next')
    BY <1>3, <2>3, HandIsDropped
  <2>6. QED
    BY <1>2, <1>3, <1>6, <1>4, <2>4, <2>5 DEF Sound
<1>7. QED
  BY <1>5, <1>6

LEMMA SoundShorten ==
  ASSUME ThreadsFit, Sound, NEW g \in Goroutines, Lock(g) \/ Unlock(g) \/ ShutConn(g) \/ SetConn(g)
  PROVE  Sound'
<1>1. UNCHANGED <<queue, next, last>>
  BY DEF Lock, Unlock, ShutConn, SetConn, counts
<1>2. /\ Moves(g)
      /\ \/ Goes(g, <<"lock", "send">>, <<"send">>)
         \/ Goes(g, <<"lock", "close">>, <<"close">>)
         \/ Goes(g, <<"lock", "set", "log", "spawn">>, <<"set", "log", "spawn">>)
         \/ Goes(g, <<"unlock">>, <<>>)
         \/ Goes(g, <<"unlock", "back">>, <<"back">>)
         \/ Goes(g, <<"shut", "log">>, <<"log">>)
         \/ Goes(g, <<"shut", "log", "unlock">>, <<"log", "unlock">>)
         \/ Goes(g, <<"shut", "log", "unlock", "back">>, <<"log", "unlock", "back">>)
         \/ Goes(g, <<"set", "log", "spawn">>, <<"log", "spawn">>)
  BY ShortenEffect
<1>3. thread'[Checker].what \in {thread[Checker].what, Noise}
  BY <1>2, GoroutinesDiffer DEF Moves, Goes
<1>4. CASE g # Sender
  <2>1. thread'[Sender] = thread[Sender]
    BY <1>2, <1>4, GoroutinesDiffer DEF Moves
  <2>2. QED
    BY <1>1, <1>3, <2>1, SoundOthers
<1>5. CASE g = Sender
  <2>1. Hand' = Hand
    BY <1>2, <1>5 DEF Goes, Hand
  <2>2. Todo(g) # <<>>
    BY DEF Lock, Unlock, ShutConn, SetConn, At, Todo
  <2>3. CASE Goes(g, <<"unlock">>, <<>>)
    <3>1. Hand' = Noise /\ Todo(g)' = <<>>
      BY <1>5, <2>1, <2>3 DEF Goes, Todo, Sound
    <3>2. QED
      BY <1>1, <1>5, <1>3, <3>1, SoundQuiet
  <2>4. CASE ~Goes(g, <<"unlock">>, <<>>)
    <3> DEFINE T == {<<"send">>, <<"close">>, <<"set", "log", "spawn">>, <<"back">>, <<"log">>,
                     <<"log", "unlock">>, <<"log", "unlock", "back">>, <<"log", "spawn">>}
    <3>1. \A t \in T : t # <<>> /\ t # <<"unlock">>
      OBVIOUS
    <3>2. /\ <<"send">> \in T /\ <<"close">> \in T /\ <<"set", "log", "spawn">> \in T /\ <<"back">> \in T
          /\ <<"log">> \in T /\ <<"log", "unlock">> \in T /\ <<"log", "unlock", "back">> \in T
          /\ <<"log", "spawn">> \in T
      OBVIOUS
    <3> HIDE DEF T
    <3>3. Todo(g)' \in T
      BY <1>2, <2>4, <3>2 DEF Goes, Todo
    <3>4. QED
      BY <1>1, <1>5, <1>3, <2>1, <2>2, <3>1, <3>3, SoundQuiet DEF Sound
  <2>5. QED
    BY <2>3, <2>4
<1>6. QED
  BY <1>4, <1>5

LEMMA SoundSend ==
  ASSUME ThreadsFit, Sound, NEW g \in Goroutines, SendWorks(g) \/ SendFails(g)
  PROVE  Sound'
<1>1. /\ Moves(g) /\ Todo(g) = <<"send">>
      /\ SendWorks(g) => Gets(g, <<"unlock">>, Noise, None)
      /\ SendFails(g) => \/ Goes(g, <<"send">>, <<"log", "unlock", "back">>)
                         \/ Goes(g, <<"send">>, <<"log", "unlock">>)
                         \/ Goes(g, <<"send">>, <<"shut", "log", "unlock", "back">>)
                         \/ Goes(g, <<"send">>, <<"shut", "log", "unlock">>)
  BY SendEffect
<1>2. queue' = queue /\ next' = next /\ (SendFails(g) => last' = last)
      /\ (SendWorks(g) => last' = IF thread[g].what = Noise THEN last ELSE thread[g].what)
  BY DEF SendWorks, SendFails
<1>3. thread'[Checker].what \in {thread[Checker].what, Noise}
  BY <1>1, GoroutinesDiffer DEF Moves, Goes, Gets
<1>4. CASE g = Sender
  <2>1. Len(queue) <= MaxQueue
    BY <1>1, <1>4 DEF Sound
  <2>2. CASE SendWorks(g)
    <3>1. Hand' = Noise /\ Todo(g)' # <<>> /\ last' = (IF Hand = Noise THEN last ELSE Hand)
      BY <1>1, <1>2, <1>4, <2>2 DEF Gets, Hand, Todo
    <3>2. last' \in Nat
      BY <1>4, <3>1 DEF Sound, Hand, ThreadsFit, Thread
    <3>3. Ordered(queue, Noise, last', next)
      BY <3>1 DEF Sound, Ordered
    <3>4. QED
      BY <1>2, <1>4, <1>3, <2>1, <3>1, <3>2, <3>3 DEF Sound
  <2>3. CASE SendFails(g)
    <3>1. Hand' = Hand
      BY <1>1, <1>4, <2>3 DEF Goes, Hand
    <3>2. Todo(g)' # <<>> /\ Todo(g)' # <<"unlock">>
      BY <1>1, <2>3 DEF Goes, Todo
    <3>3. QED
      BY <1>2, <1>4, <1>3, <2>1, <2>3, <3>1, <3>2, SoundQuiet
  <2>4. QED
    BY <2>2, <2>3
<1>5. CASE g # Sender
  <2>1. thread'[Sender] = thread[Sender]
    BY <1>1, <1>5, GoroutinesDiffer DEF Moves
  <2>2. thread[g].what = Noise
    <3>1. g = Checker
      BY <1>5, SendEffect
    <3>2. QED
      BY <3>1 DEF Sound
  <2>3. last' = last
    BY <1>2, <2>2
  <2>4. QED
    BY <1>2, <1>3, <2>1, <2>3, SoundOthers
<1>6. QED
  BY <1>4, <1>5

LEMMA SoundPop ==
  ASSUME ThreadsFit, Sound, PopFront \/ PutBack
  PROVE  Sound'
<1>1. /\ queue \in Seq(Nat) /\ next \in Nat /\ last \in Nat /\ Hand \in Nat /\ MaxQueue \in Nat
      /\ Ordered(queue, Hand, last, next) /\ Len(queue) \in Nat
  BY GoroutinesDiffer, LoggerAssumption DEF ThreadsFit, Thread, Sound, Hand
<1>2. next' = next /\ last' = last
  BY DEF PopFront, PutBack, counts
<1>3. CASE PopFront
  <2>1. /\ Moves(Sender) /\ Todo(Sender) = <<>>
        /\ Gets(Sender, <<"lock", "send">>, Head(queue), None)
    BY <1>3, BeginEffect
  <2>2. queue # <<>> /\ queue' = Tail(queue)
    BY <1>3 DEF PopFront
  <2>3. Hand = Noise /\ Len(queue) <= MaxQueue + 1
    BY <2>1 DEF Sound
  <2>4. Len(Tail(queue)) = Len(queue) - 1 /\ Ordered(Tail(queue), Head(queue), last, next)
    BY <1>1, <2>2, <2>3, HeadTailProperties, OrderedTail
  <2>5. Hand' = Head(queue) /\ Todo(Sender)' = <<"lock", "send">> /\ thread'[Checker] = thread[Checker]
    BY <2>1, GoroutinesDiffer DEF Gets, Moves, Hand, Todo
  <2>6. <<"lock", "send">> \notin {<<>>, <<"unlock">>}
    OBVIOUS
  <2>7. QED
    BY <1>1, <1>2, <2>2, <2>3, <2>4, <2>5, <2>6 DEF Sound
<1>4. CASE PutBack
  <2>1. Moves(Sender) /\ Todo(Sender) = <<"back">> /\ Gets(Sender, <<>>, Noise, None)
    BY <1>4, BeginEffect
  <2>2. queue' = <<Hand>> \o queue
    BY <1>4 DEF PutBack, PushFront, Hand
  <2>3. Len(queue) <= MaxQueue
    BY <2>1 DEF Sound
  <2>4. Len(<<Hand>> \o queue) = 1 + Len(queue)
    <3>1. <<Hand>> \in Seq(Nat) /\ Len(<<Hand>>) = 1
      BY <1>1
    <3>2. QED
      BY <1>1, <3>1, ConcatProperties
  <2>5. Ordered(queue', Noise, last, next)
    BY <1>1, <2>2, OrderedPush
  <2>6. Hand' = Noise /\ Todo(Sender)' = <<>> /\ thread'[Checker] = thread[Checker]
    BY <2>1, GoroutinesDiffer DEF Gets, Moves, Hand, Todo
  <2>7. QED
    BY <1>1, <1>2, <2>2, <2>3, <2>4, <2>5, <2>6 DEF Sound
<1>5. QED
  BY <1>3, <1>4

LEMMA SoundInit == Init => Sound
<1> SUFFICES ASSUME Init
             PROVE  Sound
  OBVIOUS
<1>1. thread[Sender] = Rest /\ thread[Checker] = Rest
  BY GoroutinesDiffer DEF Init
<1>2. queue = <<>> /\ Len(queue) = 0 /\ next = 1 /\ last = 0 /\ MaxQueue \in Nat
  BY LoggerAssumption DEF Init
<1>3. QED
  BY <1>1, <1>2, DeadThread DEF Sound, Ordered, Hand, Todo, Noise

LEMMA SoundNext ==
  ASSUME ThreadsFit, Held, Sound, [Next]_vars
  PROVE  Sound'
<1>1. ASSUME NEW g \in Goroutines, Step(g)
      PROVE  Sound'
  BY <1>1, SoundLog, SoundShorten, SoundSend DEF Step
<1>2. ASSUME NEW g \in Goroutines \ {Sender}, Moves(g), UNCHANGED <<queue, next, last>>,
             g = Checker => thread'[g].what \in {thread[g].what, Noise}
      PROVE  Sound'
  <2>1. thread'[Sender] = thread[Sender] /\ thread'[Checker].what \in {thread[Checker].what, Noise}
    BY <1>2, GoroutinesDiffer DEF Moves
  <2>2. QED
    BY <1>2, <2>1, SoundOthers
<1>3. CASE KeepAlive \/ Connect \/ Dial
  <2>1. UNCHANGED <<queue, next, last>>
    BY <1>3 DEF KeepAlive, Connect, Dial, counts
  <2>2. Moves(Checker) /\ thread'[Checker].what \in {thread[Checker].what, Noise}
    BY <1>3, BeginEffect, DialEffect DEF Gets, Goes
  <2>3. QED
    BY <1>2, <2>1, <2>2, GoroutinesDiffer
<1>4. ASSUME NEW c \in Callers, Log(c)
      PROVE  Sound'
  <2>1. UNCHANGED <<queue, next, last>> /\ Moves(c)
    BY <1>4, BeginEffect DEF Log, counts
  <2>2. QED
    BY <1>2, <2>1, GoroutinesDiffer
<1>5. ASSUME NEW k \in Conns, ReadsOn(k) \/ ReadFails(k) \/ ReaderCloses(k)
      PROVE  Sound'
  <2>1. UNCHANGED <<queue, next, last>>
    BY <1>5 DEF ReadsOn, ReadFails, ReaderCloses, counts
  <2>2. Moves(k)
    BY <1>5, ReaderEffect DEF Held
  <2>3. QED
    BY <1>2, <2>1, <2>2, GoroutinesDiffer
<1>6. CASE SpawnReader
  <2>1. Todo(Checker) \in AllTodos /\ Todo(Checker) # <<>> /\ Head(Todo(Checker)) = "spawn"
    BY <1>6, GoroutinesDiffer DEF SpawnReader, At, Todo, ThreadsFit, Thread
  <2>2. thread[Checker].to \in Conns /\ conn = thread[Checker].to
    BY <2>1, Tails, Kinds DEF Held, CheckerConn
  <2>3. thread'[Sender] = thread[Sender] /\ thread'[Checker].what = Noise
    BY <1>6, <2>2, SpawnEffect, GoroutinesDiffer DEF Gets
  <2>4. UNCHANGED <<queue, next, last>>
    BY <1>6 DEF SpawnReader, counts
  <2>5. QED
    BY <2>3, <2>4, SoundOthers
<1>7. CASE AutoWrite \/ ConnFails \/ UNCHANGED vars
  <2>1. UNCHANGED <<queue, next, last>>
    BY <1>7 DEF AutoWrite, ConnFails, vars, counts
  <2>2. CASE thread' = thread
    BY <2>1, <2>2, SoundOthers
  <2>3. CASE AutoWrite /\ thread' # thread
    BY <1>2, <2>1, <2>3, WriterEffect, GoroutinesDiffer
  <2>4. QED
    BY <1>7, <2>2, <2>3 DEF ConnFails, vars
<1>8. CASE Next
  <2>1. Sender \in Goroutines /\ Checker \in Goroutines /\ Callers \subseteq Goroutines /\ Conns \subseteq Goroutines
    BY GoroutinesDiffer
  <2>2. QED
    BY <1>1, <1>3, <1>4, <1>5, <1>6, <1>7, <1>8, <2>1, SoundShorten, SoundPop
       DEF Next, Processqueue, Checkstatus, Reader
<1>9. QED
  BY <1>7, <1>8

\* The messages of the program reach the log server in the order of the calls and at most
\* once, also those put back after a failed send (remote.go: processqueue, push_front), and
\* the queue holds at most the limit and the one put back.
THEOREM TheQueueKeepsItsOrder == Spec => []QueueIsSound
<1>1. ThreadsFit /\ Sound => QueueIsSound
  <2> SUFFICES ASSUME ThreadsFit, Sound
               PROVE  QueueIsSound
    OBVIOUS
  <2>1. /\ queue \in Seq(Nat) /\ Hand \in Nat /\ last \in Nat /\ next \in Nat /\ Len(queue) \in Nat
        /\ Ordered(queue, Hand, last, next)
    BY GoroutinesDiffer DEF ThreadsFit, Thread, Sound, Hand
  <2>2. Pending = <<Hand>> \o queue
    BY DEF Pending, Hand
  <2>3. Ordered(Pending, Noise, last, next)
    BY <2>1, <2>2, OrderedPush
  <2>4. DOMAIN Pending = 1..Len(Pending)
    <3>1. <<Hand>> \in Seq(Nat)
      BY <2>1
    <3>2. Pending \in Seq(Nat)
      BY <2>1, <2>2, <3>1, ConcatProperties
    <3>3. QED
      BY <3>2, LenProperties
  <2>5. InOrder
    BY <2>3, <2>4 DEF InOrder, Ordered
  <2>6. QED
    BY <2>5 DEF Sound, QueueIsSound, QueueIsBounded
<1>2. QED
  BY <1>1, HeldInit, HeldNext, SoundInit, SoundNext, PTL DEF Spec

=============================================================================
