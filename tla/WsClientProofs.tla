--------------------------- MODULE WsClientProofs ---------------------------
(***************************************************************************)
(* Proofs about the reconnecting client, for any number of connections and *)
(* however late its goroutines are.                                        *)
(***************************************************************************)
EXTENDS WsClient, FiniteSetTheorems, TLAPS

\* While Start makes the first connection nobody else can: there is no loop that
\* could trigger, so reconnectLoop waits.
StartIsAlone ==
  At(Thread, "dial") \/ At(Thread, "adopt") \/ At(Thread, "begin") =>
    /\ ~signal
    /\ pc[Recon] \in {"top", "wait", "end"}
    /\ \A p \in Loops : At(p, "none")

\* Whoever dials finds no connection in c.conn.
DialsWithoutConn ==
  \/ At(Thread, "dial") \/ At(Thread, "adopt")
  \/ pc[Recon] \in {"retry", "sleep", "poll", "dial", "adopt"}
  => conn = 0

\* Whoever adopts a connection has made one.
AdoptsMade ==
  At(Thread, "adopt") \/ At(Thread, "begin") \/ At(Recon, "adopt") \/ At(Recon, "begin") => made # 0

\* The inductive invariant.  OldConnsAreClosed alone is not inductive: that a new
\* connection replaces none that is open is DialsWithoutConn, and that two
\* goroutines never dial at the same time is StartIsAlone.
IInv == TypeOK /\ StartIsAlone /\ DialsWithoutConn /\ AdoptsMade /\ OldConnsAreClosed

\* The goroutines are all different.
LEMMA ProcsDiffer ==
  /\ Thread # Recon /\ Thread \notin Loops /\ Recon \notin Loops
  /\ Readers \cap Beats = {} /\ Loops = Readers \cup Beats
  /\ Procs = Readers \cup Beats \cup {Thread, Recon}
  /\ \A n \in Conns : Reader(n) \in Readers /\ Beat(n) \in Beats
  BY DEF Thread, Recon, Loops, Readers, Beats, Reader, Beat, Procs

\* The invariant holds when Start is about to connect.
LEMMA IInvInit == Init => IInv
<1> SUFFICES ASSUME Init PROVE IInv
  OBVIOUS
<1>1. PcTypeOK
  BY ProcsDiffer DEF Init, PcTypeOK, Pcs, ReaderPcs, BeatPcs, ThreadPcs, ReconPcs
<1>2. ClientTypeOK
  <2>1. 0 \in 0..MaxConns
    BY ClientAssumption
  <2>2. link \in [Conns -> LinkStates]
    BY DEF Init, LinkStates
  <2> QED
    BY <2>1, <2>2 DEF Init, ClientTypeOK
<1>3. /\ pc[Thread] = "dial" /\ pc[Recon] = "top" /\ \A p \in Loops : pc[p] = "none"
      /\ conn = 0 /\ ~signal /\ \A n \in Conns : link[n] = "none"
  BY ProcsDiffer DEF Init
<1>4. LoopTypeOK
  BY <1>3, ClientAssumption DEF Init, LoopTypeOK
<1>5. StartIsAlone /\ DialsWithoutConn /\ AdoptsMade /\ OldConnsAreClosed
  BY <1>3 DEF StartIsAlone, DialsWithoutConn, AdoptsMade, OldConnsAreClosed, At, Live
<1> QED
  BY <1>1, <1>2, <1>4, <1>5 DEF IInv, TypeOK

\* Thread is making the first connection.
Starting == At(Thread, "dial") \/ At(Thread, "adopt") \/ At(Thread, "begin")

\* The pcs a goroutine may have.
PcsOf(p) == IF p \in Readers THEN ReaderPcs ELSE IF p \in Beats THEN BeatPcs
            ELSE IF p = Thread THEN ThreadPcs ELSE ReconPcs

\* The connections are as they were, but for some that are no longer live.
LinksShrink == \A n \in Conns : Live(n)' => Live(n)

\* Moving one goroutine outside connect keeps the invariant, types apart.
LEMMA MoveKeeps ==
  ASSUME IInv, NEW p \in Procs, NEW to \in PcsOf(p), Goto(p, to),
         p \in Loops => pc[p] # "none",
         p = Thread => to \notin {"dial", "adopt", "begin"},
         p = Recon => /\ to \notin {"adopt", "begin"}
                      /\ to \in {"retry", "sleep", "poll", "dial"} => conn = 0
                      /\ Starting => to \in {"top", "wait", "end"},
         ~(pc[p] \in {"adopt", "begin"} /\ p \in {Thread, Recon}),
         signal' => signal \/ ~Starting,
         made' = made, conn' = conn, LinksShrink
  PROVE  PcTypeOK' /\ StartIsAlone' /\ DialsWithoutConn' /\ AdoptsMade' /\ OldConnsAreClosed'
<1>1. /\ pc'[p] = to /\ to \in Pcs
      /\ \A q \in Procs \ {p} : pc'[q] = pc[q]
  BY ProcsDiffer DEF Goto, IInv, TypeOK, PcTypeOK, PcsOf, Pcs
<1>2. PcTypeOK'
  BY <1>1, ProcsDiffer DEF Goto, IInv, TypeOK, PcTypeOK, PcsOf
<1>3. CASE p \in Loops
  <2>1. pc'[Thread] = pc[Thread] /\ pc'[Recon] = pc[Recon] /\ ~Starting
    BY <1>1, <1>3, ProcsDiffer DEF IInv, StartIsAlone, Starting, At
  <2>2. StartIsAlone' /\ DialsWithoutConn' /\ AdoptsMade'
    BY <2>1 DEF IInv, StartIsAlone, DialsWithoutConn, AdoptsMade, Starting, At
  <2> QED
    BY <1>2, <2>1, <2>2 DEF IInv, OldConnsAreClosed, LinksShrink, At
<1>4. CASE p = Thread
  <2>1. pc'[Recon] = pc[Recon] /\ ~Starting'
    BY <1>1, <1>4, ProcsDiffer DEF Starting, At
  <2>2. StartIsAlone' /\ DialsWithoutConn' /\ AdoptsMade'
    BY <2>1 DEF IInv, StartIsAlone, DialsWithoutConn, AdoptsMade, Starting, At
  <2> QED
    BY <1>2, <1>4, <2>1, <2>2 DEF IInv, OldConnsAreClosed, LinksShrink, At
<1>5. CASE p = Recon
  <2>1. /\ pc'[Thread] = pc[Thread] /\ pc'[Recon] = to /\ \A q \in Loops : pc'[q] = pc[q]
    BY <1>1, <1>5, ProcsDiffer
  <2>2. StartIsAlone' /\ DialsWithoutConn' /\ AdoptsMade'
    BY <1>5, <2>1 DEF IInv, StartIsAlone, DialsWithoutConn, AdoptsMade, Starting, At
  <2> QED
    BY <1>2, <1>5, <2>1, <2>2 DEF IInv, OldConnsAreClosed, LinksShrink, At
<1> QED
  BY <1>3, <1>4, <1>5, ProcsDiffer

\* Moving a goroutine to where it holds no connection, or leaves with one.
LEMMA HeldKeeps ==
  ASSUME IInv, NEW p \in Procs, NEW to \in PcsOf(p), Goto(p, to),
         held' \in [Loops -> 0..MaxConns], waitsOn' \in [Beats -> 0..MaxConns],
         \A q \in Loops \ {p} : held'[q] = held[q],
         p \in Loops /\ to \in {"read", "write"} => held'[p] # 0
  PROVE  LoopTypeOK'
<1>1. pc'[p] = to /\ \A q \in Procs \ {p} : pc'[q] = pc[q]
  BY DEF Goto, IInv, TypeOK, PcTypeOK
<1> QED
  BY <1>1, ProcsDiffer DEF IInv, TypeOK, LoopTypeOK

\* Closing a connection, or none, takes away live ones only.
LEMMA CloseShrinks ==
  ASSUME IInv, NEW n, Close(n)
  PROVE  LinksShrink /\ link' \in [Conns -> LinkStates]
  BY DEF IInv, TypeOK, ClientTypeOK, Close, LinksShrink, Live, LinkStates

\* With no change the connections that are live stay those.
LEMMA SameShrinks == link' = link => LinksShrink
  BY DEF LinksShrink, Live

\* What the two sides of a step add up to.
LEMMA Together ==
  ASSUME PcTypeOK', ClientTypeOK', LoopTypeOK', StartIsAlone', DialsWithoutConn', AdoptsMade',
         OldConnsAreClosed'
  PROVE  IInv'
  BY DEF IInv, TypeOK

\* Every step of triggerReconnect, by a loop or by Start, keeps the invariant.
LEMMA TriggerKeeps ==
  ASSUME IInv, NEW p \in Loops \cup {Thread}, Trigger(p)
  PROVE  IInv'
<1>0. /\ p \in Procs /\ p # Recon
      /\ AfterTrigger(p) \in PcsOf(p) /\ {"shut", "signal", "leave"} \subseteq PcsOf(p)
      /\ AfterTrigger(p) \in {"wait", "end"} /\ (p \in Loops => AfterTrigger(p) = "end")
      /\ pc[p] \in TriggerPcs
      /\ p = Thread => ~Starting
  BY ProcsDiffer DEF AfterTrigger, PcsOf, ThreadPcs, ReaderPcs, BeatPcs, TriggerPcs, Starting,
     At, Trigger, TriggerEnter, TriggerShut, TriggerSignal, TriggerLeave
<1>1. p \in Loops => ~Starting
  BY <1>0, ProcsDiffer DEF IInv, StartIsAlone, Starting, At, TriggerPcs
<1>2. ~Starting
  BY <1>0, <1>1
<1> DEFINE Keeps(to) == /\ to \in PcsOf(p) /\ Goto(p, to) /\ to \notin {"dial", "adopt", "begin", "read", "write"}
                        /\ made' = made /\ conn' = conn /\ LinksShrink
                        /\ held' = held /\ waitsOn' = waitsOn
<1>3. ASSUME NEW to, Keeps(to), ClientTypeOK'
      PROVE  IInv'
  <2>1. p \in Loops => pc[p] # "none"
    BY <1>0 DEF TriggerPcs
  <2>2. PcTypeOK' /\ StartIsAlone' /\ DialsWithoutConn' /\ AdoptsMade' /\ OldConnsAreClosed'
    <3>1. ~(pc[p] \in {"adopt", "begin"} /\ p \in {Thread, Recon})
      BY <1>0 DEF TriggerPcs
    <3> QED
      BY <1>0, <1>2, <1>3, <2>1, <3>1, MoveKeeps
  <2>3. LoopTypeOK'
    <3>1. held' \in [Loops -> 0..MaxConns] /\ waitsOn' \in [Beats -> 0..MaxConns]
      BY <1>3 DEF IInv, TypeOK, LoopTypeOK
    <3> QED
      BY <1>0, <1>3, <3>1, HeldKeeps
  <2> QED
    BY <1>3, <2>2, <2>3, Together
<1>4. CASE TriggerEnter(p)
  <2>1. ClientTypeOK' /\ LinksShrink
    BY <1>4, SameShrinks DEF TriggerEnter, IInv, TypeOK, ClientTypeOK
  <2>2. Keeps("shut") \/ Keeps(AfterTrigger(p))
    BY <1>0, <1>4, <2>1 DEF TriggerEnter, loopVars
  <2> HIDE DEF Keeps
  <2> QED
    BY <1>3, <2>1, <2>2
<1>5. CASE TriggerShut(p)
  <2>1. LinksShrink /\ link' \in [Conns -> LinkStates]
    BY <1>5, CloseShrinks DEF TriggerShut
  <2>2. ClientTypeOK'
    BY <1>5, <2>1 DEF TriggerShut, IInv, TypeOK, ClientTypeOK, clientVars
  <2>3. Keeps("signal")
    BY <1>0, <1>5, <2>1 DEF TriggerShut, loopVars, clientVars
  <2> HIDE DEF Keeps
  <2> QED
    BY <1>3, <2>2, <2>3
<1>6. CASE TriggerSignal(p)
  <2>1. ClientTypeOK' /\ LinksShrink
    BY <1>6, SameShrinks DEF TriggerSignal, IInv, TypeOK, ClientTypeOK
  <2>2. Keeps("leave")
    BY <1>0, <1>6, <2>1 DEF TriggerSignal, loopVars
  <2> HIDE DEF Keeps
  <2> QED
    BY <1>3, <2>1, <2>2
<1>7. CASE TriggerLeave(p)
  <2>1. ClientTypeOK' /\ LinksShrink
    BY <1>7, SameShrinks DEF TriggerLeave, IInv, TypeOK, ClientTypeOK
  <2>2. Keeps(AfterTrigger(p))
    BY <1>0, <1>7, <2>1 DEF TriggerLeave, loopVars
  <2> HIDE DEF Keeps
  <2> QED
    BY <1>3, <2>1, <2>2
<1> QED
  BY <1>4, <1>5, <1>6, <1>7 DEF Trigger

\* A loop's step leads to pc to: the pc it comes from is not none, nobody starts.
LEMMA LoopStepKeeps ==
  ASSUME IInv, NEW p \in Loops, NEW to \in PcsOf(p), Goto(p, to), pc[p] # "none",
         made' = made, conn' = conn, link' = link, ClientTypeOK', signal' = signal,
         held' \in [Loops -> 0..MaxConns], waitsOn' \in [Beats -> 0..MaxConns],
         \A q \in Loops \ {p} : held'[q] = held[q],
         to \in {"read", "write"} => held'[p] # 0
  PROVE  IInv'
<1>1. p \in Procs /\ p # Thread /\ p # Recon
  BY ProcsDiffer
<1>2. LinksShrink
  BY SameShrinks
<1>3. PcTypeOK' /\ StartIsAlone' /\ DialsWithoutConn' /\ AdoptsMade' /\ OldConnsAreClosed'
  BY <1>1, <1>2, MoveKeeps
<1>4. LoopTypeOK'
  BY <1>1, HeldKeeps
<1> QED
  BY <1>3, <1>4, Together

\* Every step of a read loop keeps the invariant.
LEMMA ReaderKeeps ==
  ASSUME IInv, NEW p \in Readers, ReaderStep(p)
  PROVE  IInv'
<1>1. /\ p \in Loops /\ PcsOf(p) = ReaderPcs
      /\ held \in [Loops -> 0..MaxConns] /\ waitsOn \in [Beats -> 0..MaxConns]
      /\ conn \in 0..MaxConns /\ 0 \in 0..MaxConns
  BY ProcsDiffer, ClientAssumption DEF PcsOf, IInv, TypeOK, LoopTypeOK, ClientTypeOK
<1>2. CASE Trigger(p)
  BY <1>1, <1>2, TriggerKeeps
<1>3. ASSUME UNCHANGED <<made, link, clientVars, crashed>>
      PROVE  /\ ClientTypeOK' /\ made' = made /\ conn' = conn /\ link' = link
             /\ signal' = signal
  BY <1>3 DEF clientVars, IInv, TypeOK, ClientTypeOK
<1>4. CASE ReadPoll(p)
  <2>1. PICK to \in {"end", "fetch"} : Goto(p, to)
    BY <1>4 DEF ReadPoll
  <2> QED
    BY <1>1, <1>3, <1>4, <2>1, LoopStepKeeps DEF ReadPoll, OnlyPc, loopVars, At, ReaderPcs
<1>5. CASE ReadFetch(p)
  <2>1. PICK to \in {"enter", "read"} : Goto(p, to) /\ (to = "read" => conn # 0)
    BY <1>5 DEF ReadFetch
  <2>2. /\ held' \in [Loops -> 0..MaxConns] /\ \A q \in Loops \ {p} : held'[q] = held[q]
        /\ held'[p] = conn
    BY <1>1, <1>5 DEF ReadFetch
  <2> QED
    BY <1>1, <1>3, <1>5, <2>1, <2>2, LoopStepKeeps DEF ReadFetch, At, ReaderPcs, TriggerPcs
<1>6. CASE ReadMessage(p)
  <2>1. PICK to \in {"handle", "poll", "enter"} : Goto(p, to)
    BY <1>6 DEF ReadMessage
  <2>2. held' \in [Loops -> 0..MaxConns] /\ \A q \in Loops \ {p} : held'[q] = held[q]
    BY <1>1, <1>6 DEF ReadMessage
  <2> QED
    BY <1>1, <1>3, <1>6, <2>1, <2>2, LoopStepKeeps DEF ReadMessage, At, ReaderPcs, TriggerPcs
<1>7. CASE Handle(p)
  <2>1. PICK to \in {"respond", "end"} : Goto(p, to)
    BY <1>7 DEF Handle
  <2> QED
    BY <1>1, <1>3, <1>7, <2>1, LoopStepKeeps DEF Handle, OnlyPc, loopVars, At, ReaderPcs
<1>8. CASE BeginWrite(p, "respond", "poll")
  <2>1. PICK to \in {"poll", "write"} : Goto(p, to) /\ (to = "write" => conn # 0)
    BY <1>8 DEF BeginWrite
  <2>2. /\ held' \in [Loops -> 0..MaxConns] /\ \A q \in Loops \ {p} : held'[q] = held[q]
        /\ held'[p] = conn
    BY <1>1, <1>8 DEF BeginWrite
  <2> QED
    BY <1>1, <1>3, <1>8, <2>1, <2>2, LoopStepKeeps DEF BeginWrite, At, ReaderPcs
<1>9. CASE EndWrite(p, "poll", "poll")
  <2>1. PICK to \in {"poll", "end"} : Goto(p, to)
    BY <1>9 DEF EndWrite
  <2>2. held' \in [Loops -> 0..MaxConns] /\ \A q \in Loops \ {p} : held'[q] = held[q]
    BY <1>1, <1>9 DEF EndWrite
  <2> QED
    BY <1>1, <1>3, <1>9, <2>1, <2>2, LoopStepKeeps DEF EndWrite, At, ReaderPcs
<1> QED
  BY <1>2, <1>4, <1>5, <1>6, <1>7, <1>8, <1>9 DEF ReaderStep

\* Every step of a heartbeat loop keeps the invariant.
LEMMA BeatKeeps ==
  ASSUME IInv, NEW p \in Beats, BeatStep(p)
  PROVE  IInv'
<1>1. /\ p \in Loops /\ PcsOf(p) = BeatPcs
      /\ held \in [Loops -> 0..MaxConns] /\ waitsOn \in [Beats -> 0..MaxConns]
      /\ conn \in 0..MaxConns /\ session \in 0..MaxConns /\ 0 \in 0..MaxConns
  BY ProcsDiffer, ClientAssumption DEF PcsOf, IInv, TypeOK, LoopTypeOK, ClientTypeOK
<1>2. CASE Trigger(p)
  BY <1>1, <1>2, TriggerKeeps
<1>3. ASSUME UNCHANGED <<made, link, clientVars, crashed>>
      PROVE  /\ ClientTypeOK' /\ made' = made /\ conn' = conn /\ link' = link
             /\ signal' = signal
  BY <1>3 DEF clientVars, IInv, TypeOK, ClientTypeOK
<1>4. CASE BeginWrite(p, "beat", "enter")
  <2>1. PICK to \in {"enter", "write"} : Goto(p, to) /\ (to = "write" => conn # 0)
    BY <1>4 DEF BeginWrite
  <2>2. /\ held' \in [Loops -> 0..MaxConns] /\ \A q \in Loops \ {p} : held'[q] = held[q]
        /\ held'[p] = conn
    BY <1>1, <1>4 DEF BeginWrite
  <2> QED
    BY <1>1, <1>3, <1>4, <2>1, <2>2, LoopStepKeeps DEF BeginWrite, At, BeatPcs, TriggerPcs
<1>5. CASE EndWrite(p, "select", "enter")
  <2>1. PICK to \in {"select", "enter", "end"} : Goto(p, to)
    BY <1>5 DEF EndWrite
  <2>2. held' \in [Loops -> 0..MaxConns] /\ \A q \in Loops \ {p} : held'[q] = held[q]
    BY <1>1, <1>5 DEF EndWrite
  <2> QED
    BY <1>1, <1>3, <1>5, <2>1, <2>2, LoopStepKeeps DEF EndWrite, At, BeatPcs, TriggerPcs
<1>6. CASE BeatSelect(p)
  <2>1. waitsOn' \in [Beats -> 0..MaxConns]
    BY <1>1, <1>6 DEF BeatSelect
  <2> QED
    BY <1>1, <1>3, <1>6, <2>1, LoopStepKeeps DEF BeatSelect, At, BeatPcs
<1>7. CASE BeatStops(p)
  <2>1. waitsOn' \in [Beats -> 0..MaxConns]
    BY <1>1, <1>7 DEF BeatStops
  <2> QED
    BY <1>1, <1>3, <1>7, <2>1, LoopStepKeeps DEF BeatStops, At, BeatPcs
<1>8. CASE BeatTick(p)
  <2>1. waitsOn' \in [Beats -> 0..MaxConns]
    BY <1>1, <1>8 DEF BeatTick
  <2> QED
    BY <1>1, <1>3, <1>8, <2>1, LoopStepKeeps DEF BeatTick, At, BeatPcs
<1> QED
  BY <1>2, <1>4, <1>5, <1>6, <1>7, <1>8 DEF BeatStep

\* LoopTypeOK does not depend on where Thread and Recon are.
LEMMA LoopsUnmoved ==
  ASSUME IInv, NEW p \in {Thread, Recon}, NEW to \in PcsOf(p), Goto(p, to),
         UNCHANGED loopVars
  PROVE  /\ LoopTypeOK' /\ pc'[p] = to
         /\ \A q \in Procs \ {p} : pc'[q] = pc[q]
         /\ \A q \in Loops : pc'[q] = pc[q]
<1>1. pc'[p] = to /\ \A q \in Procs \ {p} : pc'[q] = pc[q]
  BY ProcsDiffer DEF Goto, IInv, TypeOK, PcTypeOK
<1> QED
  BY <1>1, ProcsDiffer DEF IInv, TypeOK, LoopTypeOK, loopVars

\* Dial keeps the invariant: no connection is open when it makes one.
LEMMA DialKeeps ==
  ASSUME IInv, NEW p \in {Thread, Recon}, NEW fail \in PcsOf(p), Dial(p, fail),
         fail \notin {"dial", "adopt", "begin"}
  PROVE  IInv'
<1>1. /\ p \in Procs \ Loops /\ "adopt" \in PcsOf(p)
      /\ At(p, "dial") /\ UNCHANGED loopVars
      /\ made \in Nat /\ made <= MaxConns /\ MaxConns \in Nat
  BY ProcsDiffer, ClientAssumption DEF PcsOf, ThreadPcs, ReconPcs, Dial, IInv, TypeOK, ClientTypeOK
<1>2. conn = 0 /\ conn' = 0 /\ signal' = signal
  BY <1>1 DEF Dial, At, IInv, DialsWithoutConn, clientVars
<1>3. CASE Goto(p, fail) /\ UNCHANGED <<made, link>>
  <2>1. ClientTypeOK' /\ LinksShrink
    BY <1>3, SameShrinks DEF Dial, IInv, TypeOK, ClientTypeOK, clientVars
  <2>2. LoopTypeOK'
    BY <1>1, <1>3, LoopsUnmoved
  <2>3. p = Recon => ~Starting
    BY <1>1 DEF At, IInv, StartIsAlone, Starting
  <2>4. pc[p] = "dial"
    BY <1>1 DEF At
  <2>5. PcTypeOK' /\ StartIsAlone' /\ DialsWithoutConn' /\ AdoptsMade' /\ OldConnsAreClosed'
    BY <1>1, <1>2, <1>3, <2>1, <2>3, <2>4, MoveKeeps
  <2> QED
    BY <2>1, <2>2, <2>5, Together
<1>4. CASE /\ made < MaxConns
           /\ made' = made + 1
           /\ link' = [link EXCEPT ![made + 1] = "open"]
           /\ Goto(p, "adopt")
  <2>1. ClientTypeOK'
    <3>1. made' \in 0..MaxConns /\ made' # 0
      BY <1>1, <1>4
    <3>2. link' \in [Conns -> LinkStates]
      BY <1>4 DEF IInv, TypeOK, ClientTypeOK, LinkStates
    <3> QED
      BY <3>1, <3>2 DEF Dial, IInv, TypeOK, ClientTypeOK, clientVars
  <2>2. /\ LoopTypeOK' /\ pc'[p] = "adopt"
        /\ \A q \in Procs \ {p} : pc'[q] = pc[q]
        /\ \A q \in Loops : pc'[q] = pc[q]
    BY <1>1, <1>4, LoopsUnmoved
  <2>3. PcTypeOK'
    BY <1>4, <2>2, ProcsDiffer DEF Goto, IInv, TypeOK, PcTypeOK, Pcs, ThreadPcs, ReconPcs, PcsOf
  <2>4. StartIsAlone' /\ DialsWithoutConn' /\ AdoptsMade'
    <3>1. made' # 0
      BY <1>1, <1>4
    <3>2. CASE p = Thread
      BY <1>1, <1>2, <2>2, <3>1, <3>2, ProcsDiffer DEF IInv, StartIsAlone, DialsWithoutConn, AdoptsMade, At
    <3>3. CASE p = Recon
      <4>1. pc'[Thread] = pc[Thread] /\ pc'[Recon] = "adopt"
        BY <2>2, <3>3, ProcsDiffer
      <4>2. ~Starting
        BY <1>1, <3>3 DEF IInv, StartIsAlone, Starting, At
      <4> QED
        BY <1>2, <3>1, <4>1, <4>2 DEF Starting, StartIsAlone, DialsWithoutConn, AdoptsMade, At
    <3> QED
      BY <3>2, <3>3
  <2>5. OldConnsAreClosed'
    <3>1. \A n \in Conns : ~Live(n)
      <4>1. ~At(Thread, "adopt") /\ ~At(Recon, "adopt")
        BY <1>1, ProcsDiffer DEF IInv, StartIsAlone, At
      <4> QED
        BY <1>2, <4>1 DEF IInv, OldConnsAreClosed, Conns
    <3>2. \A n \in Conns : Live(n)' => n = made'
      BY <1>4, <3>1 DEF Live, IInv, TypeOK, ClientTypeOK
    <3> QED
      BY <2>2, <3>2 DEF OldConnsAreClosed, At
  <2> QED
    BY <2>1, <2>2, <2>3, <2>4, <2>5, Together
<1> QED
  BY <1>3, <1>4 DEF Dial

\* connect keeps the invariant: the connection it puts into c.conn was the only one
\* open.
LEMMA AdoptKeeps ==
  ASSUME IInv, NEW p \in {Thread, Recon}, Adopt(p)
  PROVE  IInv'
<1>1. /\ p \in Procs \ Loops /\ "begin" \in PcsOf(p) /\ At(p, "adopt")
      /\ UNCHANGED loopVars /\ Goto(p, "begin")
      /\ conn' = made /\ made' = made /\ made # 0 /\ conn = 0 /\ link' = link /\ signal' = signal
  BY ProcsDiffer DEF PcsOf, ThreadPcs, ReconPcs, Adopt, IInv, AdoptsMade, DialsWithoutConn, At
<1>2. ClientTypeOK'
  BY DEF Adopt, IInv, TypeOK, ClientTypeOK
<1>3. /\ LoopTypeOK' /\ pc'[p] = "begin"
      /\ \A q \in Procs \ {p} : pc'[q] = pc[q]
      /\ \A q \in Loops : pc'[q] = pc[q]
  BY <1>1, LoopsUnmoved
<1>4. PcTypeOK'
  BY <1>1, <1>3, ProcsDiffer DEF Goto, IInv, TypeOK, PcTypeOK, Pcs, ThreadPcs, ReconPcs
<1>5. StartIsAlone' /\ DialsWithoutConn' /\ AdoptsMade'
  <2>1. CASE p = Thread
    BY <1>1, <1>3, <2>1, ProcsDiffer DEF IInv, StartIsAlone, DialsWithoutConn, AdoptsMade, At
  <2>2. CASE p = Recon
    <3>1. pc'[Thread] = pc[Thread] /\ pc'[Recon] = "begin"
      BY <1>3, <2>2, ProcsDiffer
    <3>2. ~Starting
      BY <1>1, <2>2 DEF IInv, StartIsAlone, Starting, At
    <3> QED
      BY <1>1, <3>1, <3>2 DEF Starting, StartIsAlone, DialsWithoutConn, AdoptsMade, At
  <2> QED
    BY <2>1, <2>2
<1>6. OldConnsAreClosed'
  BY <1>1 DEF IInv, OldConnsAreClosed, Live, Conns
<1> QED
  BY <1>2, <1>3, <1>4, <1>5, <1>6, Together

\* startSessionLoops keeps the invariant.
LEMMA BeginKeeps ==
  ASSUME IInv, NEW p \in {Thread, Recon}, NEW next \in PcsOf(p), Begin(p, next),
         next \in {"top", "wait"}
  PROVE  IInv'
<1>1. /\ At(p, "begin") /\ made # 0 /\ made \in 0..MaxConns /\ UNCHANGED loopVars
      /\ conn' = conn /\ made' = made /\ link' = link /\ signal' = signal
  BY DEF Begin, IInv, AdoptsMade, At, TypeOK, ClientTypeOK
<1>2. /\ made \in Conns /\ Reader(made) \in Readers /\ Beat(made) \in Beats
  BY <1>1, ProcsDiffer, ClientAssumption DEF Conns
<1>3. ClientTypeOK'
  BY <1>1 DEF Begin, FreshOnce, IInv, TypeOK, ClientTypeOK
<1>4. /\ pc'[p] = next /\ pc'[Reader(made)] = "poll" /\ pc'[Beat(made)] = "beat"
      /\ \A q \in Procs \ {p, Reader(made), Beat(made)} : pc'[q] = pc[q]
      /\ pc' \in [Procs -> Pcs]
  BY <1>2, ProcsDiffer
  DEF Begin, IInv, TypeOK, PcTypeOK, Pcs, ThreadPcs, ReconPcs, ReaderPcs, BeatPcs
<1>5. PcTypeOK'
  <2>1. "poll" \in ReaderPcs /\ "beat" \in BeatPcs
    BY DEF ReaderPcs, BeatPcs
  <2>2. (p = Thread => next \in ThreadPcs) /\ (p = Recon => next \in ReconPcs)
    BY ProcsDiffer DEF PcsOf
  <2> QED
    BY <1>2, <1>4, <2>1, <2>2, ProcsDiffer DEF IInv, TypeOK, PcTypeOK
<1>6. LoopTypeOK'
  BY <1>1, <1>2, <1>4, ProcsDiffer DEF IInv, TypeOK, LoopTypeOK, loopVars
<1>7. StartIsAlone' /\ DialsWithoutConn' /\ AdoptsMade'
  <2>1. CASE p = Thread
    <3>1. pc'[Thread] = next /\ pc'[Recon] = pc[Recon]
      BY <1>2, <1>4, <2>1, ProcsDiffer
    <3>2. pc[Recon] \in {"top", "wait", "end"}
      BY <1>1, <2>1 DEF IInv, StartIsAlone, At
    <3> QED
      BY <3>1, <3>2 DEF StartIsAlone, DialsWithoutConn, AdoptsMade, At
  <2>2. CASE p = Recon
    <3>1. pc'[Recon] = next /\ pc'[Thread] = pc[Thread]
      BY <1>2, <1>4, <2>2, ProcsDiffer
    <3>2. ~Starting
      BY <1>1, <2>2 DEF IInv, StartIsAlone, Starting, At
    <3> QED
      BY <3>1, <3>2 DEF Starting, StartIsAlone, DialsWithoutConn, AdoptsMade, At
  <2> QED
    BY <2>1, <2>2
<1>8. OldConnsAreClosed'
  <2>1. \A q \in {Thread, Recon} : At(q, "adopt") => At(q, "adopt")'
    BY <1>1, <1>2, <1>4, ProcsDiffer DEF At
  <2> QED
    BY <1>1, <2>1 DEF IInv, OldConnsAreClosed, Live
<1> QED
  BY <1>3, <1>5, <1>6, <1>7, <1>8, Together

\* A step of Thread or Recon that leaves c.conn alone and is no part of connect.
LEMMA MainMoveKeeps ==
  ASSUME IInv, NEW p \in {Thread, Recon}, NEW to \in PcsOf(p), Goto(p, to),
         p = Thread => to \notin {"dial", "adopt", "begin"},
         p = Recon => /\ to \notin {"adopt", "begin"}
                      /\ to \in {"retry", "sleep", "poll", "dial"} => conn = 0
                      /\ Starting => to \in {"top", "wait", "end"},
         pc[p] \notin {"adopt", "begin"},
         signal' => signal \/ ~Starting,
         made' = made, conn' = conn, LinksShrink, ClientTypeOK', UNCHANGED loopVars
  PROVE  IInv'
<1>1. p \in Procs \ Loops
  BY ProcsDiffer
<1>2. LoopTypeOK'
  BY LoopsUnmoved
<1>3. PcTypeOK' /\ StartIsAlone' /\ DialsWithoutConn' /\ AdoptsMade' /\ OldConnsAreClosed'
  BY <1>1, MoveKeeps
<1> QED
  BY <1>2, <1>3, Together

\* Every step of reconnectLoop keeps the invariant.
LEMMA ReconKeeps ==
  ASSUME IInv, ReconStep
  PROVE  IInv'
<1>1. Recon \in {Thread, Recon} /\ PcsOf(Recon) = ReconPcs /\ Recon # Thread
  BY ProcsDiffer DEF PcsOf
<1>2. /\ pc[Recon] \in {"stop", "drop", "retry", "sleep", "poll", "dial"} => ~Starting
      /\ pc[Recon] \in {"retry", "sleep", "poll", "dial"} => conn = 0
      /\ signal => ~Starting
  BY DEF IInv, StartIsAlone, DialsWithoutConn, Starting
<1>3. ASSUME OnlyPc
      PROVE  /\ ClientTypeOK' /\ LinksShrink /\ UNCHANGED loopVars
             /\ made' = made /\ conn' = conn /\ signal' = signal
  BY <1>3, SameShrinks DEF OnlyPc, clientVars, IInv, TypeOK, ClientTypeOK
<1>4. CASE ReconTop
  <2>1. PICK to \in {"wait", "end"} : Goto(Recon, to)
    BY <1>4 DEF ReconTop
  <2> QED
    BY <1>1, <1>3, <1>4, <2>1, MainMoveKeeps DEF ReconTop, At, ReconPcs
<1>5. CASE ReconRetry
  <2>1. PICK to \in {"sleep", "top"} : Goto(Recon, to)
    BY <1>5 DEF ReconRetry
  <2> QED
    BY <1>1, <1>2, <1>3, <1>5, <2>1, MainMoveKeeps DEF ReconRetry, At, ReconPcs
<1>6. CASE ReconWait
  <2>1. /\ ClientTypeOK' /\ LinksShrink /\ UNCHANGED loopVars
        /\ made' = made /\ conn' = conn /\ (signal' => signal)
    <3>1. signal' \in BOOLEAN /\ (signal' => signal)
      <4>1. signal' = FALSE \/ signal' = signal
        BY <1>6 DEF ReconWait
      <4>2. signal \in BOOLEAN
        BY DEF IInv, TypeOK, ClientTypeOK
      <4>3. CASE signal' = FALSE
        BY <4>3
      <4>4. CASE signal' = signal
        BY <4>2, <4>4
      <4> QED
        BY <4>1, <4>3, <4>4
    <3> QED
      BY <1>6, <3>1, SameShrinks DEF ReconWait, IInv, TypeOK, ClientTypeOK
  <2>2. PICK to \in {"stop", "end"} : Goto(Recon, to) /\ (to = "stop" => signal)
    BY <1>6 DEF ReconWait
  <2> QED
    BY <1>1, <1>2, <1>6, <2>1, <2>2, MainMoveKeeps DEF ReconWait, At, ReconPcs
<1>7. CASE ReconStop
  <2>1. /\ ClientTypeOK' /\ LinksShrink /\ UNCHANGED loopVars
        /\ made' = made /\ conn' = conn /\ signal' = signal
    BY <1>7, SameShrinks DEF ReconStop, IInv, TypeOK, ClientTypeOK
  <2> QED
    BY <1>1, <1>2, <1>7, <2>1, MainMoveKeeps DEF ReconStop, At, ReconPcs
<1>8. CASE ReconDrop
  <2>1. /\ At(Recon, "drop") /\ Goto(Recon, "retry") /\ UNCHANGED loopVars
        /\ conn' = 0 /\ made' = made /\ signal' = signal
        /\ Close(conn) /\ ~Starting
    BY <1>2, <1>8 DEF ReconDrop, loopVars, At
  <2>2. LinksShrink /\ link' \in [Conns -> LinkStates]
    BY <2>1, CloseShrinks
  <2>3. ClientTypeOK'
    BY <1>8, <2>2, ClientAssumption DEF ReconDrop, IInv, TypeOK, ClientTypeOK
  <2>4. /\ LoopTypeOK' /\ pc'[Recon] = "retry" /\ pc'[Thread] = pc[Thread]
        /\ \A q \in Loops : pc'[q] = pc[q]
    BY <1>1, <2>1, LoopsUnmoved, ProcsDiffer DEF ReconPcs
  <2>5. PcTypeOK'
    BY <2>1, <2>4, ProcsDiffer DEF Goto, IInv, TypeOK, PcTypeOK, Pcs, ReconPcs
  <2>6. StartIsAlone' /\ DialsWithoutConn' /\ AdoptsMade'
    BY <2>1, <2>4 DEF Starting, StartIsAlone, DialsWithoutConn, AdoptsMade, At
  <2>7. OldConnsAreClosed'
    <3>1. \A n \in Conns : Live(n)' => Live(n) /\ n # conn
      BY <2>1, <2>2 DEF Close, Live, LinksShrink
    <3> QED
      BY <2>1, <2>4, <3>1 DEF IInv, OldConnsAreClosed, At, Starting
  <2> QED
    BY <2>3, <2>4, <2>5, <2>6, <2>7, Together
<1>9. CASE ReconSleep
  BY <1>1, <1>2, <1>3, <1>9, MainMoveKeeps DEF ReconSleep, At, ReconPcs
<1>10. CASE ReconPoll
  <2>1. PICK to \in {"end", "dial"} : Goto(Recon, to)
    BY <1>10 DEF ReconPoll
  <2> QED
    BY <1>1, <1>2, <1>3, <1>10, <2>1, MainMoveKeeps DEF ReconPoll, At, ReconPcs
<1>11. CASE Dial(Recon, "retry")
  BY <1>1, <1>11, DialKeeps DEF ReconPcs
<1>12. CASE Adopt(Recon)
  BY <1>1, <1>12, AdoptKeeps
<1>13. CASE Begin(Recon, "top")
  BY <1>1, <1>13, BeginKeeps DEF ReconPcs
<1> QED
  BY <1>4, <1>5, <1>6, <1>7, <1>8, <1>9, <1>10, <1>11, <1>12, <1>13 DEF ReconStep

\* Every step of WebsocketClientThread keeps the invariant.
LEMMA ThreadKeeps ==
  ASSUME IInv, ThreadStep \/ ThreadInterrupted
  PROVE  IInv'
<1>1. Thread \in {Thread, Recon} /\ PcsOf(Thread) = ThreadPcs /\ Recon # Thread
  BY ProcsDiffer DEF PcsOf
<1>2. ASSUME UNCHANGED <<made, link, conn, session, stopped, onceLocked, onceDone, signal, done>>,
             UNCHANGED <<loopVars, crashed>>,
             reconnect' \in BOOLEAN, muStuck' \in BOOLEAN
      PROVE  /\ ClientTypeOK' /\ LinksShrink /\ UNCHANGED loopVars
             /\ made' = made /\ conn' = conn /\ signal' = signal
  BY <1>2, SameShrinks DEF IInv, TypeOK, ClientTypeOK
<1>3. reconnect \in BOOLEAN /\ muStuck \in BOOLEAN
  BY DEF IInv, TypeOK, ClientTypeOK
<1>4. CASE Dial(Thread, "enter")
  BY <1>1, <1>4, DialKeeps DEF ThreadPcs, TriggerPcs
<1>5. CASE Adopt(Thread)
  BY <1>1, <1>5, AdoptKeeps
<1>6. CASE Begin(Thread, "wait")
  BY <1>1, <1>6, BeginKeeps DEF ThreadPcs
<1>7. CASE Trigger(Thread)
  BY <1>7, TriggerKeeps
<1>8. CASE ThreadWait
  BY <1>1, <1>2, <1>3, <1>8, MainMoveKeeps DEF ThreadWait, OnlyPc, clientVars, At, ThreadPcs
<1>9. CASE ThreadClose
  <2>1. PICK to \in {"end", "farewell"} : Goto(Thread, to)
    BY <1>9 DEF ThreadClose
  <2> QED
    BY <1>1, <1>2, <1>3, <1>9, <2>1, MainMoveKeeps DEF ThreadClose, OnlyPc, clientVars, At, ThreadPcs
<1>10. CASE ThreadFarewell
  <2>1. LinksShrink /\ link' \in [Conns -> LinkStates]
    BY <1>10, CloseShrinks DEF ThreadFarewell
  <2>2. ClientTypeOK' /\ made' = made /\ conn' = conn /\ signal' = signal /\ UNCHANGED loopVars
    BY <1>10, <2>1 DEF ThreadFarewell, clientVars, IInv, TypeOK, ClientTypeOK
  <2> QED
    BY <1>1, <1>10, <2>1, <2>2, MainMoveKeeps DEF ThreadFarewell, At, ThreadPcs
<1>11. CASE ThreadPanics
  BY <1>1, <1>2, <1>3, <1>11, MainMoveKeeps DEF ThreadPanics, At, ThreadPcs
<1>12. CASE ThreadInterrupted
  BY <1>1, <1>2, <1>3, <1>12, MainMoveKeeps DEF ThreadInterrupted, At, ThreadPcs
<1> QED
  BY <1>4, <1>5, <1>6, <1>7, <1>8, <1>9, <1>10, <1>11, <1>12 DEF ThreadStep

\* Closing the client, losing a connection and stuttering keep the invariant.
LEMMA QuietKeeps ==
  ASSUME IInv, CloseWsClient \/ (\E n \in Conns : LinkBreaks(n)) \/ UNCHANGED vars
  PROVE  IInv'
<1>1. /\ pc' = pc /\ made' = made /\ conn' = conn /\ signal' = signal
      /\ held' = held /\ waitsOn' = waitsOn
  BY DEF CloseWsClient, LinkBreaks, vars, clientVars, loopVars
<1>2. LinksShrink /\ link' \in [Conns -> LinkStates]
  <2>1. CASE \E n \in Conns : LinkBreaks(n)
    BY <2>1 DEF LinkBreaks, IInv, TypeOK, ClientTypeOK, LinkStates, LinksShrink, Live
  <2>2. CASE link' = link
    BY <2>2, SameShrinks DEF IInv, TypeOK, ClientTypeOK
  <2> QED
    BY <2>1, <2>2 DEF CloseWsClient, vars
<1>3. ClientTypeOK'
  BY <1>1, <1>2 DEF CloseWsClient, LinkBreaks, vars, clientVars, IInv, TypeOK, ClientTypeOK
<1>4. PcTypeOK' /\ LoopTypeOK' /\ StartIsAlone' /\ DialsWithoutConn' /\ AdoptsMade'
  BY <1>1 DEF IInv, TypeOK, PcTypeOK, LoopTypeOK, StartIsAlone, DialsWithoutConn, AdoptsMade, At
<1>5. OldConnsAreClosed'
  BY <1>1, <1>2 DEF IInv, OldConnsAreClosed, LinksShrink, At
<1> QED
  BY <1>3, <1>4, <1>5, Together

\* Every step keeps the invariant.
LEMMA IInvNext == IInv /\ [Next]_vars => IInv'
<1> SUFFICES ASSUME IInv, [Next]_vars PROVE IInv'
  OBVIOUS
<1> QED
  BY ReaderKeeps, BeatKeeps, ThreadKeeps, ReconKeeps, QuietKeeps DEF Next, Program

\* Every variable of the client keeps its type, and no loop reads from or writes to
\* a nil connection (readLoop, sendNodeMsgRsp, sendWorkerIndication).
THEOREM TypeCorrect == Spec => []TypeOK
<1>1. IInv => TypeOK
  BY DEF IInv
<1> QED
  BY IInvInit, IInvNext, <1>1, PTL DEF Spec

\* However many connections are made, lost and replaced and however late a loop
\* triggers, a connection that c.conn no longer holds is closed: reconnectLoop and
\* Start never make one over another.
THEOREM NoConnectionLeak == Spec => []OldConnsAreClosed
<1>1. IInv => OldConnsAreClosed
  BY DEF IInv
<1> QED
  BY IInvInit, IInvNext, <1>1, PTL DEF Spec

-----------------------------------------------------------------------------
(* Sessions: the invariant that no reconnect is lost.                      *)

\* Where reconnectLoop is after it closed stopCh and before it began a session.
Replacing == {"drop", "retry", "sleep", "poll", "dial", "adopt", "begin"}

\* Somebody made a connection that has no session yet.
Connecting == pc[Recon] \in {"adopt", "begin"} \/ pc[Thread] \in {"adopt", "begin"}

ClosedForGood == done => ~reconnect

\* Sessions are numbered by their connections; all that began and are over had their
\* stopCh closed, and the one that goes on did not.
SessionsInOrder ==
  /\ made = session + (IF Connecting THEN 1 ELSE 0)
  /\ stopped \subseteq 0..session
  /\ pc[Thread] \in {"dial", "adopt", "begin"} => session = 0
  /\ 1..(session - 1) \subseteq stopped
  /\ pc[Recon] \in Replacing => session \in stopped
  /\ session \in stopped /\ reconnect => pc[Recon] \in Replacing

\* Until its first connect has succeeded, or it has triggered because it failed, Start
\* is alone: no loop runs, and nothing was signalled.
FirstConnect ==
  pc[Thread] \in {"dial", "adopt", "begin", "enter", "shut", "signal"} =>
    /\ pc[Recon] \in {"top", "wait", "end"} /\ ~signal /\ ~onceDone
    /\ \A p \in Loops : pc[p] = "none"
    /\ pc[Thread] \notin {"shut", "signal"} => ~onceLocked

\* Some loop is about to signal.
Telling == \E p \in Loops : pc[p] \in {"shut", "signal"}

\* The heartbeat of the session goes on, or is about to trigger.
BeatGoes ==
  \E p \in Beats :
    /\ p = Beat(session)
    /\ pc[p] \in {"beat", "write", "select", "enter"} \/ (pc[p] = "wait" /\ waitsOn[p] \notin stopped)

\* Nobody has signalled since the session began.
Untold ==
  /\ reconnect /\ ~crashed /\ ~signal
  /\ pc[Thread] \in {"wait", "leave"} /\ pc[Recon] \in {"top", "wait"}

\* The once was used by somebody who is still to signal, or it is fresh and there is
\* a heartbeat to use it.
UntoldIsWatched == Untold => Telling \/ (BeatGoes /\ ~onceDone /\ ~onceLocked)

\* Connections are numbered as they are made; heartbeats wait on sessions that began.
NumbersAreMade ==
  /\ \A p \in Loops : held[p] <= made
  /\ \A n \in 1..made : link[n] # "none"
  /\ conn <= made
  /\ \A p \in Beats : pc[p] = "wait" => waitsOn[p] \in 1..session
  /\ session = 0 => \A p \in Loops : pc[p] = "none"
  /\ pc[Thread] = "farewell" => conn # 0

SessionShape ==
  /\ ClosedForGood /\ SessionsInOrder /\ FirstConnect /\ UntoldIsWatched /\ NumbersAreMade

LoopStep(p) == (p \in Readers /\ ReaderStep(p)) \/ (p \in Beats /\ BeatStep(p))

\* A loop that moves is one that runs, and it replaces neither connection nor session.
LEMMA LoopStepEffect ==
  ASSUME IInv, NEW p \in Loops, LoopStep(p)
  PROVE  /\ UNCHANGED <<made, conn, session, stopped, done, reconnect, muStuck>>
         /\ ~Dead(p) /\ (signal => signal')
         /\ pc'[p] # "none"
         /\ \A q \in Procs \ {p} : pc'[q] = pc[q]
<1>1. p \in Procs /\ pc \in [Procs -> Pcs] /\ p # Thread
  BY ProcsDiffer DEF IInv, TypeOK, PcTypeOK
<1>2. CASE Trigger(p)
  BY <1>1, <1>2 DEF Trigger, TriggerEnter, TriggerShut, TriggerSignal, TriggerLeave, At, Goto,
     Dead, AfterTrigger, clientVars
<1>3. CASE ReaderStep(p) /\ ~Trigger(p)
  BY <1>1, <1>3 DEF ReaderStep, ReadPoll, ReadFetch, ReadMessage, Handle, BeginWrite, EndWrite,
     OnlyPc, At, Goto, Dead, clientVars
<1>4. CASE BeatStep(p) /\ p \in Beats /\ ~Trigger(p)
  BY <1>1, <1>4 DEF BeatStep, BeatSelect, BeatStops, BeatTick, BeginWrite, EndWrite,
     At, Goto, Dead, clientVars
<1>5. QED
  BY <1>2, <1>3, <1>4 DEF LoopStep

\* Who moves in a step.
LEMMA Movers ==
  ASSUME [Next]_vars
  PROVE  \/ UNCHANGED vars
         \/ \E n \in Conns : LinkBreaks(n)
         \/ ~crashed /\ (CloseWsClient \/ ThreadInterrupted \/ ThreadStep \/ ReconStep)
         \/ ~crashed /\ \E p \in Loops : LoopStep(p)
  BY DEF Next, Program, LoopStep, Loops

LEMMA SessionShapeInit == Init => SessionShape
<1> SUFFICES ASSUME Init PROVE SessionShape
  OBVIOUS
<1>1. /\ pc[Thread] = "dial" /\ pc[Recon] = "top" /\ \A p \in Loops : pc[p] = "none"
      /\ \A p \in Beats : p \in Loops
  BY ProcsDiffer DEF Init
<1>2. ClosedForGood /\ SessionsInOrder
  BY <1>1 DEF Init, ClosedForGood, SessionsInOrder, Replacing, Connecting
<1>3. FirstConnect /\ UntoldIsWatched
  BY <1>1 DEF Init, FirstConnect, UntoldIsWatched, Untold
<1>4. NumbersAreMade
  BY <1>1 DEF Init, NumbersAreMade
<1>5. QED
  BY <1>2, <1>3, <1>4 DEF SessionShape

LEMMA SessionsNext ==
  ASSUME IInv, SessionShape, [Next]_vars
  PROVE  ClosedForGood' /\ SessionsInOrder'
<1>1. /\ made \in Nat /\ session \in Nat /\ stopped \subseteq Nat
      /\ Thread # Recon /\ Thread \in Procs /\ Recon \in Procs /\ pc \in [Procs -> Pcs]
      /\ Thread \notin Loops /\ Recon \notin Loops
      /\ ClosedForGood /\ SessionsInOrder /\ FirstConnect
  BY ProcsDiffer, ClientAssumption DEF IInv, TypeOK, ClientTypeOK, PcTypeOK, SessionShape
<1>2. ASSUME UNCHANGED <<made, session, stopped>>, done' => done \/ ~reconnect',
             reconnect' => reconnect, Connecting' = Connecting,
             pc'[Thread] \in {"dial", "adopt", "begin"} => pc[Thread] \in {"dial", "adopt", "begin"},
             pc'[Recon] \in Replacing => pc[Recon] \in Replacing,
             pc[Recon] \in Replacing /\ reconnect' => pc'[Recon] \in Replacing
      PROVE  ClosedForGood' /\ SessionsInOrder'
  BY <1>1, <1>2 DEF ClosedForGood, SessionsInOrder
<1>3. ASSUME NEW p \in Loops, LoopStep(p) PROVE ClosedForGood' /\ SessionsInOrder'
  BY <1>1, <1>2, <1>3, LoopStepEffect DEF Connecting
<1>4. CASE UNCHANGED vars \/ CloseWsClient \/ \E n \in Conns : LinkBreaks(n)
  BY <1>2, <1>4 DEF vars, clientVars, CloseWsClient, LinkBreaks, Connecting
<1>5. CASE ThreadInterrupted
  BY <1>1, <1>2, <1>5 DEF ThreadInterrupted, Goto, At, Connecting
<1>6. ASSUME NEW p \in {Thread, Recon}, NEW next \in {"wait", "top"}, Begin(p, next),
             p = Recon \/ next = "wait"
      PROVE  ClosedForGood' /\ SessionsInOrder'
  <2>1. /\ pc[p] = "begin" /\ session' = made
        /\ UNCHANGED <<made, stopped, done, reconnect>>
        /\ pc' = [pc EXCEPT ![p] = next, ![Reader(made)] = "poll", ![Beat(made)] = "beat"]
    BY <1>6 DEF Begin, At
  <2>2. made = session + 1 /\ 1..(made - 1) \subseteq stopped /\ made \notin stopped
        /\ (p = Thread => pc[Recon] \in {"top", "wait", "end"})
        /\ (p = Recon => pc[Thread] \notin {"dial", "adopt", "begin"})
    <3>1. made = session + 1
      BY <1>1, <2>1 DEF SessionsInOrder, Connecting
    <3>2. (p = Thread => session = 0) /\ (p = Recon => session \in stopped)
      BY <1>1, <2>1 DEF SessionsInOrder, Replacing
    <3>3. QED
      BY <1>1, <2>1, <3>1, <3>2 DEF SessionsInOrder, FirstConnect
  <2>3. /\ pc'[p] = next /\ \A q \in {Thread, Recon} \ {p} : pc'[q] = pc[q]
    BY <1>1, <2>1, ProcsDiffer DEF Thread, Recon, Reader, Beat
  <2>4. ~Connecting' /\ pc'[Recon] \notin Replacing /\ pc'[Thread] \notin {"dial", "adopt", "begin"}
    BY <1>1, <1>6, <2>2, <2>3 DEF Connecting, Replacing
  <2>5. QED
    BY <1>1, <2>1, <2>2, <2>4 DEF ClosedForGood, SessionsInOrder
<1>7. ASSUME NEW p \in {Thread, Recon}, NEW fail, Dial(p, fail),
             <<p, fail>> \in {<<Thread, "enter">>, <<Recon, "retry">>}
      PROVE  ClosedForGood' /\ SessionsInOrder'
  <2>1. /\ pc[p] = "dial" /\ UNCHANGED <<session, stopped, done, reconnect>>
        /\ ~Connecting
    BY <1>1, <1>7 DEF Dial, At, clientVars, Connecting, FirstConnect
  <2>2. CASE Goto(p, "adopt") /\ made' = made + 1
    BY <1>1, <1>7, <2>1, <2>2 DEF Goto, ClosedForGood, SessionsInOrder, Connecting, Replacing
  <2>3. CASE Goto(p, fail) /\ made' = made
    BY <1>1, <1>2, <1>7, <2>1, <2>3 DEF Goto, Connecting, Replacing
  <2>4. QED
    BY <1>7, <2>2, <2>3 DEF Dial
<1>8. CASE ThreadStep
  <2>1. CASE Dial(Thread, "enter")
    BY <1>7, <2>1
  <2>2. CASE Adopt(Thread)
    BY <1>1, <1>2, <2>2 DEF Adopt, Goto, At, Connecting
  <2>3. CASE Begin(Thread, "wait")
    BY <1>6, <2>3
  <2>4. CASE Trigger(Thread)
    BY <1>1, <1>2, <2>4 DEF Trigger, TriggerEnter, TriggerShut, TriggerSignal, TriggerLeave,
       Goto, At, AfterTrigger, clientVars, Connecting
  <2>5. CASE ThreadWait \/ ThreadClose \/ ThreadFarewell \/ ThreadPanics
    BY <1>1, <1>2, <2>5 DEF ThreadWait, ThreadClose, ThreadFarewell, ThreadPanics, OnlyPc,
       Goto, At, clientVars, Connecting
  <2>6. QED
    BY <1>8, <2>1, <2>2, <2>3, <2>4, <2>5 DEF ThreadStep
<1>9. CASE ReconStep
  <2>1. CASE ReconTop \/ ReconWait \/ ReconRetry \/ ReconSleep \/ ReconPoll
    BY <1>1, <1>2, <2>1 DEF ReconTop, ReconWait, ReconRetry, ReconSleep, ReconPoll, OnlyPc,
       Goto, At, clientVars, Connecting, Replacing, ClosedForGood
  <2>2. CASE ReconStop
    BY <1>1, <2>2 DEF ReconStop, Goto, At, Connecting, Replacing, ClosedForGood, SessionsInOrder
  <2>3. CASE ReconDrop \/ Adopt(Recon)
    BY <1>1, <1>2, <2>3 DEF ReconDrop, Adopt, Goto, At, Connecting, Replacing
  <2>4. CASE Dial(Recon, "retry")
    BY <1>7, <2>4
  <2>5. CASE Begin(Recon, "top")
    BY <1>6, <2>5
  <2>6. QED
    BY <1>9, <2>1, <2>2, <2>3, <2>4, <2>5 DEF ReconStep
<1>10. QED
  BY <1>3, <1>4, <1>5, <1>8, <1>9, Movers

LEMMA FirstConnectNext ==
  ASSUME IInv, SessionShape, [Next]_vars
  PROVE  FirstConnect'
<1>1. /\ Thread # Recon /\ Thread \in Procs /\ Recon \in Procs /\ pc \in [Procs -> Pcs]
      /\ Thread \notin Loops /\ Recon \notin Loops /\ Loops \subseteq Procs
      /\ ClosedForGood /\ FirstConnect
  BY ProcsDiffer DEF IInv, TypeOK, PcTypeOK, SessionShape
<1>2. ASSUME UNCHANGED <<pc, signal, onceDone, onceLocked>> PROVE FirstConnect'
  BY <1>1, <1>2 DEF FirstConnect
<1>3. ASSUME pc'[Thread] \notin {"dial", "adopt", "begin", "enter", "shut", "signal"}
      PROVE  FirstConnect'
  BY <1>3 DEF FirstConnect
<1>4. ASSUME NEW p \in Loops, LoopStep(p) PROVE FirstConnect'
  <2>1. pc[p] # "none" /\ pc'[Thread] = pc[Thread]
    BY <1>1, <1>4, LoopStepEffect DEF Dead
  <2>2. QED
    BY <1>1, <1>3, <2>1 DEF FirstConnect
<1>5. CASE UNCHANGED vars \/ CloseWsClient \/ \E n \in Conns : LinkBreaks(n)
  BY <1>2, <1>5 DEF vars, clientVars, CloseWsClient, LinkBreaks
<1>6. CASE ThreadInterrupted
  BY <1>1, <1>3, <1>6 DEF ThreadInterrupted, Goto
<1>7. CASE ThreadStep
  <2>1. CASE Dial(Thread, "enter") \/ Adopt(Thread)
    BY <1>1, <2>1 DEF Dial, Adopt, Goto, At, clientVars, FirstConnect
  <2>2. CASE Begin(Thread, "wait")
    <3>1. pc'[Thread] = "wait"
      BY <1>1, <2>2, ProcsDiffer DEF Begin, Thread, Reader, Beat
    <3>2. QED
      BY <1>3, <3>1
  <2>3. CASE Trigger(Thread)
    BY <1>1, <2>3 DEF Trigger, TriggerEnter, TriggerShut, TriggerSignal, TriggerLeave,
       Goto, At, AfterTrigger, clientVars, FirstConnect
  <2>4. CASE ThreadWait \/ ThreadClose \/ ThreadFarewell \/ ThreadPanics
    BY <1>1, <1>3, <2>4 DEF ThreadWait, ThreadClose, ThreadFarewell, ThreadPanics, Goto
  <2>5. QED
    BY <1>7, <2>1, <2>2, <2>3, <2>4 DEF ThreadStep
<1>8. CASE ReconStep
  <2>1. CASE ReconTop \/ ReconWait
    BY <1>1, <2>1 DEF ReconTop, ReconWait, OnlyPc, Goto, At, clientVars, FirstConnect
  <2>2. CASE pc[Recon] \notin {"top", "wait", "end"}
    <3>1. pc'[Thread] = pc[Thread]
      <4>1. CASE Begin(Recon, "top")
        BY <1>1, <4>1, ProcsDiffer DEF Begin, Thread, Reader, Beat
      <4>2. QED
        BY <1>1, <1>8, <4>1 DEF ReconStep, ReconTop, ReconWait, ReconStop, ReconDrop, ReconRetry,
           ReconSleep, ReconPoll, Dial, Adopt, Goto
    <3>2. QED
      BY <1>1, <1>3, <2>2, <3>1 DEF FirstConnect
  <2>3. QED
    BY <1>8, <2>1, <2>2 DEF ReconStep, ReconStop, ReconDrop, ReconRetry,
       ReconSleep, ReconPoll, Dial, Adopt, Begin, At
<1>9. QED
  BY <1>4, <1>5, <1>6, <1>7, <1>8, Movers

\* Whoever leaves the once of a session that nobody signalled in leaves one that
\* another loop has locked: else the program is gone.
LEMMA WatchNext ==
  ASSUME IInv, SessionShape, [Next]_vars
  PROVE  UntoldIsWatched'
<1>1. /\ Thread # Recon /\ Thread \in Procs /\ Recon \in Procs /\ pc \in [Procs -> Pcs]
      /\ Thread \notin Loops /\ Recon \notin Loops /\ Loops \subseteq Procs /\ Beats \subseteq Loops
      /\ signal \in BOOLEAN /\ waitsOn \in [Beats -> 0..MaxConns]
      /\ ClosedForGood /\ FirstConnect /\ SessionsInOrder /\ UntoldIsWatched
  BY ProcsDiffer DEF IInv, TypeOK, PcTypeOK, ClientTypeOK, LoopTypeOK, SessionShape
<1>2. ASSUME Untold', Untold,
             UNCHANGED <<session, stopped, onceDone, onceLocked, waitsOn>>,
             \A p \in Loops : pc'[p] = pc[p]
      PROVE  Telling' \/ (BeatGoes' /\ ~onceDone' /\ ~onceLocked')
  BY <1>1, <1>2 DEF UntoldIsWatched, Telling, BeatGoes
<1>3. ASSUME NEW p \in Loops, LoopStep(p), ~crashed, Untold'
      PROVE  Telling' \/ (BeatGoes' /\ ~onceDone' /\ ~onceLocked')
  <2>1. /\ Untold /\ UNCHANGED <<session, stopped, done, reconnect>>
        /\ \A q \in Procs \ {p} : pc'[q] = pc[q]
        /\ ~done /\ session \notin stopped /\ pc[Thread] \in {"wait", "leave"}
        /\ ~crashed' /\ ~signal'
    BY <1>1, <1>3, LoopStepEffect DEF Untold, ClosedForGood, SessionsInOrder, Replacing
  <2>2. Telling \/ (BeatGoes /\ ~onceDone /\ ~onceLocked)
    BY <1>1, <2>1 DEF UntoldIsWatched
  <2>3. ASSUME NEW q \in Loops \ {p}, pc[q] \in {"shut", "signal"} PROVE Telling'
    BY <1>1, <2>1, <2>3 DEF Telling
  <2>4. CASE Trigger(p)
    <3>1. CASE TriggerEnter(p)
      <4>1. pc[p] = "enter" /\ (onceDone \/ pc'[p] = "shut")
        BY <1>1, <3>1 DEF TriggerEnter, At, Goto
      <4>2. CASE onceDone
        BY <2>2, <2>3, <4>1, <4>2 DEF Telling
      <4>3. QED
        BY <4>1, <4>2 DEF Telling
    <3>2. CASE TriggerShut(p)
      BY <1>1, <3>2 DEF TriggerShut, At, Goto, Telling
    <3>3. CASE TriggerLeave(p)
      <4>1. pc[p] = "leave" /\ onceLocked
        BY <2>1, <3>3 DEF TriggerLeave, At
      <4>2. QED
        BY <2>2, <2>3, <4>1 DEF Telling
    <3>4. QED
      BY <2>1, <2>4, <3>1, <3>2, <3>3 DEF Trigger, TriggerSignal
  <2>5. CASE ~Trigger(p)
    <3>1. pc[p] \notin {"shut", "signal", "leave", "enter"} /\ UNCHANGED <<onceDone, onceLocked>>
      BY <1>1, <1>3, <2>5 DEF LoopStep, ReaderStep, BeatStep, ReadPoll, ReadFetch, ReadMessage,
         Handle, BeginWrite, EndWrite, BeatSelect, BeatStops, BeatTick, OnlyPc, At, clientVars
    <3>2. CASE Telling
      BY <2>3, <3>1, <3>2 DEF Telling
    <3>3. CASE BeatGoes /\ ~onceDone /\ ~onceLocked
      <4>1. PICK b \in Beats :
              /\ b = Beat(session)
              /\ \/ pc[b] \in {"beat", "write", "select", "enter"}
                 \/ pc[b] = "wait" /\ waitsOn[b] \notin stopped
        BY <3>3 DEF BeatGoes
      <4>2. CASE b # p
        <5>1. pc'[b] = pc[b] /\ waitsOn'[b] = waitsOn[b]
          BY <1>1, <1>3, <2>1, <2>5, <4>2 DEF LoopStep, ReaderStep, BeatStep, ReadPoll, ReadFetch,
             ReadMessage, Handle, BeginWrite, EndWrite, BeatSelect, BeatStops, BeatTick, OnlyPc,
             loopVars
        <5>2. BeatGoes'
          BY <2>1, <4>1, <5>1 DEF BeatGoes
        <5>3. QED
          BY <3>1, <3>3, <5>2
      <4>3. CASE b = p
        <5>1. BeatStep(p) /\ p \in Beats
          BY <1>3, <4>3, ProcsDiffer DEF LoopStep
        <5>2. ~At(Thread, "farewell")
          BY <2>1 DEF At
        <5>3. CASE BeatSelect(p)
          BY <1>1, <2>1, <3>1, <3>3, <4>1, <4>3, <5>1, <5>3 DEF BeatSelect, Goto, BeatGoes
        <5>4. CASE BeatTick(p) \/ BeginWrite(p, "beat", "enter") \/ EndWrite(p, "select", "enter")
          <6>1. pc'[p] \in {"beat", "write", "select", "enter"}
            BY <1>1, <5>2, <5>4 DEF BeatTick, BeginWrite, EndWrite, Goto, At
          <6>2. BeatGoes'
            BY <2>1, <4>1, <4>3, <6>1 DEF BeatGoes
          <6>3. QED
            BY <3>1, <3>3, <6>2
        <5>5. ~BeatStops(p)
          BY <2>1, <4>1, <4>3 DEF BeatStops, At
        <5>6. QED
          BY <2>5, <5>1, <5>3, <5>4, <5>5 DEF BeatStep
      <4>4. QED
        BY <4>2, <4>3
    <3>4. QED
      BY <2>2, <3>2, <3>3
  <2>6. QED
    BY <2>4, <2>5
<1>4. ASSUME UNCHANGED vars \/ CloseWsClient \/ (\E n \in Conns : LinkBreaks(n)) \/ ThreadInterrupted,
             Untold'
      PROVE  Telling' \/ (BeatGoes' /\ ~onceDone' /\ ~onceLocked')
  <2>1. ~CloseWsClient /\ ~ThreadInterrupted
    BY <1>4 DEF CloseWsClient, ThreadInterrupted, Untold
  <2>2. CASE UNCHANGED vars
    BY <1>2, <1>4, <2>2 DEF vars, clientVars, loopVars, Untold
  <2>3. CASE \E n \in Conns : LinkBreaks(n)
    BY <1>2, <1>4, <2>3 DEF LinkBreaks, clientVars, loopVars, Untold
  <2>4. QED
    BY <1>4, <2>1, <2>2, <2>3
<1>5. ASSUME NEW p \in {Thread, Recon}, NEW next, Begin(p, next)
      PROVE  BeatGoes' /\ ~onceDone' /\ ~onceLocked'
  <2>1. made \in Conns
    BY <1>5, ClientAssumption DEF Begin, At, IInv, AdoptsMade, TypeOK, ClientTypeOK, Conns
  <2>2. Beat(made) \in Beats /\ pc'[Beat(made)] = "beat" /\ session' = made
    BY <1>1, <1>5, <2>1, ProcsDiffer DEF Begin, Reader, Beat
  <2>3. QED
    BY <1>5, <2>2 DEF BeatGoes, Begin, FreshOnce
<1>6. ASSUME ThreadStep, ~crashed, Untold'
      PROVE  Telling' \/ (BeatGoes' /\ ~onceDone' /\ ~onceLocked')
  <2>1. CASE Begin(Thread, "wait")
    BY <1>5, <2>1
  <2>2. CASE TriggerLeave(Thread)
    <3>1. Untold /\ onceLocked
      BY <1>1, <1>6, <2>2 DEF TriggerLeave, Untold, At, Goto, AfterTrigger
    <3>2. Telling
      BY <1>1, <3>1 DEF UntoldIsWatched
    <3>3. \A p \in Loops : pc'[p] = pc[p]
      BY <1>1, <2>2 DEF TriggerLeave, Goto
    <3>4. QED
      BY <3>2, <3>3 DEF Telling
  <2>3. CASE ~Begin(Thread, "wait") /\ ~TriggerLeave(Thread)
    <3>1. pc'[Thread] \notin {"wait", "leave"} \/ signal'
      BY <1>1, <1>6, <2>3 DEF ThreadStep, Dial, Adopt, Trigger, TriggerEnter, TriggerShut,
         TriggerSignal, ThreadWait, ThreadClose, ThreadFarewell, ThreadPanics, Goto, At,
         FirstConnect
    <3>2. QED
      BY <1>6, <3>1 DEF Untold
  <2>4. QED
    BY <2>1, <2>2, <2>3
<1>7. ASSUME ReconStep, ~crashed, Untold'
      PROVE  Telling' \/ (BeatGoes' /\ ~onceDone' /\ ~onceLocked')
  <2>1. CASE Begin(Recon, "top")
    BY <1>5, <2>1
  <2>2. CASE ReconTop
    BY <1>1, <1>2, <1>7, <2>2 DEF ReconTop, OnlyPc, clientVars, loopVars, Goto, At, Untold
  <2>3. CASE ~Begin(Recon, "top") /\ ~ReconTop
    <3>1. pc'[Recon] \notin {"top", "wait"} \/ ~reconnect'
      BY <1>1, <1>7, <2>3 DEF ReconStep, ReconWait, ReconStop, ReconDrop, ReconRetry, ReconSleep,
         ReconPoll, Dial, Adopt, Goto, At, OnlyPc, clientVars
    <3>2. QED
      BY <1>7, <3>1 DEF Untold
  <2>4. QED
    BY <2>1, <2>2, <2>3
<1>8. QED
  BY <1>3, <1>4, <1>6, <1>7, Movers DEF UntoldIsWatched

LEMMA NumbersNext ==
  ASSUME IInv, SessionShape, [Next]_vars
  PROVE  NumbersAreMade'
<1>1. /\ Thread # Recon /\ Thread \in Procs /\ Recon \in Procs /\ pc \in [Procs -> Pcs]
      /\ Thread \notin Loops /\ Recon \notin Loops /\ Loops \subseteq Procs /\ Beats \subseteq Loops
      /\ held \in [Loops -> 0..MaxConns] /\ waitsOn \in [Beats -> 0..MaxConns]
      /\ made \in Nat /\ conn \in Nat /\ session \in Nat /\ MaxConns \in Nat
      /\ made <= MaxConns /\ link \in [Conns -> LinkStates]
      /\ NumbersAreMade /\ FirstConnect /\ SessionsInOrder
  BY ProcsDiffer, ClientAssumption
  DEF IInv, TypeOK, PcTypeOK, ClientTypeOK, LoopTypeOK, SessionShape
<1>2. ASSUME UNCHANGED <<made, conn, session, loopVars>>,
             \A p \in Loops : pc'[p] = pc[p],
             pc'[Thread] = "farewell" => pc[Thread] = "farewell" \/ conn # 0,
             \A n \in 1..made : link[n] # "none" => link'[n] # "none"
      PROVE  NumbersAreMade'
  BY <1>1, <1>2 DEF NumbersAreMade, loopVars
<1>3. ASSUME NEW n, Close(n) PROVE \A k \in 1..made : link[k] # "none" => link'[k] # "none"
  BY <1>1, <1>3 DEF Close, Conns
<1>4. ASSUME NEW p \in Loops, LoopStep(p) PROVE NumbersAreMade'
  <2>1. /\ UNCHANGED <<made, conn, session>>
        /\ pc[p] # "none"
        /\ \A q \in Procs \ {p} : pc'[q] = pc[q]
    BY <1>4, LoopStepEffect DEF Dead
  <2>2. session # 0
    BY <1>1, <2>1 DEF NumbersAreMade
  <2>3. \A k \in 1..made : link[k] # "none" => link'[k] # "none"
    <3>1. CASE TriggerShut(p)
      BY <1>3, <3>1 DEF TriggerShut
    <3>2. CASE ~TriggerShut(p)
      BY <1>4, <3>2 DEF LoopStep, ReaderStep, BeatStep, Trigger, TriggerEnter, TriggerSignal,
         TriggerLeave, ReadPoll, ReadFetch, ReadMessage,
         Handle, BeginWrite, EndWrite, BeatSelect, BeatStops, BeatTick, OnlyPc
    <3>3. QED
      BY <3>1, <3>2
  <2>4. \A q \in Loops : held'[q] \in {held[q], conn, 0}
    BY <1>1, <1>4 DEF LoopStep, ReaderStep, BeatStep, Trigger, TriggerEnter, TriggerShut,
       TriggerSignal, TriggerLeave, ReadPoll, ReadFetch, ReadMessage,
       Handle, BeginWrite, EndWrite, BeatSelect, BeatStops, BeatTick, OnlyPc, loopVars
  <2>5. \A q \in Beats : pc'[q] = "wait" => waitsOn'[q] \in 1..session
    <3>1. CASE BeatSelect(p)
      BY <1>1, <2>1, <2>2, <3>1 DEF BeatSelect, NumbersAreMade
    <3>2. CASE ~BeatSelect(p)
      <4>1. pc'[p] # "wait" \/ p \notin Beats
        BY <1>1, <1>4, <3>2, ProcsDiffer DEF LoopStep, BeatStep, Trigger, TriggerEnter, TriggerShut,
           TriggerSignal, TriggerLeave, BeginWrite, EndWrite, BeatStops, BeatTick, Goto, AfterTrigger
      <4>2. \A q \in Beats \ {p} : waitsOn'[q] = waitsOn[q]
        BY <1>1, <1>4, <3>2 DEF LoopStep, ReaderStep, BeatStep, Trigger, TriggerEnter, TriggerShut,
           TriggerSignal, TriggerLeave, ReadPoll, ReadFetch, ReadMessage,
           Handle, BeginWrite, EndWrite, BeatStops, BeatTick, OnlyPc, loopVars
      <4>3. QED
        BY <1>1, <2>1, <4>1, <4>2 DEF NumbersAreMade
    <3>3. QED
      BY <3>1, <3>2
  <2>6. QED
    BY <1>1, <2>1, <2>2, <2>3, <2>4, <2>5 DEF NumbersAreMade
<1>5. CASE UNCHANGED vars \/ CloseWsClient \/ ThreadInterrupted
  BY <1>1, <1>2, <1>5 DEF vars, clientVars, CloseWsClient, ThreadInterrupted, Goto
<1>6. CASE \E n \in Conns : LinkBreaks(n)
  BY <1>1, <1>2, <1>6 DEF LinkBreaks, clientVars, Conns
<1>7. ASSUME NEW p \in {Thread, Recon}, NEW fail, Dial(p, fail), fail # "farewell"
      PROVE  NumbersAreMade'
  <2>1. UNCHANGED <<conn, session, loopVars>> /\ \A q \in Loops : pc'[q] = pc[q]
    BY <1>1, <1>7 DEF Dial, Goto, clientVars
  <2>2. pc'[Thread] = "farewell" => pc[Thread] = "farewell"
    BY <1>1, <1>7 DEF Dial, Goto
  <2>3. CASE UNCHANGED <<made, link>>
    BY <1>2, <2>1, <2>2, <2>3
  <2>4. CASE made < MaxConns /\ made' = made + 1 /\ link' = [link EXCEPT ![made + 1] = "open"]
    <3>1. \A n \in 1..made' : link'[n] # "none"
      BY <1>1, <2>4 DEF NumbersAreMade, Conns
    <3>2. QED
      BY <1>1, <2>1, <2>2, <2>4, <3>1 DEF NumbersAreMade, loopVars
  <2>5. QED
    BY <1>7, <2>3, <2>4 DEF Dial
<1>8. ASSUME NEW p \in {Thread, Recon}, Adopt(p) PROVE NumbersAreMade'
  BY <1>1, <1>8 DEF Adopt, Goto, NumbersAreMade, loopVars, At
<1>9. ASSUME NEW p \in {Thread, Recon}, NEW next \in {"wait", "top"}, Begin(p, next)
      PROVE NumbersAreMade'
  <2>1. made # 0 /\ made \in Conns /\ session <= made /\ UNCHANGED <<made, conn, link, loopVars>>
        /\ session' = made
    BY <1>1, <1>9 DEF Begin, At, IInv, AdoptsMade, SessionsInOrder, Conns
  <2>2. /\ \A q \in Beats : pc'[q] \in {pc[q], "beat"}
        /\ pc'[Thread] \in {pc[Thread], "wait", "top"}
    BY <1>1, <1>9, <2>1, ProcsDiffer DEF Begin, Reader, Beat, Thread, Recon
  <2>3. QED
    BY <1>1, <2>1, <2>2 DEF NumbersAreMade, loopVars
<1>10. CASE ThreadStep
  <2>1. CASE TriggerShut(Thread) \/ ThreadFarewell
    BY <1>1, <1>2, <1>3, <2>1 DEF TriggerShut, ThreadFarewell, Goto, clientVars
  <2>2. CASE TriggerEnter(Thread) \/ TriggerSignal(Thread) \/ TriggerLeave(Thread)
    BY <1>1, <1>2, <2>2 DEF TriggerEnter, TriggerSignal, TriggerLeave, Goto, AfterTrigger
  <2>3. CASE ThreadWait \/ ThreadClose \/ ThreadPanics
    BY <1>1, <1>2, <2>3 DEF ThreadWait, ThreadClose, ThreadPanics, Goto, OnlyPc, clientVars
  <2>4. QED
    BY <1>7, <1>8, <1>9, <1>10, <2>1, <2>2, <2>3 DEF ThreadStep, Trigger
<1>11. CASE ReconStep
  <2>1. CASE ReconDrop
    <3>1. /\ conn' = 0 /\ Close(conn) /\ UNCHANGED <<made, session, loopVars>>
          /\ \A q \in Procs \ {Recon} : pc'[q] = pc[q]
          /\ ~At(Thread, "farewell")
      BY <1>1, <2>1 DEF ReconDrop, Goto, MuFree
    <3>2. \A k \in 1..made : link'[k] # "none"
      BY <1>1, <1>3, <3>1 DEF NumbersAreMade
    <3>3. QED
      BY <1>1, <3>1, <3>2 DEF NumbersAreMade, loopVars, At
  <2>2. CASE ReconTop \/ ReconWait \/ ReconStop \/ ReconRetry \/ ReconSleep \/ ReconPoll
    BY <1>1, <1>2, <2>2 DEF ReconTop, ReconWait, ReconStop, ReconRetry, ReconSleep, ReconPoll,
       Goto, OnlyPc, clientVars
  <2>3. QED
    BY <1>7, <1>8, <1>9, <1>11, <2>1, <2>2 DEF ReconStep
<1>12. QED
  BY <1>4, <1>5, <1>6, <1>10, <1>11, Movers

LEMMA SessionShapeNext == IInv /\ SessionShape /\ [Next]_vars => SessionShape'
<1> SUFFICES ASSUME IInv, SessionShape, [Next]_vars PROVE SessionShape'
  OBVIOUS
<1> QED
  BY SessionsNext, FirstConnectNext, WatchNext, NumbersNext DEF SessionShape

-----------------------------------------------------------------------------
(* Prompt goroutines: a session is over before the next one begins.        *)

\* Nobody but a read loop in the middle of a command is left.
Quiet ==
  /\ \A p \in Beats : Dead(p)
  /\ \A p \in Readers : pc[p] \in {"none", "end", "handle", "respond", "write", "poll"}
  /\ pc[Thread] \notin TriggerPcs

QuietBetween ==
  \/ pc[Recon] \in {"poll", "dial", "adopt"} /\ ~muStuck
  \/ pc[Recon] = "begin"
  => Quiet

\* Only the heartbeat of the current session has not ended.
OldBeatsEnded == \A p \in Beats : p # Beat(session) => Dead(p)

InOnce(p) == pc[p] \in {"shut", "signal", "leave"}

\* Who is inside the Do of triggerOnce holds the mutex of the present one.
OnceIsHeld ==
  \A p \in Loops \cup {Thread} :
    InOnce(p) => onceLocked /\ \A q \in Loops \cup {Thread} : InOnce(q) => q = p

PromptShape == QuietBetween /\ OldBeatsEnded /\ OnceIsHeld /\ ~crashed

\* When the back-off is over everything that could move has.
LEMMA QuietAfterSleep ==
  ASSUME Prompt, IInv, SessionShape, ReconSleep, ~muStuck
  PROVE  Quiet
<1>1. /\ pc[Recon] = "sleep" /\ conn = 0
      /\ \A p \in Loops \cup {Thread} : ~OnItsWay(p)
  BY DEF ReconSleep, At, IInv, DialsWithoutConn
<1>2. MuFree
  BY <1>1 DEF MuFree, At, SessionShape, NumbersAreMade
<1>3. /\ Loops = Readers \cup Beats /\ made \in Nat /\ held \in [Loops -> 0..MaxConns]
      /\ made <= MaxConns /\ MaxConns \in Nat /\ session \in Nat
      /\ \A p \in Readers : pc[p] \in ReaderPcs
      /\ \A p \in Beats : pc[p] \in BeatPcs
      /\ link \in [Conns -> LinkStates]
  BY ProcsDiffer, ClientAssumption DEF IInv, TypeOK, PcTypeOK, ClientTypeOK, LoopTypeOK
<1>4. \A p \in Loops : pc[p] \notin {"read", "write"}
  <2>1. SUFFICES ASSUME NEW p \in Loops, pc[p] \in {"read", "write"} PROVE FALSE
    OBVIOUS
  <2>2. held[p] \in 1..made
    BY <1>3, <2>1 DEF IInv, TypeOK, LoopTypeOK, SessionShape, NumbersAreMade
  <2>3. held[p] \in Conns /\ link[held[p]] # "none"
    BY <1>3, <2>2 DEF SessionShape, NumbersAreMade, Conns
  <2>4. ~Live(held[p])
    <3>1. ~At(Thread, "adopt") /\ ~At(Recon, "adopt")
      BY <1>1 DEF At, SessionShape, FirstConnect
    <3>2. QED
      BY <1>1, <2>2, <2>3, <3>1 DEF IInv, OldConnsAreClosed
  <2>5. link[held[p]] = "closed"
    BY <1>3, <2>3, <2>4 DEF LinkStates, Live
  <2>6. QED
    BY <1>1, <2>1, <2>5 DEF OnItsWay
<1>5. WriteMuFree
  BY <1>4 DEF WriteMuFree, At
<1>6. \A p \in Loops : pc[p] \notin {"poll", "fetch", "enter", "shut", "signal", "leave", "select",
                                     "beat", "respond", "read", "write"}
  BY <1>1, <1>2, <1>4, <1>5 DEF OnItsWay
<1>7. \A p \in Beats : pc[p] # "wait"
  <2>1. SUFFICES ASSUME NEW p \in Beats, pc[p] = "wait" PROVE FALSE
    OBVIOUS
  <2>2. waitsOn[p] \in 1..session
    BY <2>1 DEF SessionShape, NumbersAreMade
  <2>3. session \in stopped /\ 1..(session - 1) \subseteq stopped
    BY <1>1 DEF SessionShape, SessionsInOrder, Replacing
  <2>4. waitsOn[p] \in stopped
    BY <1>3, <2>2, <2>3
  <2>5. QED
    BY <1>1, <1>3, <2>1, <2>4 DEF OnItsWay
<1>8. pc[Thread] \notin TriggerPcs
  BY <1>1, <1>2 DEF OnItsWay, TriggerPcs
<1>9. QED
  BY <1>3, <1>6, <1>7, <1>8 DEF Quiet, Dead, ReaderPcs, BeatPcs, TriggerPcs

LEMMA PromptNext ==
  ASSUME Prompt, IInv, SessionShape, PromptShape, [Next]_vars
  PROVE  PromptShape'
<1>1. /\ Thread # Recon /\ Thread \in Procs /\ Recon \in Procs /\ pc \in [Procs -> Pcs]
      /\ Thread \notin Loops /\ Recon \notin Loops /\ Loops \subseteq Procs
      /\ Beats \subseteq Loops /\ Readers \subseteq Loops /\ Loops = Readers \cup Beats
      /\ Readers \cap Beats = {}
      /\ FirstConnect /\ SessionsInOrder
      /\ QuietBetween /\ OldBeatsEnded /\ OnceIsHeld /\ ~crashed
  BY ProcsDiffer DEF IInv, TypeOK, PcTypeOK, SessionShape, PromptShape
<1>2. ASSUME \A p \in Loops : pc'[p] = pc[p],
             InOnce(Thread)' => InOnce(Thread),
             pc'[Thread] \in TriggerPcs => pc[Thread] \in TriggerPcs,
             pc'[Recon] \in {"poll", "dial", "adopt", "begin"} =>
               \/ pc[Recon] = "sleep" /\ ReconSleep
               \/ pc'[Recon] \in {"poll", "dial", "adopt"} /\ pc[Recon] \in {"poll", "dial", "adopt"}
               \/ pc[Recon] = "adopt" /\ ~muStuck
               \/ pc[Recon] = "begin",
             muStuck => muStuck', muStuck' => muStuck \/ pc'[Recon] = pc[Recon],
             UNCHANGED <<session, onceLocked, crashed>>
      PROVE  PromptShape'
  <2>1. OldBeatsEnded'
    BY <1>1, <1>2 DEF OldBeatsEnded, Dead
  <2>2. OnceIsHeld'
    BY <1>1, <1>2 DEF OnceIsHeld, InOnce
  <2>3. QuietBetween'
    <3>1. SUFFICES ASSUME \/ pc'[Recon] \in {"poll", "dial", "adopt"} /\ ~muStuck'
                          \/ pc'[Recon] = "begin"
                   PROVE  Quiet'
      BY DEF QuietBetween
    <3>2. Quiet
      <4>1. CASE pc[Recon] = "sleep" /\ ReconSleep
        <5>1. pc'[Recon] = "poll"
          BY <1>1, <4>1 DEF ReconSleep, Goto
        <5>2. QED
          BY <1>2, <3>1, <4>1, <5>1, QuietAfterSleep
      <4>2. CASE pc[Recon] # "sleep"
        BY <1>1, <1>2, <3>1, <4>2 DEF QuietBetween
      <4>3. QED
        BY <1>2, <3>1, <4>1, <4>2
    <3>3. QED
      BY <1>1, <1>2, <3>2 DEF Quiet, Dead
  <2>4. QED
    BY <1>1, <1>2, <2>1, <2>2, <2>3 DEF PromptShape
<1>3. ASSUME NEW p \in Loops \cup {Thread}, Trigger(p),
             OldBeatsEnded', QuietBetween'
      PROVE  PromptShape'
  <2>1. p \in Procs /\ \A q \in Procs \ {p} : pc'[q] = pc[q]
    BY <1>1, <1>3 DEF Trigger, TriggerEnter, TriggerShut, TriggerSignal, TriggerLeave, Goto
  <2>2. OnceIsHeld' /\ ~crashed'
    <3>1. CASE TriggerEnter(p)
      BY <1>1, <2>1, <3>1 DEF TriggerEnter, Goto, At, OnceIsHeld, InOnce, AfterTrigger
    <3>2. CASE TriggerShut(p)
      BY <1>1, <2>1, <3>2 DEF TriggerShut, Goto, At, OnceIsHeld, InOnce, clientVars
    <3>3. CASE TriggerSignal(p)
      BY <1>1, <2>1, <3>3 DEF TriggerSignal, Goto, At, OnceIsHeld, InOnce
    <3>4. CASE TriggerLeave(p)
      <4>1. InOnce(p) /\ onceLocked /\ crashed' = ~onceLocked /\ pc'[p] = AfterTrigger(p)
        BY <1>1, <1>3, <2>1, <3>4 DEF TriggerLeave, Goto, At, OnceIsHeld, InOnce
      <4>2. \A q \in Loops \cup {Thread} : ~InOnce(q)'
        BY <1>1, <1>3, <2>1, <4>1 DEF OnceIsHeld, InOnce, AfterTrigger
      <4>3. QED
        BY <4>1, <4>2 DEF OnceIsHeld
    <3>5. QED
      BY <1>3, <3>1, <3>2, <3>3, <3>4 DEF Trigger
  <2>3. QED
    BY <1>3, <2>2 DEF PromptShape
<1>4. ASSUME NEW p \in Loops, LoopStep(p) PROVE PromptShape'
  <2>1. /\ UNCHANGED <<session, muStuck>> /\ ~Dead(p) /\ p \in Procs
        /\ \A q \in Procs \ {p} : pc'[q] = pc[q]
    BY <1>1, <1>4, LoopStepEffect
  <2>2. OldBeatsEnded'
    <3>1. SUFFICES ASSUME NEW q \in Beats, q # Beat(session) PROVE pc'[q] \in {"none", "end"}
      BY <2>1 DEF OldBeatsEnded, Dead
    <3>2. Dead(q) /\ q # p
      BY <1>1, <2>1, <3>1 DEF OldBeatsEnded
    <3>3. QED
      BY <1>1, <2>1, <3>1, <3>2 DEF Dead
  <2>3. QuietBetween'
    <3>1. SUFFICES ASSUME \/ pc[Recon] \in {"poll", "dial", "adopt"} /\ ~muStuck
                          \/ pc[Recon] = "begin"
                   PROVE  Quiet'
      BY <1>1, <2>1 DEF QuietBetween
    <3>2. Quiet /\ session \in stopped
      BY <1>1, <3>1 DEF QuietBetween, SessionsInOrder, Replacing
    <3>3. p \in Readers /\ pc[p] \in {"handle", "respond", "write", "poll"} /\ ReaderStep(p)
      BY <1>1, <1>4, <2>1, <3>2 DEF Quiet, Dead, LoopStep
    <3>4. pc'[p] \in {"end", "respond", "write", "poll"}
      BY <1>1, <3>2, <3>3 DEF ReaderStep, ReadPoll, ReadFetch, ReadMessage, Handle, BeginWrite,
         EndWrite, Trigger, TriggerEnter, TriggerShut, TriggerSignal, TriggerLeave, At, Goto
    <3>5. QED
      BY <1>1, <2>1, <3>2, <3>3, <3>4 DEF Quiet, Dead
  <2>4. CASE ~Trigger(p)
    <3>1. /\ UNCHANGED <<onceLocked, crashed>>
          /\ ~InOnce(p) /\ ~InOnce(p)'
      BY <1>1, <1>4, <2>4 DEF LoopStep, ReaderStep, BeatStep, ReadPoll, ReadFetch, ReadMessage,
         Handle, BeginWrite, EndWrite, BeatSelect, BeatStops, BeatTick, OnlyPc, At, Goto,
         clientVars, InOnce
    <3>2. OnceIsHeld'
      BY <1>1, <2>1, <3>1 DEF OnceIsHeld, InOnce
    <3>3. QED
      BY <1>1, <2>2, <2>3, <3>1, <3>2 DEF PromptShape
  <2>5. QED
    BY <1>3, <2>2, <2>3, <2>4
<1>5. CASE UNCHANGED vars \/ CloseWsClient \/ \E n \in Conns : LinkBreaks(n)
  BY <1>1, <1>2, <1>5 DEF vars, clientVars, CloseWsClient, LinkBreaks, InOnce, QuietBetween
<1>6. ASSUME NEW p \in {Thread, Recon}, NEW next \in {"wait", "top"}, Begin(p, next),
             p = Recon \/ next = "wait"
      PROVE  PromptShape'
  <2>1. /\ \A q \in Loops : pc[q] \notin {"shut", "signal", "leave"}
        /\ \A q \in Beats : Dead(q)
        /\ pc[Thread] \notin {"shut", "signal", "leave"}
        /\ p = Thread => pc[Recon] \notin {"poll", "dial", "adopt", "begin"}
    <3>1. CASE p = Thread
      BY <1>1, <1>6, <3>1 DEF Begin, At, FirstConnect, Dead
    <3>2. CASE p = Recon
      <4>1. Quiet
        BY <1>1, <1>6, <3>2 DEF Begin, At, QuietBetween
      <4>2. QED
        BY <1>1, <3>2, <4>1 DEF Quiet, Dead, TriggerPcs
    <3>3. QED
      BY <1>6, <3>1, <3>2
  <2>2. made \in Conns
    BY <1>6, ClientAssumption DEF Begin, At, IInv, AdoptsMade, TypeOK, ClientTypeOK, Conns
  <2>3. /\ pc'[p] = next /\ \A q \in {Thread, Recon} \ {p} : pc'[q] = pc[q]
        /\ \A q \in Loops : pc'[q] \in {pc[q], "poll", "beat"}
        /\ \A q \in Beats \ {Beat(made)} : pc'[q] = pc[q]
    BY <1>1, <1>6, <2>2, ProcsDiffer DEF Begin, Thread, Recon, Reader, Beat
  <2>4. OldBeatsEnded'
    BY <1>6, <2>1, <2>3 DEF OldBeatsEnded, Begin, Dead
  <2>5. OnceIsHeld'
    BY <1>1, <1>6, <2>1, <2>3 DEF OnceIsHeld, InOnce
  <2>6. QuietBetween'
    BY <1>1, <1>6, <2>1, <2>3 DEF QuietBetween
  <2>7. QED
    BY <1>1, <1>6, <2>4, <2>5, <2>6 DEF PromptShape, Begin
<1>7. CASE ThreadInterrupted
  BY <1>1, <1>2, <1>7 DEF ThreadInterrupted, Goto, InOnce, TriggerPcs, QuietBetween
<1>8. CASE ThreadStep
  <2>1. CASE Dial(Thread, "enter")
    <3>1. pc[Recon] \in {"top", "wait", "end"} /\ pc'[Recon] = pc[Recon]
      BY <1>1, <2>1 DEF Dial, At, Goto, FirstConnect
    <3>2. QuietBetween'
      BY <3>1 DEF QuietBetween
    <3>3. /\ UNCHANGED <<session, onceLocked, crashed>> /\ \A p \in Loops : pc'[p] = pc[p]
          /\ pc'[Thread] \in {"adopt", "enter"}
      BY <1>1, <2>1 DEF Dial, Goto, clientVars
    <3>4. QED
      BY <1>1, <3>2, <3>3 DEF PromptShape, OldBeatsEnded, OnceIsHeld, InOnce, Dead
  <2>2. CASE Adopt(Thread)
    BY <1>1, <1>2, <2>2 DEF Adopt, Goto, At, InOnce, TriggerPcs
  <2>3. CASE Begin(Thread, "wait")
    BY <1>6, <2>3
  <2>4. CASE Trigger(Thread)
    <3>1. /\ \A q \in Procs \ {Thread} : pc'[q] = pc[q] /\ pc[Thread] \in TriggerPcs
          /\ UNCHANGED <<session, muStuck>>
      BY <1>1, <2>4 DEF Trigger, TriggerEnter, TriggerShut, TriggerSignal, TriggerLeave, Goto,
         At, clientVars, TriggerPcs
    <3>2. OldBeatsEnded'
      BY <1>1, <3>1 DEF OldBeatsEnded, Dead
    <3>3. QuietBetween'
      <4>1. SUFFICES ASSUME ~Quiet PROVE QuietBetween'
        BY <2>4, <3>1 DEF Quiet, Trigger, TriggerEnter, TriggerShut, TriggerSignal, TriggerLeave, At, TriggerPcs
      <4>2. QED
        BY <1>1, <3>1, <4>1 DEF QuietBetween
    <3>4. QED
      BY <1>3, <2>4, <3>2, <3>3
  <2>5. CASE ThreadWait \/ ThreadClose \/ ThreadFarewell \/ ThreadPanics
    BY <1>1, <1>2, <2>5 DEF ThreadWait, ThreadClose, ThreadFarewell, ThreadPanics, OnlyPc,
       Goto, At, clientVars, InOnce, TriggerPcs
  <2>6. QED
    BY <1>8, <2>1, <2>2, <2>3, <2>4, <2>5 DEF ThreadStep
<1>9. CASE ReconStep
  <2>1. CASE Begin(Recon, "top")
    BY <1>6, <2>1
  <2>2. CASE ReconTop \/ ReconWait \/ ReconRetry \/ ReconSleep \/ ReconPoll
    BY <1>1, <1>2, <2>2 DEF ReconTop, ReconWait, ReconRetry, ReconSleep, ReconPoll, OnlyPc,
       Goto, At, clientVars, InOnce
  <2>3. CASE ReconStop \/ ReconDrop
    BY <1>1, <1>2, <2>3 DEF ReconStop, ReconDrop, Goto, At, InOnce
  <2>4. CASE Dial(Recon, "retry")
    BY <1>1, <1>2, <2>4 DEF Dial, Goto, At, InOnce, clientVars
  <2>5. CASE Adopt(Recon)
    BY <1>1, <1>2, <2>5 DEF Adopt, Goto, At, InOnce, MuFree
  <2>6. QED
    BY <1>9, <2>1, <2>2, <2>3, <2>4, <2>5 DEF ReconStep
<1>10. QED
  BY <1>4, <1>5, <1>7, <1>8, <1>9, Movers

LEMMA PromptInit == Init => PromptShape
<1> SUFFICES ASSUME Init PROVE PromptShape
  OBVIOUS
<1>1. pc[Thread] = "dial" /\ pc[Recon] = "top" /\ \A p \in Loops : pc[p] = "none"
  BY ProcsDiffer DEF Init
<1>2. QED
  BY <1>1, ProcsDiffer DEF Init, PromptShape, QuietBetween, OldBeatsEnded, OnceIsHeld, InOnce, Dead

-----------------------------------------------------------------------------
(* The theorems.                                                           *)

\* The invariant without assumptions on how soon goroutines are scheduled.
LEMMA Sessions == Spec => [](IInv /\ SessionShape)
<1>1. Init => IInv /\ SessionShape
  BY IInvInit, SessionShapeInit
<1>2. (IInv /\ SessionShape) /\ [Next]_vars => (IInv /\ SessionShape)'
  BY IInvNext, SessionShapeNext
<1> QED
  BY <1>1, <1>2, PTL DEF Spec

\* However late the loops of earlier sessions are, no reconnect is lost between
\* triggerOnce, reconnectCh and the replacement of both: while reconnectLoop waits for
\* a token, the session has a heartbeat or somebody who is about to send one.
THEOREM NoReconnectIsLost == Spec => []SessionIsWatched
<1>1. IInv /\ SessionShape => SessionIsWatched
  <2> SUFFICES ASSUME IInv, SessionShape, reconnect, ~crashed, At(Thread, "wait"),
                      At(Recon, "wait"), ~signal
               PROVE  Watched
    BY DEF SessionIsWatched
  <2>1. Telling \/ (BeatGoes /\ ~onceDone)
    BY DEF SessionShape, UntoldIsWatched, Untold, At
  <2>2. QED
    BY <2>1, ProcsDiffer DEF Telling, BeatGoes, Watched
<1> QED
  BY <1>1, Sessions, PTL

\* With goroutines that are scheduled within a back-off: one heartbeat goes on,
\* startSessionLoops replaces triggerOnce while nobody is inside its Do, which would be
\* fatal, and of the earlier read loops only one that handles a command is left by then.
THEOREM SessionsDoNotOverlap == ASSUME Prompt PROVE Spec => []OnlyHandlersOutlive
<1>1. Init => PromptShape
  BY PromptInit
<1>2. (IInv /\ SessionShape) /\ PromptShape /\ [Next]_vars => PromptShape'
  BY PromptNext
<1>3. IInv /\ PromptShape => OnlyHandlersOutlive
  <2> SUFFICES ASSUME IInv, PromptShape PROVE OnlyHandlersOutlive
    OBVIOUS
  <2> DEFINE Going == {n \in Conns : \/ pc[Beat(n)] \in {"beat", "write", "select"}
                                     \/ pc[Beat(n)] = "wait" /\ waitsOn[Beat(n)] \notin stopped}
  <2>1. \A n \in Going : n = session
    BY ProcsDiffer DEF PromptShape, OldBeatsEnded, Dead, Beat
  <2>2. Going \subseteq {session}
    BY <2>1
  <2>3. Cardinality(Going) <= 1
    <3> HIDE DEF Going
    <3>1. CASE Going = {}
      BY <3>1, FS_EmptySet
    <3>2. CASE Going = {session}
      <4>1. Cardinality({session}) = 1
        BY FS_Singleton
      <4>2. QED
        BY <3>2, <4>1
    <3>3. QED
      BY <2>2, <3>1, <3>2
  <2>4. QED
    BY <2>3 DEF OnlyHandlersOutlive, OneHeartbeat, OnceIsReplacedIdle, OnlyHandlersAreLeft,
              PromptShape, QuietBetween, Quiet, At, Dead
<1> QED
  BY <1>1, <1>2, <1>3, Sessions, PTL DEF Spec

=============================================================================
