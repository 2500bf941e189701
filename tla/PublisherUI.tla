----------------------------- MODULE PublisherUI -----------------------------
(***************************************************************************)
(* The window of multipusher (multipusher/main.go): the form, the buttons, *)
(* the table of the outputs and the goroutines that write it.              *)
(*                                                                         *)
(* Three kinds of goroutine run the code of mainUI: the one of the window, *)
(* which runs the callbacks of the widgets one at a time; the one that     *)
(* runs startOnReady when the application has started; and the status      *)
(* polls.  They share the fields of mainUI; uiMu guards targetStatus and   *)
(* statusStop only.  The publisher is what StartFFmpegPublisher and the    *)
(* other commands make of it for the four or five outputs that share one   *)
(* worker (FFmpegPublisher models it in detail).                           *)
(***************************************************************************)
EXTENDS Naturals, Sequences, FiniteSets

CONSTANTS
  Sites,   \* the stream names the form offers
  Polls,   \* the status polls that may be alive at one time
  MaxActs  \* bound: the starts and the changes of the form by the user

None == "none"
ASSUME UIAssumption ==
  IsFiniteSet(Sites) /\ None \notin Polls /\ "window" \notin Polls /\ "ready" \notin Polls

VARIABLES
  form,          \* what the form shows: [site, audio]
  running,       \* mainUI.running
  startOn,       \* the start button is enabled
  stopOn,        \* the stop button is enabled
  statusStop,    \* the poll whose channel mainUI.statusStop holds
  stopped,       \* the polls whose channel is closed
  targetStatus,  \* mainUI.targetStatus: [name -> status]
  previews,      \* mainUI.previews: [name of a row -> the status it shows]
  thread,        \* [goroutine -> where it is and its local variables]
  publisher,     \* [targets, worker]: the configured targets, the worker's state
  life,          \* "open", "closed" by the user, or "crashed"
  acts,          \* the starts and the changes by the user, at most MaxActs
  raced          \* history: what overlapped so far

widgets == <<form, startOn, stopOn>>
table == <<targetStatus, previews>>
polling == <<statusStop, stopped>>
vars == <<widgets, table, polling, running, thread, publisher, life, acts, raced>>

Threads == {"window", "ready"} \cup Polls
Forms == [site : Sites, audio : BOOLEAN]
Names == Sites \X {"video", "audio"}
Active == {"Starting", "Running"}

\* activeStreamsForInput, buildPublishTargets: the output that is only sound is left out
\* when no audio input is chosen.
NamesOf(f) == {<<f.site, kind>> : kind \in IF f.audio THEN {"video", "audio"} ELSE {"video"}}

\* The rows of the table below its title.
RowsOf_WithTitle(rows) == Cardinality(DOMAIN rows) + 1
RowsOf(rows) == Cardinality(DOMAIN rows)

\* GetPublisherStatusSnapshot, by the name in the target's URL.  "Ending" is a worker whose
\* stop was given up after five seconds: it still counts, and shows, as running, and its
\* channel is closed.
Snapshot ==
  [n \in publisher.targets |-> IF publisher.worker = "Ending" THEN "Running" ELSE publisher.worker]

NoStatus == [n \in {} |-> "Idle"]

\* What the handlers do, step by step.
RefreshPreview == <<"assign", "draw">>
Start ==
  <<"config", "mark", "assign", "draw", "start", "run", "buttons", "poll", "set", "assign", "draw",
    "detach", "attach">>
Recovery == <<"buttons", "mark", "assign", "draw">>
Stop_NotShown == <<"stop", "clear", "buttons", "detach">>
Stop == <<"stop", "clear", "buttons", "detach", "mark", "assign", "draw">>
Close == <<"detach", "closed">>
StopAndClose == <<"stop", "detach", "closed">>
StatusRefresh == <<"set", "assign", "draw">>

\* A goroutine: whether it is alive, the steps it has left, and its local variables: the
\* form it read and whether the rows are built from it, the statuses, the length of the
\* table.
Begin == [alive |-> TRUE, todo |-> <<>>, form |-> CHOOSE f \in Forms : TRUE, built |-> FALSE,
          status |-> NoStatus, rows |-> 0]
Off == [Begin EXCEPT !.alive = FALSE]

Init ==
  /\ \E f \in Forms :
       /\ form = f
       /\ previews = [n \in NamesOf(f) |-> "Idle"]
  /\ running = FALSE /\ startOn = TRUE /\ stopOn = FALSE
  /\ statusStop = None /\ stopped = {}
  /\ targetStatus = NoStatus
  /\ thread = [t \in Threads |-> IF t \in Polls THEN Off ELSE Begin]
  /\ publisher = [targets |-> {}, worker |-> "Stopped"]
  /\ life = "open" /\ acts = 0 /\ raced = {}

-----------------------------------------------------------------------------
Idle(t) == life = "open" /\ thread[t].alive /\ thread[t].todo = <<>>
Busy(t) == thread[t].todo # <<>>
At(t, at) == life = "open" /\ Busy(t) /\ Head(thread[t].todo) = at

\* The window and a poll wait for the next event; startOnReady ends.
UserActs == Idle("window") /\ acts < MaxActs /\ acts' = acts + 1

Rest(t) == IF t = "ready" THEN Off ELSE Begin

\* Goroutine t is at the first of these steps, with these locals.
Does(t, todo, locals) ==
  IF todo = <<>> THEN Rest(t) ELSE [locals EXCEPT !.todo = todo]
Goto(t, todo) == thread' = [thread EXCEPT ![t] = Does(t, todo, @)]
Left(t) == Tail(thread[t].todo)

InRefresh(t) == Busy(t) /\ Head(thread[t].todo) \in {"set", "assign", "draw"}
Race(what) == raced' = raced \cup what

\* What is under way while goroutine t acts.
OtherStart(t) == IF \E u \in {"window", "ready"} \ {t} : Busy(u) THEN {"handler"} ELSE {}
Publishes == publisher.worker # "Stopped" \/ Busy("ready")
OtherRefresh(t) == IF \E u \in Threads \ {t} : InRefresh(u) THEN {"table"} ELSE {}

-----------------------------------------------------------------------------
(* startPublisher, run by startOnReady or by a press of the start button. *)

StartPublisher(t) ==
  /\ Goto(t, IF running THEN <<"buttons">> ELSE Start)
  /\ startOn' = (startOn /\ running)
  /\ Race(OtherStart(t))
  /\ UNCHANGED <<form, stopOn, table, polling, running, publisher, life>>

PressStart == UserActs /\ startOn /\ StartPublisher("window")

StartOnReady ==
  /\ Idle("ready")
  /\ \/ StartPublisher("ready")
     \/ Goto("ready", <<>>) /\ UNCHANGED <<widgets, table, polling, running, publisher, life, raced>>

\* readConfig, MkdirAll and Save, each of which may fail, and InitFFmpegPublisher, for
\* outputs that share one worker.
ReadConfig(t) ==
  /\ At(t, "config")
  /\ \/ publisher' = [publisher EXCEPT !.targets = NamesOf(form)] /\ Goto(t, Left(t))
     \/ Goto(t, <<"buttons">>) /\ UNCHANGED publisher
  /\ UNCHANGED <<widgets, table, polling, running, life, raced>>

\* setAllPreviewStatus: the rows of the table only; the form is then read.
SetAll(status) ==
  [n \in DOMAIN targetStatus \cup DOMAIN previews |->
     IF n \in DOMAIN previews THEN status ELSE targetStatus[n]]

MarkAll(t) ==
  /\ At(t, "mark")
  /\ targetStatus' = SetAll(IF Len(Left(t)) > Len(RefreshPreview) THEN "Starting" ELSE "Stopped")
  /\ thread' = [thread EXCEPT ![t].todo = Tail(@), ![t].form = form, ![t].built = FALSE]
  /\ Race(OtherRefresh(t))
  /\ UNCHANGED <<widgets, previews, polling, running, publisher, life>>

\* StartFFmpegPublisher: ignored by a worker that counts as running.
StartWorker(t) ==
  /\ At(t, "start")
  /\ publisher' = [publisher EXCEPT !.worker = IF @ = "Stopped" THEN "Starting" ELSE @]
  /\ Goto(t, Left(t))
  /\ UNCHANGED <<widgets, table, polling, running, life, raced>>

SetRunning(t) ==
  /\ At(t, "run")
  /\ running' = TRUE
  /\ Goto(t, Left(t))
  /\ UNCHANGED <<widgets, table, polling, publisher, life, raced>>

-----------------------------------------------------------------------------
(* updatePublisherButtons, refreshPublisherStatus and refreshPreview. *)

SetButtons(t) ==
  /\ At(t, "buttons")
  /\ startOn' = ~running /\ stopOn' = running
  /\ Goto(t, Left(t))
  /\ UNCHANGED <<form, table, polling, running, publisher, life, raced>>

ReadStatus(t) ==
  /\ At(t, "poll")
  /\ thread' = [thread EXCEPT ![t].todo = Tail(@), ![t].status = Snapshot]
  /\ UNCHANGED <<widgets, table, polling, running, publisher, life, raced>>

\* The statuses are replaced; readPreviewConfig then reads the form.
SetTargetStatus(t) ==
  /\ At(t, "set")
  /\ targetStatus' = thread[t].status
  /\ thread' = [thread EXCEPT ![t].todo = Tail(@), ![t].status = NoStatus,
                              ![t].form = form, ![t].built = FALSE]
  /\ UNCHANGED <<widgets, previews, polling, running, publisher, life, raced>>

\* buildStreamPreviews: every row shows "Idle".
BuildPreviews(t) ==
  /\ At(t, "assign") /\ ~thread[t].built
  /\ previews' = [n \in NamesOf(thread[t].form) |-> "Idle"]
  /\ thread' = [thread EXCEPT ![t].built = TRUE]
  /\ UNCHANGED <<widgets, targetStatus, polling, running, publisher, life, raced>>

\* applyTargetStatusToPreviews, to the rows there are by now; the table then asks for
\* their number.
ApplyStatus(t) ==
  /\ At(t, "assign") /\ thread[t].built
  /\ previews' = [n \in DOMAIN previews |->
                    IF n \in DOMAIN targetStatus THEN targetStatus[n] ELSE "Idle"]
  /\ thread' = [thread EXCEPT ![t].todo = Tail(@), ![t].form = Begin.form, ![t].built = FALSE,
                              ![t].rows = RowsOf(previews)]
  /\ UNCHANGED <<widgets, targetStatus, polling, running, publisher, life, raced>>

\* A panic ends the program, but in startOnReady, which recovers: it takes the publisher
\* for stopped and shows it so.
Panics(t) ==
  IF t = "ready" /\ Left(t) # <<>>
  THEN /\ running' = FALSE
       /\ thread' = [thread EXCEPT ![t] = [Begin EXCEPT !.todo = Recovery]]
       /\ Race({"handler"}) /\ UNCHANGED life
  ELSE life' = "crashed" /\ UNCHANGED <<running, thread, raced>>

\* The table draws the rows it was told of: the callback indexes previews by the row.
DrawRows(t) ==
  /\ At(t, "draw")
  /\ IF Cardinality(DOMAIN previews) < thread[t].rows
     THEN Panics(t)
     ELSE /\ thread' = [thread EXCEPT ![t] = Does(t, Left(t), [@ EXCEPT !.rows = 0])]
          /\ UNCHANGED <<running, life, raced>>
  /\ UNCHANGED <<widgets, table, polling, publisher>>

ChangeForm_ReadFirst ==
  /\ UserActs
  /\ form' \in Forms \ {form}
  /\ thread' = [thread EXCEPT !["window"] =
                   [Begin EXCEPT !.todo = RefreshPreview, !.form = form]]
  /\ Race(OtherRefresh("window") \cup IF Publishes THEN {"table"} ELSE {})
  /\ UNCHANGED <<startOn, stopOn, table, polling, running, publisher, life>>

\* The callbacks of the form's widgets.
ChangeForm ==
  /\ UserActs
  /\ form' \in Forms \ {form}
  /\ thread' = [thread EXCEPT !["window"] =
                   [Begin EXCEPT !.todo = RefreshPreview, !.form = form']]
  /\ Race(OtherRefresh("window") \cup IF Publishes THEN {"table"} ELSE {})
  /\ UNCHANGED <<startOn, stopOn, table, polling, running, publisher, life>>

-----------------------------------------------------------------------------
(* The status polls. *)

StopPolling_NotClosed(t) ==
  /\ At(t, "detach")
  /\ statusStop' = None
  /\ Goto(t, Left(t))
  /\ UNCHANGED <<widgets, table, stopped, running, publisher, life, raced>>

\* stopStatusPolling: takes the channel under uiMu and closes it.
StopPolling(t) ==
  /\ At(t, "detach")
  /\ statusStop' = None
  /\ stopped' = stopped \cup {p \in {statusStop} \ {None} : thread[p].alive}
  /\ Goto(t, Left(t))
  /\ UNCHANGED <<widgets, table, running, publisher, life, raced>>

\* The rest of startStatusPolling; a channel that another goroutine stored is lost.
StartPolling(t) ==
  /\ At(t, "attach")
  /\ \E p \in Polls \ (stopped \cup {statusStop}) :
       /\ ~thread[p].alive
       /\ statusStop' = p
       /\ thread' = [thread EXCEPT ![p] = Begin, ![t] = Rest(t)]
  /\ UNCHANGED <<widgets, table, running, stopped, publisher, life, raced>>

PollTicks_Once(p) ==
  /\ Idle(p) /\ running /\ targetStatus = NoStatus
  /\ thread' = [thread EXCEPT ![p].todo = StatusRefresh, ![p].status = Snapshot]
  /\ UNCHANGED <<widgets, table, polling, running, publisher, life, raced>>

\* The ticker fires: the poll looks at running and at the publisher.
PollTicks(p) ==
  /\ Idle(p) /\ running
  /\ thread' = [thread EXCEPT ![p].todo = StatusRefresh, ![p].status = Snapshot]
  /\ UNCHANGED <<widgets, table, polling, running, publisher, life, raced>>

\* It ends when its channel is closed, and when the ticker fires while nothing runs.
PollEnds(p) ==
  /\ Idle(p) /\ (p \in stopped \/ ~running)
  /\ thread' = [thread EXCEPT ![p] = Off]
  /\ stopped' = stopped \ {p}
  /\ UNCHANGED <<widgets, table, statusStop, running, publisher, life, raced>>

-----------------------------------------------------------------------------
(* stopAction and the close of the window. *)

PressStop ==
  /\ Idle("window") /\ stopOn
  /\ Goto("window", IF running THEN Stop ELSE <<"buttons">>)
  /\ stopOn' = (stopOn /\ ~running)
  /\ Race(OtherStart("window"))
  /\ UNCHANGED <<form, startOn, table, polling, running, publisher, life>>

\* StopFFmpegPublisher: it gives the worker five seconds.  A second stop of a worker
\* that was given up closes its channel again.
StopWorker ==
  /\ At("window", "stop")
  /\ IF publisher.worker = "Ending"
     THEN life' = "crashed" /\ UNCHANGED <<publisher, thread, raced>>
     ELSE /\ \E w \in IF publisher.worker = "Stopped" THEN {"Stopped"} ELSE {"Stopped", "Ending"} :
               /\ publisher' = [publisher EXCEPT !.worker = w]
               /\ Race(IF w = "Ending" THEN {"handler"} ELSE {})
          /\ Goto("window", Left("window"))
          /\ UNCHANGED life
  /\ UNCHANGED <<widgets, table, polling, running>>

ClearRunning_Not ==
  /\ At("window", "clear")
  /\ Goto("window", Left("window"))
  /\ UNCHANGED <<widgets, table, polling, running, publisher, life, raced>>

ClearRunning ==
  /\ At("window", "clear")
  /\ running' = FALSE
  /\ Goto("window", Left("window"))
  /\ UNCHANGED <<widgets, table, polling, publisher, life, raced>>

\* The close intercept: a running publisher is stopped first, once the user agreed.
PressClose ==
  /\ Idle("window")
  /\ Goto("window", IF running THEN <<"confirm">> ELSE Close)
  /\ Race(OtherStart("window"))
  /\ UNCHANGED <<widgets, table, polling, running, publisher, life>>

AnswerClose_NoStop ==
  /\ At("window", "confirm")
  /\ Goto("window", Close) \/ Goto("window", <<>>)
  /\ UNCHANGED <<widgets, table, polling, running, publisher, life, raced>>

AnswerClose ==
  /\ At("window", "confirm")
  /\ Goto("window", StopAndClose) \/ Goto("window", <<>>)
  /\ UNCHANGED <<widgets, table, polling, running, publisher, life, raced>>

CloseWindow ==
  /\ At("window", "closed")
  /\ life' = "closed"
  /\ UNCHANGED <<widgets, table, polling, running, publisher, thread, raced>>

-----------------------------------------------------------------------------
\* The worker of the publisher: its process runs, fails and is tried again; one that was
\* given up ends in the end.
WorkerMoves ==
  /\ life = "open"
  /\ \/ publisher.worker = "Starting" /\ publisher' = [publisher EXCEPT !.worker = "Running"]
     \/ publisher.worker = "Ending" /\ publisher' = [publisher EXCEPT !.worker = "Stopped"]
  /\ UNCHANGED <<widgets, table, polling, running, thread, life, raced>>

\* The code between two places, whoever runs it.
CodeStep(t) ==
  \/ ReadConfig(t) \/ MarkAll(t) \/ StartWorker(t) \/ SetRunning(t)
  \/ SetButtons(t) \/ ReadStatus(t) \/ SetTargetStatus(t)
  \/ BuildPreviews(t) \/ ApplyStatus(t) \/ DrawRows(t)
  \/ StopPolling(t) \/ StartPolling(t)

PollStep(p) ==
  \/ SetTargetStatus(p) \/ BuildPreviews(p) \/ ApplyStatus(p) \/ DrawRows(p)
  \/ PollTicks(p) \/ PollEnds(p)
WindowStep == CodeStep("window") \/ StopWorker \/ ClearRunning \/ CloseWindow
Program ==
  \/ AnswerClose \/ WindowStep \/ StartOnReady \/ CodeStep("ready")
  \/ \E p \in Polls : PollStep(p)

Next ==
  \/ PressStart \/ ChangeForm
  \/ UNCHANGED acts /\ (PressStop \/ PressClose \/ Program \/ WorkerMoves)

Spec == Init /\ [][Next]_vars

\* Each goroutine that has something to run is run; the ticker of a poll fires.
Fairness ==
  /\ WF_vars(WindowStep /\ UNCHANGED acts)
  /\ WF_vars(CodeStep("ready") /\ UNCHANGED acts)
  /\ \A p \in Polls : WF_vars(PollStep(p) /\ UNCHANGED acts)

FairSpec == Spec /\ Fairness

-----------------------------------------------------------------------------
(* Properties. *)

\* No handler is under way.
Quiet == Idle("window") /\ ~thread["ready"].alive

\* A publisher that publishes can be stopped from the window, and one that does not can
\* be started: the buttons follow what the commands did, unless the automatic start
\* overlapped a press or ended in a panic, or a stop was given up.
ButtonsFollowPublisher ==
  Quiet /\ "handler" \notin raced =>
    /\ running <=> publisher.worker \in Active
    /\ stopOn <=> running
    /\ startOn <=> ~running

\* The publisher does not outlive the window, but in those cases.
ClosedIsStopped ==
  life = "closed" /\ "handler" \notin raced => publisher.worker \notin Active

\* Once stopped, no row is shown as if it were published, unless a poll was under way when
\* the stop showed its result or the form was changed while publishing.
StoppedIsShown ==
  Quiet /\ ~running /\ raced = {} => \A n \in DOMAIN previews : previews[n] \notin Active

\* The table shows the outputs of the form, unless two goroutines refreshed it at one time.
TableFollowsForm ==
  Idle("window") /\ "table" \notin raced => DOMAIN previews = NamesOf(form)

\* The program does not crash unless the table was refreshed by two goroutines at one
\* time or a stop was given up.
CrashNeedsRace == life = "crashed" => raced # {}

\* The poll that a stop will find has not been stopped, or its channel would be closed
\* twice; every poll that goes on can be stopped, unless two starts overlapped.
PollsAreHeld ==
  /\ statusStop \notin stopped
  /\ "handler" \notin raced =>
       \A p \in Polls : thread[p].alive => p = statusStop \/ p \in stopped

\* Once the handlers are done, the window and the publisher agree: buttons, rows, polls
\* and the close (main.go:583-682, 755-835).
WindowFollowsPublisher ==
  ButtonsFollowPublisher /\ ClosedIsStopped /\ StoppedIsShown /\ TableFollowsForm /\ PollsAreHeld

\* While publishing goes on, the table catches up with the form and with the publisher,
\* but for the moment in which a refresh has built the rows and not set their statuses,
\* and unless the automatic start overlapped a press: a stop may then close the poll of
\* the start that follows it (main.go:755-802).
Agrees ==
  /\ DOMAIN previews = NamesOf(form)
  /\ \A n \in NamesOf(form) :
       \/ previews[n] = IF n \in publisher.targets THEN Snapshot[n] ELSE "Idle"
       \/ previews[n] = "Idle" /\ \E t \in Threads : thread[t].built
ShownCatchesUp ==
  <>[](running /\ life = "open" /\ "handler" \notin raced) => <>[]Agrees
=============================================================================
