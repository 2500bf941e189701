-------------------------- MODULE WorkerSupervisor --------------------------
(***************************************************************************)
(* What a publisher worker promises, whoever commands it and however the   *)
(* commands interleave.  A worker is idle, active, or told to stop.  While *)
(* active it keeps committing to launches; a launch it is committed to     *)
(* happens or fails; it never has two processes; it goes idle with no      *)
(* process.  Told to stop, it commits to no further launch: at most one    *)
(* more process comes up, the one it was committed to already.             *)
(***************************************************************************)
CONSTANT Workers

VARIABLES
  phase,      \* "idle", "active" or "stopping"
  committed,  \* the worker has decided to launch and has not launched yet
  up          \* the worker has a process it has not waited for

supervisorVars == <<phase, committed, up>>

Init ==
  /\ phase = [w \in Workers |-> "idle"]
  /\ committed = [w \in Workers |-> FALSE]
  /\ up = [w \in Workers |-> FALSE]

\* Start one or more idle workers at once.
Begin(S) ==
  /\ S # {}
  /\ \A w \in S : phase[w] = "idle"
  /\ phase' = [w \in Workers |-> IF w \in S THEN "active" ELSE phase[w]]
  /\ UNCHANGED <<committed, up>>

Commit(w) ==
  /\ phase[w] = "active" /\ ~committed[w] /\ ~up[w]
  /\ committed' = [committed EXCEPT ![w] = TRUE]
  /\ UNCHANGED <<phase, up>>

Spawn(w) ==
  /\ committed[w]
  /\ committed' = [committed EXCEPT ![w] = FALSE]
  /\ up' = [up EXCEPT ![w] = TRUE]
  /\ UNCHANGED phase

LaunchFails(w) ==
  /\ committed[w]
  /\ committed' = [committed EXCEPT ![w] = FALSE]
  /\ UNCHANGED <<phase, up>>

Reap(w) ==
  /\ up[w]
  /\ up' = [up EXCEPT ![w] = FALSE]
  /\ UNCHANGED <<phase, committed>>

TellToStop(w) ==
  /\ phase[w] = "active"
  /\ phase' = [phase EXCEPT ![w] = "stopping"]
  /\ UNCHANGED <<committed, up>>

Finish(w) ==
  /\ phase[w] # "idle" /\ ~committed[w] /\ ~up[w]
  /\ phase' = [phase EXCEPT ![w] = "idle"]
  /\ UNCHANGED <<committed, up>>

Next ==
  \/ \E S \in SUBSET Workers : Begin(S)
  \/ \E w \in Workers : \/ Commit(w) \/ Spawn(w) \/ LaunchFails(w) \/ Reap(w)
                        \/ TellToStop(w) \/ Finish(w)

Spec == Init /\ [][Next]_supervisorVars
=============================================================================
