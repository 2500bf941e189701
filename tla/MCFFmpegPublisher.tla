------------------------- MODULE MCFFmpegPublisher -------------------------
(***************************************************************************)
(* Small instances of the publisher manager for TLC.                       *)
(***************************************************************************)
EXTENDS FFmpegPublisher, TLC

CONSTANTS t1, t2, t3, c1, c2

MCTargets == {t1, t2}

\* t3 is never configured: it names the targets that have its base.
MCTargetsAndAlias == {t1, t2, t3}

\* Every URL has a base of its own.
OwnBase == [t \in MCTargets |-> t]

\* All URLs have the same base: a URL that is not configured matches every target.
OneBase == [t \in MCTargetsAndAlias |-> "base"]

\* One target or the other; two targets with a process each; two with a shared one.
OneTarget == [targets |-> {t1}, live |-> FALSE]
OtherTarget == [targets |-> {t2}, live |-> FALSE]
PerTarget == [targets |-> {t1, t2}, live |-> FALSE]
SharedLive == [targets |-> {t1, t2}, live |-> TRUE]

OnlyOne == {OneTarget}
Mixed == {OneTarget, OtherTarget, SharedLive}

NoReInit == AllOps \ {"init"}

\* Pausing an alias stops every target, and, in shared mode, every pause is a stop and a start.
PausesOnly == {"init", "start", "pauseUrl"}

Pairs == {PerTarget, SharedLive}

OneCaller == {c1}
TwoCallers == {c1, c2}
ReadLoop == {c2}
NoCaller == {}

Interchangeable == Permutations(Workers) \cup Permutations(Runs)

\* Where exchanging the targets maps the configurations to each other, these are
\* interchangeable too.
InterchangeableTargets == Interchangeable \cup Permutations(MCTargets)
=============================================================================
