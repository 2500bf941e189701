\* Liveness, one caller and one target, retries.
SPECIFICATION FairSpec
CONSTANTS
  t1 = t1
  t2 = t2
  t3 = t3
  c1 = c1
  c2 = c2
  SHARED = SHARED
  None = None
  Targets <- MCTargets
  Base <- OwnBase
  Configs <- OnlyOne
  Ops <- NoReInit
  Callers <- OneCaller
  Recovering <- NoCaller
  Workers = {w1}
  Runs = {r1, r2}
  MaxProcs = 2
INVARIANTS
  TypeOK
  ProcessIsAwaited
  StatusIsTruthful
  PanicNeedsAbandonedStop
PROPERTIES
  Progress
\* The program stops when nobody issues a command, or when it crashed.
CHECK_DEADLOCK FALSE
