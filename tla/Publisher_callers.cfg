\* The UI thread and the websocket read loop command one target, or a shared process.
SPECIFICATION Spec
CONSTANTS
  t1 = t1
  t2 = t2
  t3 = t3
  c1 = c1
  c2 = c2
  SHARED = SHARED
  None = None
  Targets <- MCTargets
  Base <- OwnBase
  Configs <- Mixed
  Ops <- NoReInit
  Callers <- TwoCallers
  Recovering <- ReadLoop
  Workers = {w1}
  Runs = {r1, r2}
  MaxProcs = 1
SYMMETRY InterchangeableTargets
INVARIANTS
  OneRunPerWorker
  CommandsAreHeard
PROPERTIES
  SupervisorSpec
\* The program stops when nobody issues a command, or when it crashed.
CHECK_DEADLOCK FALSE
