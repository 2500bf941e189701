\* One caller moves between per-target and shared mode, starts, and pauses by URL.
SPECIFICATION Spec
CONSTANTS
  t1 = t1
  t2 = t2
  t3 = t3
  c1 = c1
  c2 = c2
  SHARED = SHARED
  None = None
  Targets <- MCTargetsAndAlias
  Base <- OneBase
  Configs <- Pairs
  Ops <- PausesOnly
  Callers <- OneCaller
  Recovering <- NoCaller
  Workers = {w1, w2, w3}
  Runs = {r1, r2}
  MaxProcs = 1
SYMMETRY InterchangeableTargets
INVARIANTS
  TableMatchesConfig
  NoDuplicatePublish
  DetachedIsStopped
\* The program stops when nobody issues a command, or when it crashed.
CHECK_DEADLOCK FALSE
