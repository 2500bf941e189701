\* Liveness: a lost connection is replaced, a closed client ends.
SPECIFICATION FairSpec
CONSTANTS
  MaxConns = 2
  Prompt = TRUE
INVARIANTS
  OnlyHandlersOutlive
PROPERTIES
  Progress
\* The client ends when it is closed, or is crashed.
CHECK_DEADLOCK FALSE
