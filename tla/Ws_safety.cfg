\* Two connections; goroutines may be arbitrarily late.
SPECIFICATION Spec
CONSTANTS
  MaxConns = 2
  Prompt = FALSE
INVARIANTS
  TypeOK
  SessionIsWatched
  OldConnsAreClosed
\* The client ends when it is closed, or is crashed.
CHECK_DEADLOCK FALSE
