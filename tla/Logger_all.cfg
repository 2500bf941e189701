\* Two connections, a lost service, full queues, day changes and panics.
CONSTANTS
  Callers = {c1}
  Conns = {k1, k2}
  MaxQueue = 2
  MaxLocal = 1
  MaxMsgs = 2
  MaxFaults = 2
SPECIFICATION Spec
INVARIANTS
  QueueIsSound
  ConnsAreKept
  MutexIsReleased
\* The program stops when its bounds on messages and faults are used up.
CHECK_DEADLOCK FALSE
