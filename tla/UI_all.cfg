\* Starts, stops, a change of the form, the polls and the close of the window.
SPECIFICATION FairSpec
CONSTANTS
  Sites = {s1}
  Polls = {p1, p2}
  MaxActs = 1
INVARIANTS
  WindowFollowsPublisher
  CrashNeedsRace
PROPERTIES
  ShownCatchesUp
\* The program ends when the window is closed, and when it crashed.
CHECK_DEADLOCK FALSE
