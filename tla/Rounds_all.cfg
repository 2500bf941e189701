\* Starts, ends, cancels, failures and restarts.
SPECIFICATION Spec
CONSTANTS
  Requests = {p1, p2}
  RoundIds = {r1}
  Fields = {f1, f2}
  DefaultField = f1
  NoField = NoField
INVARIANTS
  TypeOK
  EndIsExclusive
  ReportsAreRight
  RoundsStayEndable
