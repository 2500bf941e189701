\* One page, two awaited calls at a time.
SPECIFICATION Spec
CONSTANTS
  p1 = p1
  p2 = p2
  OldName = OldName
  Custom = Custom
  None = None
  Calls = {c1, c2}
  Pages <- OnePage
  Home <- SelfHome
  HevcSupported = FALSE
  Bandwidths <- Two
  CookieUrls <- NoUrl
  CookieChoices <- NoUrl
  TypedUrls <- NoUrls
  Legacy <- Top
SYMMETRY Symmetric
INVARIANTS
  TypeOK
  LockHasCause
  RollbackHasNoTarget
CHECK_DEADLOCK FALSE
