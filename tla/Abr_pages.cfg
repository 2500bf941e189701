\* Two pages, HEVC, cookies and typed URLs; one awaited call.
SPECIFICATION Spec
CONSTANTS
  p1 = p1
  p2 = p2
  OldName = OldName
  Custom = Custom
  None = None
  Calls = {c1}
  Pages <- TwoPages
  Home <- SelfHome
  HevcSupported = TRUE
  Bandwidths <- Two
  CookieUrls <- AudioUrl
  CookieChoices <- Choices
  TypedUrls <- OldUrl
  Legacy <- Top
INVARIANTS
  DeadIsAttended
PROPERTIES
  ProbeIsCurrent
CHECK_DEADLOCK FALSE
