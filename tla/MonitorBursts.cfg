SPECIFICATION Spec
CONSTANTS
  Caller = {c1, c2}
  Offered <- MCOffered
  SampleAll = FALSE
  maxBufferSize = 3
  windowMs = 1
  blockedEventThreshold = 2
  highRiskEventThreshold = 1
  MaxAlerts = 2
  MaxEvents = 3
  MaxStarts = 2
  MaxTime = 2
SYMMETRY Symmetry
INVARIANTS
  TypeOK
  EventsAreKept
  NothingIsLeftBehind
PROPERTIES
  BurstsAreAlerted
CHECK_DEADLOCK FALSE
