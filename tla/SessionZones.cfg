SPECIFICATION SessionSpec
CONSTANTS
  auth = auth
  files = files
  keyfile = keyfile
  login = login
  Task = {t1, t2}
  Actor = {a1}
  Resource = {keyfile, login}
  ZoneOrder <- MCZoneOrder
  DefaultLevel <- MCDefaultLevel
  ZonesOf <- MCZonesOf
  WeightsOf <- MCWeightsOf
  RARE = 1
  STABILITY_THRESHOLD = 2
  BURST_THRESHOLD = 2
  ObservedAfter = 1
  RestrictedAfter = 2
  SealedAfter = 3
  MaxAnalyzed = 4
  MaxSessions = 2
  MaxByHand = 1
SYMMETRY TaskSymmetry
INVARIANTS SessionTypeOK LevelsFollowAnomalies EscalationsSurvive
CHECK_DEADLOCK FALSE
