SPECIFICATION FairSpec
CONSTANTS
  Call = {c1, c2}
  Session = {s1, s2, s3}
  Posture = {"normal", "sealed"}
  ContainmentMode = "adaptive"
  None = None
INVARIANTS
  NobodyAwaitsASettledExchange
PROPERTIES
  CallsSettle
  RenewalsRecover
  ContainmentReachesProcess
