SPECIFICATION Spec
CONSTANTS
  Session = {s1, s2}
  Conn = {c1, c2}
  MantleId = {m1}
  None = None
  Field = {f1}
  Value = {v1, v2}
  Unset = Unset
  v1 = v1
  v2 = v2
  p1 = p1
  Pattern = {p1}
  NoPattern = NoPattern
  MinOccurrences = 2
  BaselineMode = "assist"
  AutoApply = TRUE
  ReduceRisk = TRUE
  Events <- MCEvents
  SessionTtl = 2
  HeartbeatGrace = 1
  AutoPosture = TRUE
  CapabilityQuarantine = TRUE
  ContainmentMode = "adaptive"
  MaxRuntimeEvents = 3
  MaxDrift = 1
SYMMETRY Symmetry
CONSTRAINT Lineage
INVARIANTS
  EveryBlameIsAccounted
  DriftSealsEverySurface
  SealedByEvidence
PROPERTIES
  ChildInheritsEvidence
  PostureHoldsUntilReattested
  NoRealBeyondQuarantine
  LearnsOnlyFromUnrestricted
  ImplementsContract
