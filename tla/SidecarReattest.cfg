SPECIFICATION Spec
CONSTANTS
  Session = {s1}
  Conn = {c1}
  MantleId = {m1}
  None = None
  Field = {f1}
  Value = {v1, v2}
  Unset = Unset
  v1 = v1
  v2 = v2
  p1 = p1
  Pattern = {p1}
  NoPattern = NoPattern
  MinOccurrences = 2
  BaselineMode = "assist"
  AutoApply = TRUE
  ReduceRisk = TRUE
  Events <- MCInheritedEvents
  SessionTtl = 2
  HeartbeatGrace = 1
  AutoPosture = TRUE
  CapabilityQuarantine = TRUE
  ContainmentMode = "adaptive"
  MaxRuntimeEvents = 2
  MaxDrift = 1
SYMMETRY Symmetry
INVARIANT
  ElevatedUntilReattest
