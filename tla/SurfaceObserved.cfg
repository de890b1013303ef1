SPECIFICATION Spec
CONSTANTS
  Conn = {c1}
  Actor = {a1}
  a1 = a1
  Resource = {env, guide, console}
  env = env
  guide = guide
  console = console
  InferredTags <- MCInferredTags
  NamedZone <- MCNamedZone
  Similar <- MCSimilar
  EventTags <- MCEventTags
  Rules <- NoRules
  Payloads <- MCPayloads
  Postures = {"normal", "guarded", "restricted", "sealed"}
INVARIANT
  ObservationDeepens
