SPECIFICATION Spec
CONSTANTS
  Conn = {c1, c2}
  Actor = {a1}
  a1 = a1
  Resource = {env, guide, console}
  env = env
  guide = guide
  console = console
  InferredTags <- MCInferredTags
  NamedZone <- MCNamedZone
  Similar <- MCSimilar
  EventTags <- TokenEvents
  Rules <- MCRules
  Payloads <- MCPayloads
  Postures = {"undefined", "normal", "guarded", "restricted", "sealed"}
SYMMETRY Symmetry
INVARIANTS
  ConfinedIsContained
  QuarantineTightens
  RefusalsLast
