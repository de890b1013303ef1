SPECIFICATION Spec
CONSTANTS
  Conn = {c1, c2}
  Actor = {a1, a2}
  a1 = a1
  a2 = a2
  Session = {s1, s2}
  s1 = s1
  s2 = s2
  Client <- MCClients
  MaxRequests = 4
  MaxRaces = 3
SYMMETRY Symmetry
INVARIANTS
  TypeOK
  ServedBelongs
  SettledStoriesStay
  OneStoryUnlessOverlap
  CanariesSurvive
