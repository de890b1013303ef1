SPECIFICATION Spec
CONSTANTS
  hosting = hosting
  scanning = scanning
  t1 = t1
  t2 = t2
  t3 = t3
  u = u
  r1 = r1
  r2 = r2
  None = None
  Process = {hosting, scanning}
  Task = {t1, t2, t3, u}
  Home <- MCHome
  Resource = {r1}
  Topology = {r1}
  Workloads <- MCWorkloads
  MaxServers = 2
  MaxFailures = 1
INVARIANTS
  GovernedOnceReady
  AddressAnswers
PROPERTIES
  StopKeepsWhatWasLearned
  NothingReadIsForgotten
