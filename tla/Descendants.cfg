SPECIFICATION Spec
CONSTANTS
  Target = {secret, curl, nodeApp, remote}
  secret = secret
  curl = curl
  nodeApp = nodeApp
  remote = remote
  CapabilityOf <- MCCapabilityOf
  Hazardous = {secret, curl, remote}
  NodeCommand = {nodeApp}
  Process = {root, child1, child2}
  root = root
  child1 = child1
  child2 = child2
  Root = root
  Session = {s1, s2, s3}
  None = None
  ContainmentMode = "adaptive"
  ConfiguredAllowlist = {}
  Learnable = {curl}
  Postures <- MCPostures
SYMMETRY Symmetry
INVARIANTS
  InheritsAtBirth
  KeyStaysInNode
  LineageIsDescent
