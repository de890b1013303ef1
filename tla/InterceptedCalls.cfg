SPECIFICATION Spec
CONSTANTS
  Header = {"accept", "cookie"}
  ArgHeaders = {"accept"}
  MaxActions = 4
CHECK_DEADLOCK FALSE
INVARIANTS
  TypeOK
  RequestArrivesAsWritten
  WordIsKept
  OneResponsePerEnd
PROPERTIES
  DestroyedIsNotSent
  EveryCallIsAnswered
