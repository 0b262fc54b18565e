SPECIFICATION Spec
CONSTANTS
  Encoders = {1, 2}
  Workers = 2
  Settings <- TwoSettings
  Blocks = {b1, b2, b3}
  Sizes = {n1, n2}
  MaxFrames = 3
  MaxCalls = 3
  Nil = Nil
CHECK_DEADLOCK FALSE
INVARIANTS
  
  Accounted
  RetainedFits
  SumsExact
PROPERTIES
  ImplementsService
