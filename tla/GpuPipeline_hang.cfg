SPECIFICATION Spec
CONSTANTS
  Slots = {s1}
  NormalBuffers = {b1}
  DynamicBuffers = {}
  Workers = {w1}
  Inflight = 1
  MaxFrames = 5
  Timed = FALSE
  Faulty = {"writer"}
  End = End
  Nil = Nil
PROPERTIES
  ErrorReachesCaller
CHECK_DEADLOCK FALSE
