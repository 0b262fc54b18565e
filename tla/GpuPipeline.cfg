SPECIFICATION Spec
CONSTANTS
  Slots = {s1, s2}
  NormalBuffers = {b1}
  DynamicBuffers = {b2}
  Workers = {w1, w2}
  Inflight = 1
  MaxFrames = 2
  Timed = TRUE
  Faulty = {w1, "writer"}
  End = End
  Nil = Nil
INVARIANTS
  TypeOK
  SingleOwner
  CompletedWithinCaptured
  SafeToClose
CHECK_DEADLOCK FALSE
PROPERTIES
  CancelStopsEncoding
  ImplementsDelivery
