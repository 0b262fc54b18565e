SPECIFICATION Spec
CONSTANTS
  Slots = {s1, s2}
  NormalBuffers = {b1, b2}
  DynamicBuffers = {}
  Workers = {w1}
  Inflight = 1
  MaxFrames = 2
  Timed = FALSE
  Faulty = {}
  End = End
  Nil = Nil
INVARIANTS
  NoticeHonest
CHECK_DEADLOCK FALSE
