SPECIFICATION Spec
CONSTANTS
  Ring = {r1}
  Cap = 2
  Workers = {w1, w2}
  Preallocs = {TRUE, FALSE}
  ReserverFits = TRUE
  READY_TARGET = 1
  MaxFrames = 5
  MayFail = TRUE
  Nil = Nil
INVARIANTS
  OneFramePerBuffer
  NothingDropped
  OverflowWithinCap
PROPERTIES
  FullTakeReturns
CHECK_DEADLOCK FALSE
