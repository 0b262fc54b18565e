\* Every feature of the pipeline in turn.  A pass ends.
CONSTANTS
  OptionSets <- MCOptionSets
  Nil = Nil
  Rows = 3
  ring_rows = 2
  RETIRE_MAX = 1
  SPLICE_VERIFY_FRAMES = 3
  HYBRID_VERIFY_FRAMES = 3
SPECIFICATION Spec
CHECK_DEADLOCK FALSE
INVARIANTS
  EncodesWholeFrame
  BufferHasOneHolder
  FilesExact
PROPERTIES
  ReferencePrevails
  ImplementsDelivery
  FailureEndsPass
