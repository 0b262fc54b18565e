\* All three strategies, on the option sets of MCStagePipelines.  A pass ends.
CONSTANTS
  OptionSets <- MCOptionSets
  Nil = Nil
SPECIFICATION Spec
CHECK_DEADLOCK FALSE
INVARIANTS
  SlotsHandedOver
  InOrder
PROPERTIES
  ImplementsDelivery
  FailureEndsEntropy
