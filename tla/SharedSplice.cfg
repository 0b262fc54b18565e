SPECIFICATION Spec
CONSTANTS
  Encoders = {e1, e2}
  Payloads <- ThreePayloads
  Configurations <- DistinctOptions
  MaxFrames = 4
  Everyone = Everyone
  Nil = Nil
SYMMETRY Interchangeable
INVARIANTS
  ReadersSeeWhole
  NoPartialTrust
  SpliceExact
PROPERTIES
  TemplateFrozen
CHECK_DEADLOCK FALSE
