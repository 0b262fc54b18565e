SPECIFICATION Spec
CONSTANTS
  Encoders = {e1, e2}
  Payloads <- ThreePayloads
  Configurations <- Shipped
  MaxFrames = 4
  Everyone = Everyone
  Nil = Nil
INVARIANTS
  SdkSerialised
CHECK_DEADLOCK FALSE
