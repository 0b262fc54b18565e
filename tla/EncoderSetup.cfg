SPECIFICATION SetupSpec
CONSTANTS
  Unset = Unset
  Other = Other
  HaveNeon = TRUE
  VMAX = 16384
  T_LIMIT = 32766
  Ladders <- MCLadders
  Calls <- MCCalls
  Divisors <- MCDivisors
CHECK_DEADLOCK FALSE
INVARIANTS
  CodesFit
  LookupFits
  ScaledOnce
  BuffersMatchPath
  FusedIsLiteral
