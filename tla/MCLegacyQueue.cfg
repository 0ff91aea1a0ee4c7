SPECIFICATION Spec
CONSTANTS
  c1 = c1
  c2 = c2
  None = None
  MaxSubs = 2
  MaxAttempts = 2
  Calls <- TwoCalls
SYMMETRY CallSymmetry
INVARIANT TypeOK
PROPERTIES
  ImplementsLedger
  FinalEndsDelivery
  DropsHaveACause
