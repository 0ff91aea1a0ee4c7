SPECIFICATION Spec
CONSTANTS
  c1 = c1
  c2 = c2
  None = None
  Calls <- TwoCalls
  MaxSubs = 2
  MaxAttempts = 2
SYMMETRY CallSymmetry
INVARIANTS
  TypeOK
  NoSilentLoss
PROPERTIES
  ImplementsLedger
  FinalEndsDelivery
  RetryableAnswerIsRetried
  DropsHaveACause
