SPECIFICATION FairSpec
CONSTANTS
  m1 = m1
  m2 = m2
  None = None
  MaxAttempts = 2
  Mails <- TwoMails
INVARIANTS
  WholeAtMostOnce
  UndisturbedMailIsWhole
PROPERTIES
  ImplementsLedger
  EveryMailHasAResult
