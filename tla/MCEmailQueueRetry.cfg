SPECIFICATION Spec
CONSTANTS
  m1 = m1
  m2 = m2
  None = None
  MaxAttempts = 2
  Mails <- OneMail
INVARIANT RetriedMailIsWhole
