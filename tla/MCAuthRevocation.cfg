SPECIFICATION Spec
CONSTANTS
  r1 = r1
  r2 = r2
  u1 = u1
  Nobody = Nobody
  Requests <- TwoRequests
  Users <- OneUser
SYMMETRY RequestSymmetry
INVARIANT RevokedIsNotTrusted
