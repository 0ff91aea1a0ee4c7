SPECIFICATION PartsSpec
CONSTANTS
  r1 = r1
  r2 = r2
  id1 = id1
  id2 = id2
  alice = alice
  bob = bob
  Nobody = Nobody
  Nil = Nil
  Refused = Refused
  Malformed = Malformed
  Service = "git"
  Requests <- TwoRequests
  Users <- OneUser
  Callers <- TwoRequests
  Usernames <- TwoUsers
  Tokens <- FourTokens
  Scopes <- TwoScopes
  Ids <- TwoIds
  MaxTime = 3
SYMMETRY RequestSymmetry
INVARIANTS
  TypeOK
  RevokedTokenIsRefused
  SuspendedUserIsRefused
  ServedUserIsLocal
  ForbiddenIsDeserved
  OneAnswer
  SubscriptionsTypeOK
  DeliveryHasTokensReads
  DeliveryIsUnprivileged
  SubscriptionsAreUsable
  ListingMatchesToken
PROPERTY NoQueryPastExpiry
CHECK_DEADLOCK FALSE
