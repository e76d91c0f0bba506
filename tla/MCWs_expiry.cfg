SPECIFICATION FairSpec
CONSTANTS
  a = a
  b = b
  n1 = n1
  k1 = k1
  k2 = k2
  AllKeys = {k1, k2}
  StaticKeys = {k1}
  JwkUrl = FALSE
  StrIds = {a}
  OtherIds = {}
  EmptyKey = EmptyKey
  Payloads <- OnlySubscriptions
  Tokens <- AllTokens
  NoToken = NoToken
  AtAuthorization = TRUE
  Anonymous = FALSE
  Leeway = 0
  CanStall = FALSE
  MaxStarts = 2
  MaxTime = 2
  MaxDb = 0
INVARIANT SessionHasTimer
PROPERTY ExpiryCloses
CHECK_DEADLOCK FALSE
