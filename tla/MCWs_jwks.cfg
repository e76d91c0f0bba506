SPECIFICATION FairSpec
CONSTANTS
  a = a
  b = b
  n1 = n1
  k1 = k1
  k2 = k2
  AllKeys = {k1}
  StaticKeys = {}
  JwkUrl = TRUE
  StrIds = {a}
  OtherIds = {}
  EmptyKey = EmptyKey
  Payloads <- OnlySubscriptions
  Tokens <- OneToken
  NoToken = NoToken
  AtAuthorization = TRUE
  Anonymous = FALSE
  Leeway = 1
  CanStall = FALSE
  MaxStarts = 1
  MaxTime = 1
  MaxDb = 0
PROPERTY ExpiryCloses
CHECK_DEADLOCK FALSE
