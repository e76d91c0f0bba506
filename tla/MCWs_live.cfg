SPECIFICATION FairSpec
CONSTANTS
  a = a
  b = b
  n1 = n1
  k1 = k1
  k2 = k2
  AllKeys = {k1}
  StaticKeys = {}
  JwkUrl = TRUE
  StrIds = {a}
  OtherIds = {}
  EmptyKey = EmptyKey
  Payloads <- LivePayloads
  Tokens = {}
  NoToken = NoToken
  AtAuthorization = TRUE
  Anonymous = TRUE
  Leeway = 1
  CanStall = FALSE
  MaxStarts = 2
  MaxTime = 0
  MaxDb = 2
PROPERTY LiveQueryConverges
PROPERTY DeadConnectionDrains
PROPERTY ReaderReturns
CHECK_DEADLOCK FALSE
