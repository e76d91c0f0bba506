SPECIFICATION Spec
CONSTANTS
  a = a
  b = b
  n1 = n1
  k1 = k1
  k2 = k2
  AllKeys = {k1, k2}
  StaticKeys = {k1}
  JwkUrl = FALSE
  StrIds = {a}
  OtherIds = {n1}
  EmptyKey = EmptyKey
  Payloads <- PlainPayloads
  Tokens = {}
  NoToken = NoToken
  AtAuthorization = TRUE
  Anonymous = TRUE
  Leeway = 1
  CanStall = TRUE
  MaxStarts = 3
  MaxTime = 0
  MaxDb = 1
INVARIANT TypeOK
INVARIANT NoOrphanPoller
INVARIANT MutationOnce
PROPERTY StopSilences
PROPERTY EndedByItsOwner
CHECK_DEADLOCK FALSE
