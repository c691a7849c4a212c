SPECIFICATION FairSpec
CONSTANTS
  User = {u1}
  Id = {i1, i2}
  Requester = {r1, r2}
  Verifier = {v1, v2}
  MaxAttempts = 1
  NoUser = NoUser
  NoId = NoId
PROPERTIES RequestsEnd VerifiesEnd
