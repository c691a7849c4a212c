SPECIFICATION Spec
CONSTANTS
  User = {u1}
  Id = {i1, i2, i3}
  Requester = {r1, r2}
  Verifier = {v1, v2}
  MaxAttempts = 2
  NoUser = NoUser
  NoId = NoId
SYMMETRY Symmetry
INVARIANTS OneActiveCode SingleUse IInv
PROPERTIES KeepsACode ImplementsOtpLogin
