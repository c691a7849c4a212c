SPECIFICATION Spec
CONSTANTS
  Caller = {c1, c2}
  App = {a, b}
  Key = {k1, k2}
  Admin = admin
  Guess = guess
  None = none
  Phone = {p}
  Route <- MCRoute
SYMMETRY Symmetry
INVARIANTS RevokedNeverAllowed KeysHaveApplications
PROPERTY OwnTenantOnly
