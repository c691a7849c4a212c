SPECIFICATION FairSpec
CONSTANTS
  Caller = {c1, c2, c3}
  Limit = 3
  Failures = TRUE
INVARIANTS BoundedOvershoot LateRefused
PROPERTY LockoutEnds
