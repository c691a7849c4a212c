SPECIFICATION Spec
CONSTANTS
  Secret = {s1, s2, s3, s4}
  Placeholder = {s4}
INVARIANT NeverMockInProduction
CHECK_DEADLOCK FALSE
