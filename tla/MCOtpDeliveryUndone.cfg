SPECIFICATION Spec
CONSTANTS
  Delivery = {d1}
  None = None
  Worker = {w1}
  Handler = {h1, h2}
  Channels = 2
  Attempts = 2
  MaxStalls = 1
  MaxMishaps = 0
PROPERTY DeliveredStays
CHECK_DEADLOCK FALSE
