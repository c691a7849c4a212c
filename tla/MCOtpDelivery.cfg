SPECIFICATION FairSpec
CONSTANTS
  Delivery = {d1}
  None = None
  Worker = {w1, w2}
  Handler = {h1}
  Channels = 2
  Attempts = 2
  MaxStalls = 1
  MaxMishaps = 2
INVARIANTS IInv SentMeansAccepted OneMessage ExhaustedMarked Announced
PROPERTIES DeliveredStays JobEnds Settles
CHECK_DEADLOCK FALSE
