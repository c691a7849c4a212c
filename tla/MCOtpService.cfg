SPECIFICATION Spec
CONSTANTS
  phone1 = phone1
  Phone = {phone1}
  Device = {d1, d2}
  Unknown = unknown
  Handler = {h1, h2}
  Config <- MCConfig
  CountryCode = {"US", "IN"}
  Country <- MCCountry
  Limit <- MCLimit
  MaxAttempts = 1
  History = {0, 3}
  Seen = {1, 2}
SYMMETRY Symmetry
INVARIANTS IInv GuessesCapped SendsCapped BlockedLeavesNoUser BarredGetsNothing DevicesAnnounced
