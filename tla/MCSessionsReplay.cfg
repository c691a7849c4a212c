SPECIFICATION Spec
CONSTANTS
  User = {u1}
  Session = {s1}
  Refresher = {h1}
  Closer = {c1}
  MaxToken = 3
  NoUser = NoUser
  NoSession = NoSession
PROPERTY ReplayEndsSession
