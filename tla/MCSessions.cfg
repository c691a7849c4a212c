SPECIFICATION FairSpec
CONSTANTS
  User = {u1, u2}
  Session = {s1, s2}
  Refresher = {h1, h2}
  Closer = {c1}
  MaxToken = 3
  NoUser = NoUser
  NoSession = NoSession
INVARIANTS SingleExchange IInv
PROPERTIES DeadStaysDead NoFalseTheft ReplayDetected RowsGo
