SPECIFICATION FairSpec
CONSTANTS
  Callers = {p1, p2}
  Keys = {k1}
  Sessions = {s1, s2}
  NoSession = NoSession
  Pending = Pending
  TTL = 2
  MaxTime = 5
INVARIANT TypeOK
PROPERTIES MeetsContract ExpiredIsSwept
