SPECIFICATION FairSpec
CONSTANTS
  h1 = h1
  s = s
  t = t
  Handles = {h1, h2}
  Scopes = {s, t}
  Clashes <- MCClashes
  TTL = 2
  MaxQueue <- MCQueue
  Called <- MCCalled
  None = None
INVARIANTS TypeOK NoOverlap ScopeAgrees
PROPERTIES ExpiredForGood EndingAnswered
CHECK_DEADLOCK FALSE
