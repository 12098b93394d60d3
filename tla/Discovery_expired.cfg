\* One worker and two providers that nobody asks for again.
SPECIFICATION FairSpec
CONSTANTS
  p1 = p1  p2 = p2  w1 = w1  w2 = w2  NoProvider = none
  Provider = {p1, p2}  Worker = {w1}
  OkTtl = 2  RetryInterval = 1  DeferInterval = 1  MaxDefer = 1  MaxCalls = 0
PROPERTIES ExpiredIsRefetched
