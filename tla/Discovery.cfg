\* Two workers and two providers, one administrative call or restart.
SPECIFICATION FromFirstStart
CONSTANTS
  p1 = p1  p2 = p2  w1 = w1  w2 = w2  NoProvider = none
  Provider = {p1, p2}  Worker = {w1, w2}
  OkTtl = 2  RetryInterval = 1  DeferInterval = 1  MaxDefer = 2  MaxCalls = 1
INVARIANTS DiscoveryTypeOK NeverFetchedTwice NeverForgotten
PROPERTIES  NeverStarved
