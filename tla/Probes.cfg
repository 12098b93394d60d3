\* All three settings, under the fairness that answers clicks.
SPECIFICATION FairSpec
CONSTANTS
  p1 = p1  p2 = p2  c1 = c1  c2 = c2  h1 = h1
  Provider = {p1, p2}  KeyCount <- Keys21  InitialOrder <- Order12
  Loop = loop  ByHand = {h1}  Idle = idle  Click = {c1, c2}  None = none  Settings <- Casts
INVARIANTS ProbesTypeOK OneProbeAtATime
PROPERTIES  NothingSweptTwice EveryClickAnswered
