\* Fair scheduling: every request ends and a cooled provider comes back.
\* A router without requests left to serve stops.
SPECIFICATION FairSpec
CONSTANTS
  p1 = p1  p2 = p2  p3 = p3  k1 = k1  k2 = k2  k3 = k3  k4 = k4  r1 = r1  r2 = r2
  Provider = {p1, p2}  Key = {k1, k2, k3}
  Owner <- Fleet12  KeyOrder <- Fleet12Order
  Format = {"chat"}  UpstreamModel = {"m"}
  Profile = {"plain"}  Lane <- AllLanes
  Request = {r1, r2}  ProfileOf <- Plain
  Settings <- LivenessSettings
  KeyLadder <- Rungs1  CredentialLadder <- Rungs1  CompatLadder <- Rungs1
  ProbeCircuit = 1  DisableFloor = 1  NoKeyCooldown = 2
  MaxCooldown = 2  MaxProviderCooldown = 1  ProviderFallback = 1
  CooldownS <- Durations  Overrides <- DefaultPolicies  KeyFatal = {401}
  RespectRetryAfter = TRUE  NoRetryAfter = none  RetryAfter = {none}
  Status = {500}  Marker = {"none"}
PROPERTIES EveryRequestEnds ProviderReturns 
CHECK_DEADLOCK FALSE
