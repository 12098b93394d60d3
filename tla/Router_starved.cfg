\* Without discovery data every request renews the provider's cooldown.
SPECIFICATION FairSpec
CONSTANTS
  p1 = p1  p2 = p2  p3 = p3  k1 = k1  k2 = k2  k3 = k3  k4 = k4  r1 = r1  r2 = r2
  Provider = {p2}  Key = {k3}
  Owner <- Fleet2  KeyOrder <- Fleet2Order
  Format = {"chat"}  UpstreamModel = {"m"}
  Profile = {"plain"}  Lane <- AllLanes
  Request = {r1}  ProfileOf <- Plain
  Settings <- StarvedSettings
  KeyLadder <- Rungs1  CredentialLadder <- Rungs1  CompatLadder <- Rungs1
  ProbeCircuit = 1  DisableFloor = 1  NoKeyCooldown = 2
  MaxCooldown = 2  MaxProviderCooldown = 1  ProviderFallback = 1
  CooldownS <- Durations  Overrides <- DefaultPolicies  KeyFatal = {401}
  RespectRetryAfter = TRUE  NoRetryAfter = none  RetryAfter = {none}
  Status = {500}  Marker = {"none"}
PROPERTIES ProviderReturns
