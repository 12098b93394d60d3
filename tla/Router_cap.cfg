\* Round robin: two slots for three keys, max_attempts = 1.
SPECIFICATION RouterSpec
CONSTANTS
  p1 = p1  p2 = p2  p3 = p3  k1 = k1  k2 = k2  k3 = k3  k4 = k4  r1 = r1  r2 = r2
  Provider = {p1, p2}  Key = {k1, k2, k3}
  Owner <- Fleet12  KeyOrder <- Fleet12Order
  Format = {"chat"}  UpstreamModel = {"m"}
  Profile = {"plain"}  Lane <- AllLanes
  Request = {r1}  ProfileOf <- Plain
  Settings <- RoundRobinSettings
  KeyLadder <- Rungs1  CredentialLadder <- Rungs1  CompatLadder <- Rungs1
  ProbeCircuit = 1  DisableFloor = 1  NoKeyCooldown = 1
  MaxCooldown = 2  MaxProviderCooldown = 1  ProviderFallback = 1
  CooldownS <- Durations  Overrides <- DefaultPolicies  KeyFatal = {401}
  RespectRetryAfter = TRUE  NoRetryAfter = none  RetryAfter = {none}
  Status = {500}  Marker = {"none"}
INVARIANTS NothingLeftUntried
CHECK_DEADLOCK FALSE
