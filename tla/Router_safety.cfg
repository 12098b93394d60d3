\* Requests under failover, native_first, rotation and random order.
\* A router without requests left to serve stops.
SPECIFICATION RouterSpec
CONSTANTS
  p1 = p1  p2 = p2  p3 = p3  k1 = k1  k2 = k2  k3 = k3  k4 = k4  r1 = r1  r2 = r2
  Provider = {p1, p2, p3}  Key = {k1, k2, k3, k4}
  Owner <- Fleet123  KeyOrder <- Fleet123Order
  Format = {"chat", "messages"}  UpstreamModel = {"m", "n"}
  Profile = {"plain"}  Lane <- AllLanes
  Request = {r1, r2}  ProfileOf <- Plain
  Settings <- SafetySettings
  KeyLadder <- Rungs1  CredentialLadder <- Rungs1  CompatLadder <- Rungs1
  ProbeCircuit = 1  DisableFloor = 1  NoKeyCooldown = 1
  MaxCooldown = 2  MaxProviderCooldown = 1  ProviderFallback = 1
  CooldownS <- Durations  Overrides <- DefaultPolicies  KeyFatal = {401}
  RespectRetryAfter = TRUE  NoRetryAfter = none  RetryAfter = {none}
  Status = {500}  Marker = {"none"}
INVARIANTS RouterTypeOK EveryProviderConsidered
PROPERTIES KeepsFailoverPromise
SYMMETRY SameRequests
CHECK_DEADLOCK FALSE
