\* Two keys of one provider under every kind of report, operator command and
\* housekeeping; some error types also cool the provider.
SPECIFICATION HealthSpec
CONSTANTS
  p1 = p1  k1 = k1  k2 = k2
  Provider = {p1}  Key = {k1, k2}  Owner <- OneProvider
  Lane = {"chat"}
  KeyLadder <- Rungs2  CredentialLadder <- Rungs1  CompatLadder <- Rungs2
  ProbeCircuit = 1  DisableFloor = 2  NoKeyCooldown = 1
  MaxCooldown = 2  MaxProviderCooldown = 1  ProviderFallback = 1
  CooldownS <- Durations  Overrides <- WiderScopes  KeyFatal = {401}
  RespectRetryAfter = TRUE  NoRetryAfter = none  RetryAfter = {none, 9}
  Status = {401, 422, 429}  Marker = {"none"}
INVARIANTS  DisabledIsEarned BlocksAreBounded
PROPERTIES PenaltiesOnlyGrow 
SYMMETRY SameKeys
