------------------------------- MODULE Fleet -------------------------------
(***************************************************************************)
(* The configured upstreams: providers and the API keys of each.           *)
(***************************************************************************)
CONSTANTS
  Provider,        \* configured provider names
  Key,             \* configured keys: one value per (provider, key index)
  Owner            \* the provider of a key

ASSUME FleetAssumption == Owner \in [Key -> Provider]

KeysOf(p) == {k \in Key : Owner[k] = p}
=============================================================================
