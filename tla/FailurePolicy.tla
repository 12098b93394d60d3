--------------------------- MODULE FailurePolicy ---------------------------
(***************************************************************************)
(* How the proxy turns the outcome of one upstream attempt into a penalty: *)
(* scheduler_policy.py classifies the outcome into an error type, gives    *)
(* each error type a base policy and lets the operator's configuration     *)
(* override it; router.py replaces the cooldown by a ladder that climbs    *)
(* with consecutive failures.                                              *)
(*                                                                         *)
(* The module is pure: it has no state.  All durations are in ticks of the *)
(* clock of module RouterHealth, all scalings are constants.               *)
(***************************************************************************)
EXTENDS Naturals, Sequences

CONSTANTS
  KeyLadder,          \* retry.key_failure_ladder_s
  CredentialLadder,   \* retry.credential_failure_ladder_s
  CompatLadder,       \* retry.compatibility_failure_ladder_s
  ProbeCircuit,       \* PROBE_FIRST_EVENT_CIRCUIT_S: the flat probe circuit
  DisableFloor,       \* the 3600 s floor of a key disabled by the key ladder
  MaxCooldown,        \* MAX_CONFIGURED_COOLDOWN_S
  MaxProviderCooldown,\* MAX_PROVIDER_COOLDOWN_S
  ProviderFallback,   \* the 30 s cap of a provider cooldown derived from a key's
  CooldownS,          \* retry.cooldown_s; "unknown" borrows "server_error"
  Overrides,          \* retry.failure_policies: error type -> partial policy
  KeyFatal,           \* retry.key_fatal_status
  RespectRetryAfter,  \* retry.respect_retry_after
  NoRetryAfter        \* the value of a missing Retry-After header

KeyErrors == {"key_invalid", "rate_limited", "quota_or_balance",
              "server_error", "network_error", "unknown"}

(* Error types that accuse one model/format/profile of one key, not the    *)
(* key: they open a compatibility circuit and touch nothing else.          *)
CompatErrors == {"client_error", "provider_compat", "empty_visible_output",
                 "probe_first_event_timeout"}

ErrorType == KeyErrors \cup CompatErrors

CooldownScope == {"none", "key", "provider", "key_provider", "compatibility"}

Policy == [scope : CooldownScope, cooldown : Nat, providerCooldown : Nat,
           disables : BOOLEAN]

(* The code clamps every rung to MAX_CONFIGURED_COOLDOWN_S as it reads a   *)
(* ladder, and replaces an empty one by its default.                       *)
IsLadder(ladder) == ladder \in Seq(0..MaxCooldown) /\ ladder # << >>

IsOverride(ov) ==
  /\ "cooldown_scope" \in DOMAIN ov => ov.cooldown_scope \in CooldownScope
  /\ "cooldown_s" \in DOMAIN ov => ov.cooldown_s \in Nat
  /\ "provider_cooldown_s" \in DOMAIN ov => ov.provider_cooldown_s \in Nat
  /\ "disables_key" \in DOMAIN ov => ov.disables_key \in BOOLEAN

ASSUME LadderAssumption ==
  IsLadder(KeyLadder) /\ IsLadder(CredentialLadder) /\ IsLadder(CompatLadder)

ASSUME PolicyAssumption ==
  /\ {MaxCooldown, MaxProviderCooldown} \subseteq Nat
  /\ {ProbeCircuit, DisableFloor} \subseteq 0..MaxCooldown
  /\ ProviderFallback \in Nat \ {0}
  /\ CooldownS \in [KeyErrors \ {"unknown"} -> Nat]
  /\ DOMAIN Overrides \subseteq ErrorType
  /\ \A e \in DOMAIN Overrides : IsOverride(Overrides[e])
  /\ RespectRetryAfter \in BOOLEAN
  /\ NoRetryAfter \notin Nat

AtLeast(a, b) == IF a >= b THEN a ELSE b
AtMost(a, b) == IF a <= b THEN a ELSE b
Clamp(v, lo, hi) == AtLeast(lo, AtMost(v, hi))

-----------------------------------------------------------------------------
(* Classification of an HTTP failure. `marker' is what the error body says *)
(* ("quota", "tool_choice", "thinking", "not_found" or "none"): the text   *)
(* matching itself is abstracted.                                          *)
Markers == {"none", "quota", "tool_choice", "thinking", "not_found"}

Classify(status, marker) ==
  IF marker = "quota" THEN "quota_or_balance"
  ELSE IF status \in KeyFatal THEN "key_invalid"
  ELSE IF status = 429 THEN "rate_limited"
  ELSE IF status = 402 THEN "quota_or_balance"
  ELSE IF status \in {400, 404} THEN
         IF marker \in {"tool_choice", "thinking"} THEN "provider_compat"
         ELSE IF marker = "not_found" THEN "client_error"
         ELSE "server_error"
  ELSE IF status = 422 THEN "client_error"
  ELSE IF status \in 500..599 THEN "server_error"
  ELSE "unknown"   \* whether or not retry.retryable_status lists it

(* stop_attempts of the decision: no branch of the classification sets it. *)
StopAttempts(status, marker) == FALSE

-----------------------------------------------------------------------------
(* The base policy of an error type, before the operator's override.       *)
UsesRetryAfter(e, retryAfter) ==
  e = "rate_limited" /\ RespectRetryAfter /\ retryAfter # NoRetryAfter

ConfiguredCooldown(e) == CooldownS[IF e = "unknown" THEN "server_error" ELSE e]

BasePolicy(e, retryAfter) ==
  IF e \in KeyErrors
  THEN [scope |-> "key",
        cooldown |-> IF UsesRetryAfter(e, retryAfter)
                     THEN Clamp(retryAfter, 0, MaxCooldown)
                     ELSE Clamp(ConfiguredCooldown(e), 0, MaxCooldown),
        providerCooldown |-> 0,
        disables |-> e = "key_invalid"]
  ELSE [scope |-> IF e = "probe_first_event_timeout" THEN "compatibility" ELSE "none",
        cooldown |-> IF e = "probe_first_event_timeout" THEN ProbeCircuit ELSE 0,
        providerCooldown |-> 0,
        disables |-> FALSE]

Field(ov, name, default) == IF name \in DOMAIN ov THEN ov[name] ELSE default

(* Mutant: the derived provider cooldown has no upper limit.               *)
ScopedUnlimited(p, baseCooldown) ==
  IF p.scope = "provider" /\ p.providerCooldown = 0
  THEN [p EXCEPT !.cooldown = 0, !.disables = FALSE, !.providerCooldown = AtLeast(1, baseCooldown)]
  ELSE p

(* The scope wins over the durations: what the scope does not cover is     *)
(* zeroed, what it needs and the operator left out is derived.             *)
Scoped(p, baseCooldown) ==
  CASE p.scope = "none" ->
         [p EXCEPT !.cooldown = 0, !.providerCooldown = 0, !.disables = FALSE]
    [] p.scope = "provider" ->
         [p EXCEPT !.cooldown = 0, !.disables = FALSE,
                   !.providerCooldown = IF @ = 0 THEN Clamp(baseCooldown, 1, ProviderFallback) ELSE @]
    [] p.scope = "key" -> [p EXCEPT !.providerCooldown = 0]
    [] p.scope = "key_provider" ->
         [p EXCEPT !.providerCooldown = IF @ = 0 THEN Clamp(p.cooldown, 1, ProviderFallback) ELSE @]
    [] OTHER -> p

ApplyOverride(base, ov, keepCooldown) ==
  Scoped([scope |-> Field(ov, "cooldown_scope", base.scope),
          cooldown |-> IF keepCooldown THEN base.cooldown
                       ELSE Clamp(Field(ov, "cooldown_s", base.cooldown), 0, MaxCooldown),
          providerCooldown |-> Clamp(Field(ov, "provider_cooldown_s", base.providerCooldown),
                                     0, MaxProviderCooldown),
          disables |-> Field(ov, "disables_key", base.disables)],
         base.cooldown)

PolicyFor(e, retryAfter) ==
  LET base == BasePolicy(e, retryAfter)
  IN  IF e \in DOMAIN Overrides
      THEN ApplyOverride(base, Overrides[e], UsesRetryAfter(e, retryAfter))
      ELSE base

-----------------------------------------------------------------------------
(* Mutant: off by one, the last rung already disables.                     *)
KeyLadderDecisionEarly(n, fallback) ==
  IF n < Len(KeyLadder)
  THEN [cooldown |-> KeyLadder[n], disables |-> FALSE]
  ELSE [cooldown |-> AtLeast(fallback, DisableFloor), disables |-> TRUE]

(* The ladders of router.py. `n' counts consecutive failures, this one     *)
(* included; past its end the key ladder and the credential ladder disable *)
(* the key, the compatibility ladder stays on its last rung.               *)
KeyLadderDecision(n, fallback) ==
  IF n <= Len(KeyLadder)
  THEN [cooldown |-> KeyLadder[n], disables |-> FALSE]
  ELSE LET last == KeyLadder[Len(KeyLadder)]
           long == IF fallback # 0 THEN fallback ELSE IF last # 0 THEN last ELSE DisableFloor
       IN  [cooldown |-> AtLeast(long, DisableFloor), disables |-> TRUE]

CredentialLadderDecision(n) ==
  IF n <= Len(CredentialLadder)
  THEN [cooldown |-> CredentialLadder[n], disables |-> FALSE]
  ELSE [cooldown |-> CredentialLadder[Len(CredentialLadder)], disables |-> TRUE]

CompatLadderSeconds(n) == CompatLadder[AtMost(AtLeast(1, n), Len(CompatLadder))]

(* Strike counters are unbounded in the code; one past the ladder is where *)
(* the decision stops depending on them, so the model counts no further.   *)
KeyStrikeBound == Len(KeyLadder) + 1
CredentialStrikeBound == Len(CredentialLadder) + 1
CompatStrikeBound == Len(CompatLadder)
CountStrikeUncapped(n, bound) == n + 1   \* mutant: the bound is forgotten
CountStrike(n, bound) == AtMost(n + 1, bound)

=============================================================================
