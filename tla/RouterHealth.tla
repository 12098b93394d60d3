---------------------------- MODULE RouterHealth ----------------------------
(***************************************************************************)
(* The health state of UpstreamRouter (router.py): which upstream keys,    *)
(* providers and compatibility circuits may be used now.  Every operation  *)
(* below runs under the router's one lock and is therefore one step.       *)
(*                                                                         *)
(* The code stores deadlines (now + seconds) and compares them with the    *)
(* clock.  The model stores what is left until the deadline: a deadline    *)
(* in the past is 0, max(deadline, now + d) is the larger remainder, and   *)
(* the clock is one action, Tick, that takes one off every remainder.      *)
(*                                                                         *)
(* HealthSpec lets any report arrive for any key at any time: an attempt   *)
(* holds no lock while it waits for its upstream, so its report may land   *)
(* after any number of other reports, operator commands and expiries.      *)
(***************************************************************************)
EXTENDS FailurePolicy, Fleet

CONSTANTS
  Lane,            \* model, format and profile: the rest of a circuit's identity
  NoKeyCooldown,   \* the 2 s provider cooldown of _cooldown_provider
  Status,          \* HTTP failure statuses the environment may answer with
  Marker,          \* error-body markers the environment may answer with
  RetryAfter       \* Retry-After values, NoRetryAfter among them

ASSUME RouterAssumption ==
  /\ NoKeyCooldown \in Nat \ {0}
  /\ Status \subseteq Nat
  /\ Marker \subseteq Markers
  /\ NoRetryAfter \in RetryAfter
  /\ RetryAfter \subseteq Nat \cup {NoRetryAfter}

VARIABLES
  keyState,        \* _keys_state
  providerState,   \* _providers_state
  circuit          \* _compatibility_state; 0 fails: no entry

healthVars == <<keyState, providerState, circuit>>

Circuit == Key \X Lane

(* The fields of _KeyState.  `fails' is shown on the dashboard and decides *)
(* nothing, so it is not modelled.                                         *)
FreshKey == [cooldown |-> 0, disabled |-> 0, transient |-> 0, credential |-> 0,
             enabled |-> TRUE]
FreshProvider == [cooldown |-> 0, enabled |-> TRUE]
NoCircuit == [fails |-> 0, cooldown |-> 0]

KeyUsable(ks) == ks.enabled /\ ks.cooldown = 0 /\ ks.disabled = 0
ProviderUsable(ps) == ps.enabled /\ ps.cooldown = 0
CircuitOpen(c) == circuit[c].cooldown > 0

(* _key_state.available and _provider_state.available                      *)
KeyAvailable(k) == KeyUsable(keyState[k])
ProviderAvailable(p) == ProviderUsable(providerState[p])

HealthInit ==
  /\ keyState = [k \in Key |-> FreshKey]
  /\ providerState = [p \in Provider |-> FreshProvider]
  /\ circuit = [c \in Circuit |-> NoCircuit]

-----------------------------------------------------------------------------
(* What may be reported about a request's attempt: a classified HTTP       *)
(* failure, a transport failure or an answer without visible text.         *)
HttpReport(s, m, ra) == [error |-> Classify(s, m), status |-> s, retryAfter |-> ra]
PlainReport(e, s) == [error |-> e, status |-> s, retryAfter |-> NoRetryAfter]

RequestReport ==
  {HttpReport(s, m, ra) : s \in Status, m \in Marker, ra \in RetryAfter}
  \cup {PlainReport("network_error", 0), PlainReport("empty_visible_output", 200)}

(* Idle and patrol probes (sse2json.py) classify by status alone and pass  *)
(* no Retry-After on.                                                      *)
ProbeErrorType(status) ==
  IF status \in {401, 403} THEN "key_invalid"
  ELSE IF status = 429 THEN "rate_limited"
  ELSE IF status = 402 THEN "quota_or_balance"
  ELSE IF status >= 500 THEN "server_error"
  ELSE IF status \in 400..499 THEN "client_error"
  ELSE "unknown"

ProbeReport ==
  {PlainReport(ProbeErrorType(s), s) : s \in Status}
  \cup {PlainReport("network_error", 0), PlainReport("unknown", 0),
        PlainReport("probe_first_event_timeout", 0)}

Report == RequestReport \cup ProbeReport

Cleared(ks) == [FreshKey EXCEPT !.enabled = ks.enabled]

(* Mutant: the last tick of an open circuit counts as expired.             *)
PruneEarly(circuits) ==
  [c \in Circuit |-> IF circuits[c].cooldown <= 1 THEN NoCircuit ELSE circuits[c]]

(* _prune_compatibility_locked: entries whose deadline passed are dropped. *)
(* The size limit, at least 100 entries, is beyond any checked instance.   *)
Prune(circuits) ==
  [c \in Circuit |-> IF circuits[c].cooldown = 0 THEN NoCircuit ELSE circuits[c]]

(* report_success                                                          *)
ReportSuccess(k, l) ==
  /\ keyState' = [keyState EXCEPT ![k] = Cleared(@)]
  /\ providerState' = [providerState EXCEPT ![Owner[k]].cooldown = 0]
  /\ circuit' = [circuit EXCEPT ![<<k, l>>] = NoCircuit]

(* report_failure, for the error types that open a compatibility circuit   *)
CircuitAfter(c, e) ==
  LET fails == CountStrike(circuit[c].fails, CompatStrikeBound)
      wait  == IF e = "probe_first_event_timeout" THEN ProbeCircuit
               ELSE CompatLadderSeconds(fails)
  IN  [fails |-> fails, cooldown |-> AtLeast(circuit[c].cooldown, wait)]

ReportIncompatible(k, l, e) ==
  /\ circuit' = Prune([circuit EXCEPT ![<<k, l>>] = CircuitAfter(<<k, l>>, e)])
  /\ UNCHANGED <<keyState, providerState>>

(* report_failure, for the error types that blame the key.  `p' is the     *)
(* policy in force; a ladder replaces its cooldown and its disabling when  *)
(* the policy covers the key.                                              *)
CoversKey(p) == p.scope \in {"key", "key_provider"}

IsCredential(e, p) == e \in {"key_invalid", "quota_or_balance"} /\ CoversKey(p)
IsTransient(e, p) ==
  e \in {"server_error", "network_error", "unknown"} /\ CoversKey(p) /\ ~p.disables

CredentialStrikes(ks, e, p) ==
  IF IsCredential(e, p) THEN CountStrike(ks.credential, CredentialStrikeBound)
  ELSE ks.credential

TransientStrikes(ks, e, p) ==
  IF IsTransient(e, p) THEN CountStrike(ks.transient, KeyStrikeBound)
  ELSE ks.transient

Penalty(ks, e, p) ==
  IF IsCredential(e, p)
  THEN LET rung == CredentialLadderDecision(CredentialStrikes(ks, e, p))
       IN  [rung EXCEPT !.disables = @ /\ e = "key_invalid"]
  ELSE IF IsTransient(e, p)
       THEN KeyLadderDecision(TransientStrikes(ks, e, p), p.cooldown)
       ELSE [cooldown |-> p.cooldown, disables |-> p.disables]

(* Mutant: disabling a key starts its ladder again.                        *)
KeyAfterForgetful(ks, e, p) ==
  LET penalty == Penalty(ks, e, p)
  IN  IF penalty.disables
      THEN [ks EXCEPT !.disabled = AtLeast(@, penalty.cooldown), !.transient = 0]
      ELSE [ks EXCEPT !.cooldown = AtLeast(@, penalty.cooldown),
                      !.transient = TransientStrikes(ks, e, p)]

KeyAfter(ks, e, p) ==
  LET penalty == Penalty(ks, e, p)
  IN  [cooldown   |-> IF penalty.disables THEN ks.cooldown ELSE AtLeast(ks.cooldown, penalty.cooldown),
       disabled   |-> IF penalty.disables THEN AtLeast(ks.disabled, penalty.cooldown) ELSE ks.disabled,
       transient  |-> TransientStrikes(ks, e, p),
       credential |-> CredentialStrikes(ks, e, p),
       enabled    |-> ks.enabled]

CoolsProvider(p, status) == p.providerCooldown > 0 /\ status \notin {400, 401, 403}

ProviderAfter(ps, p, status) ==
  IF CoolsProvider(p, status)
  THEN [ps EXCEPT !.cooldown = AtLeast(@, p.providerCooldown)]
  ELSE ps

ReportKeyFailure(k, rep) ==
  LET p == PolicyFor(rep.error, rep.retryAfter)
  IN  /\ keyState' = [keyState EXCEPT ![k] = KeyAfter(@, rep.error, p)]
      /\ providerState' = [providerState EXCEPT ![Owner[k]] = ProviderAfter(@, p, rep.status)]
      /\ UNCHANGED circuit

ReportFailure(k, l, rep) ==
  \/ rep.error \in CompatErrors /\ ReportIncompatible(k, l, rep.error)
  \/ rep.error \in KeyErrors /\ ReportKeyFailure(k, rep)

-----------------------------------------------------------------------------
(* The other writers of the health state.                                  *)

(* _cooldown_provider, called by a request that found no usable key        *)
CooldownProvider(p) ==
  /\ providerState' = [providerState EXCEPT ![p].cooldown = AtLeast(@, NoKeyCooldown)]
  /\ UNCHANGED <<keyState, circuit>>

(* _compatibility_available: looking at an expired circuit removes it      *)
ForgetExpiredCircuit(c) ==
  /\ circuit[c].cooldown = 0
  /\ circuit' = [circuit EXCEPT ![c] = NoCircuit]
  /\ UNCHANGED <<keyState, providerState>>

(* snapshot and dump_state prune before they read                          *)
PruneCircuits ==
  /\ circuit' = Prune(circuit)
  /\ UNCHANGED <<keyState, providerState>>

SetProviderEnabled(p, on) ==
  /\ providerState' = [providerState EXCEPT ![p] =
       [cooldown |-> IF on THEN 0 ELSE @.cooldown, enabled |-> on]]
  /\ UNCHANGED <<keyState, circuit>>

(* clear_provider_cooldown: the operator's "restore routing"               *)
ClearProviderCooldown(p) ==
  /\ providerState' = [providerState EXCEPT ![p].cooldown = 0]
  /\ keyState' = [k \in Key |-> IF Owner[k] = p THEN Cleared(keyState[k]) ELSE keyState[k]]
  /\ circuit' = [c \in Circuit |-> IF Owner[c[1]] = p THEN NoCircuit ELSE circuit[c]]

Switched(ks, on) ==
  IF on THEN [ks EXCEPT !.enabled = TRUE, !.cooldown = 0, !.disabled = 0]
  ELSE [ks EXCEPT !.enabled = FALSE]

SetKeyEnabled(k, on) ==
  /\ keyState' = [keyState EXCEPT ![k] = Switched(@, on)]
  /\ UNCHANGED <<providerState, circuit>>

(* clear_key_state, for a set of keys of one provider: one key, or all     *)
ClearKeyState(keys) ==
  /\ keyState' = [k \in Key |-> IF k \in keys THEN Cleared(keyState[k]) ELSE keyState[k]]
  /\ circuit' = [c \in Circuit |-> IF c[1] \in keys THEN NoCircuit ELSE circuit[c]]
  /\ UNCHANGED providerState

(* clear_compatibility_circuits: only circuits still open are removed      *)
ClearCompatibilityCircuits(keys) ==
  /\ circuit' = [c \in Circuit |->
       IF c[1] \in keys /\ CircuitOpen(c) THEN NoCircuit ELSE circuit[c]]
  /\ UNCHANGED <<keyState, providerState>>

(* clear_key_state and clear_compatibility_circuits take one key or a      *)
(* whole provider; the circuits may also be cleared for all providers.     *)
KeyTargets == {{k} : k \in Key} \cup {KeysOf(p) : p \in Provider}

(* The clock.                                                              *)
Less(n) == IF n = 0 THEN 0 ELSE n - 1

Aged(ks) == [ks EXCEPT !.cooldown = Less(@), !.disabled = Less(@)]

TimersRunning ==
  \/ \E k \in Key : keyState[k].cooldown > 0 \/ keyState[k].disabled > 0
  \/ \E p \in Provider : providerState[p].cooldown > 0
  \/ \E c \in Circuit : circuit[c].cooldown > 0

Tick ==
  /\ TimersRunning
  /\ keyState' = [k \in Key |-> Aged(keyState[k])]
  /\ providerState' = [p \in Provider |-> [providerState[p] EXCEPT !.cooldown = Less(@)]]
  /\ circuit' = [c \in Circuit |-> [circuit[c] EXCEPT !.cooldown = Less(@)]]

-----------------------------------------------------------------------------
Operator ==
  \/ \E p \in Provider, on \in BOOLEAN : SetProviderEnabled(p, on)
  \/ \E p \in Provider : ClearProviderCooldown(p)
  \/ \E k \in Key, on \in BOOLEAN : SetKeyEnabled(k, on)
  \/ \E keys \in KeyTargets : ClearKeyState(keys)
  \/ \E keys \in KeyTargets \cup {Key} : ClearCompatibilityCircuits(keys)

Housekeeping ==
  \/ \E p \in Provider : CooldownProvider(p)
  \/ \E c \in Circuit : ForgetExpiredCircuit(c)
  \/ PruneCircuits

HealthNext ==
  \/ \E k \in Key, l \in Lane : ReportSuccess(k, l)
  \/ \E k \in Key, l \in Lane, rep \in Report : ReportFailure(k, l, rep)
  \/ Housekeeping
  \/ Operator
  \/ Tick

HealthSpec == HealthInit /\ [][HealthNext]_healthVars

-----------------------------------------------------------------------------
KeyRecord ==
  [cooldown : Nat, disabled : Nat, transient : 0..KeyStrikeBound,
   credential : 0..CredentialStrikeBound, enabled : BOOLEAN]
ProviderRecord == [cooldown : Nat, enabled : BOOLEAN]
CircuitRecord == [fails : 0..CompatStrikeBound, cooldown : Nat]

(* Types of the health state.                                              *)
HealthTypeOK ==
  /\ keyState \in [Key -> KeyRecord]
  /\ providerState \in [Provider -> ProviderRecord]
  /\ circuit \in [Circuit -> CircuitRecord]

(* A policy that disables a key without any ladder: only an operator's     *)
(* override can say so.                                                    *)
DisablesOutright(e, ra) ==
  LET p == PolicyFor(e, ra) IN p.disables /\ ~IsCredential(e, p)

Earned(ks) ==
  ks.disabled > 0 =>
    \/ ks.transient = KeyStrikeBound
    \/ ks.credential = CredentialStrikeBound
    \/ \E e \in KeyErrors, ra \in RetryAfter : DisablesOutright(e, ra)

(* A key is taken out of service only by repeated evidence: whenever one   *)
(* is disabled, the whole key ladder or the whole credential ladder has    *)
(* been climbed without a success in between, whatever order the reports   *)
(* of concurrent attempts arrived in -- unless the operator's policy       *)
(* disables at once (router.py report_failure, the two ladder decisions).  *)
DisabledIsEarned == \A k \in Key : Earned(keyState[k])

(* No report, however long a Retry-After the upstream sends and however    *)
(* reports pile up, takes a key, a provider or a circuit away for longer   *)
(* than the configured maxima (scheduler_policy.py clamps Retry-After      *)
(* because an upstream could otherwise disable a key for years).           *)
BlocksAreBounded ==
  /\ \A k \in Key : keyState[k].cooldown <= MaxCooldown /\ keyState[k].disabled <= MaxCooldown
  /\ \A p \in Provider :
       providerState[p].cooldown <= AtLeast(AtLeast(MaxProviderCooldown, ProviderFallback), NoKeyCooldown)
  /\ \A c \in Circuit : circuit[c].cooldown <= MaxCooldown

PenaltyStep(old, new) ==
  \/ /\ new.cooldown >= old.cooldown /\ new.disabled >= old.disabled
     /\ new.transient >= old.transient /\ new.credential >= old.credential
  \/ new = Aged(old)
  \/ new = Cleared(old)
  \/ new = Switched(old, TRUE)

(* A penalty is never shortened by a report that arrives late: what is     *)
(* left of a key's cooldown or disabling goes down only with the clock,    *)
(* or to nothing together with every strike (a success, an operator's      *)
(* clear), or because the operator re-enabled the key.  And strikes are    *)
(* never forgotten any other way (report_failure keeps the maximum of the  *)
(* old and the new deadline).                                              *)
PenaltiesOnlyGrow == [][\A k \in Key : PenaltyStep(keyState[k], keyState'[k])]_healthVars

OpenCircuitStep(c) ==
  \/ circuit'[c].fails >= circuit[c].fails /\ circuit'[c].cooldown >= circuit[c].cooldown
  \/ circuit'[c] = [circuit[c] EXCEPT !.cooldown = Less(@)]
  \/ circuit'[c] = NoCircuit /\ (ReportSuccess(c[1], c[2]) \/ Operator)

(* An open circuit keeps its pair away for at least as long as promised:   *)
(* another failure never shortens it, pruning never drops it, and it goes  *)
(* early only by a success of exactly that key, model, format and profile  *)
(* or by an operator's command (report_success, report_failure,            *)
(* _prune_compatibility_locked).                                           *)
OpenCircuitsHold == [][\A c \in Circuit : CircuitOpen(c) => OpenCircuitStep(c)]_healthVars
=============================================================================
