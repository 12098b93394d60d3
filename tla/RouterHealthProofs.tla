------------------------- MODULE RouterHealthProofs -------------------------
(***************************************************************************)
(* RouterHealth's invariants, for any fleet, any ladders and any operator  *)
(* policies.  The inductive invariant, HealthInv, is the type invariant    *)
(* with every duration bounded; DisabledIsEarned and PenaltiesOnlyGrow     *)
(* follow from it step by step.                                            *)
(***************************************************************************)
EXTENDS RouterHealth, TLAPS

ProviderCap == AtLeast(AtLeast(MaxProviderCooldown, ProviderFallback), NoKeyCooldown)

BoundedPolicy ==
  [scope : CooldownScope, cooldown : 0..MaxCooldown, providerCooldown : 0..ProviderCap,
   disables : BOOLEAN]
Rung == [cooldown : 0..MaxCooldown, disables : BOOLEAN]

BoundedKey ==
  [cooldown : 0..MaxCooldown, disabled : 0..MaxCooldown, transient : 0..KeyStrikeBound,
   credential : 0..CredentialStrikeBound, enabled : BOOLEAN]
BoundedProvider == [cooldown : 0..ProviderCap, enabled : BOOLEAN]
BoundedCircuit == [fails : 0..CompatStrikeBound, cooldown : 0..MaxCooldown]

(* The inductive invariant.                                                *)
HealthInv ==
  /\ keyState \in [Key -> BoundedKey]
  /\ providerState \in [Provider -> BoundedProvider]
  /\ circuit \in [Circuit -> BoundedCircuit]

-----------------------------------------------------------------------------
(* Durations derived for a scope stay within the provider's maximum.       *)
LEMMA ScopedIsBounded ==
  ASSUME NEW p \in BoundedPolicy, NEW c \in Nat,
         ProviderCap \in Nat, ProviderFallback \in 1..ProviderCap
  PROVE  Scoped(p, c) \in BoundedPolicy
<1>1. \A v \in Nat : Clamp(v, 1, ProviderFallback) \in 0..ProviderCap
  BY DEF Clamp, AtLeast, AtMost
<1>2. p.cooldown \in Nat /\ p.providerCooldown \in 0..ProviderCap /\ p.scope \in CooldownScope
      /\ 0 \in 0..MaxCooldown /\ 0 \in 0..ProviderCap
  BY PolicyAssumption DEF BoundedPolicy
<1>3. CASE p.scope = "none"
  BY <1>2, <1>3 DEF Scoped, BoundedPolicy
<1>4. CASE p.scope = "provider"
  BY <1>1, <1>2, <1>4 DEF Scoped, BoundedPolicy
<1>5. CASE p.scope = "key"
  BY <1>2, <1>5 DEF Scoped, BoundedPolicy
<1>6. CASE p.scope = "key_provider"
  BY <1>1, <1>2, <1>6 DEF Scoped, BoundedPolicy
<1>7. CASE p.scope = "compatibility"
  BY <1>7 DEF Scoped
<1> QED BY <1>2, <1>3, <1>4, <1>5, <1>6, <1>7 DEF CooldownScope

(* The policy in force for any error is within the configured maxima,      *)
(* whatever the upstream's Retry-After and the operator's override say.    *)
LEMMA PolicyIsBounded ==
  ASSUME NEW e \in KeyErrors, NEW ra \in RetryAfter
  PROVE  PolicyFor(e, ra) \in BoundedPolicy
<1> DEFINE base == BasePolicy(e, ra)
<1> USE PolicyAssumption, RouterAssumption
<1>1. ProviderCap \in Nat /\ ProviderFallback \in 1..ProviderCap
         /\ MaxProviderCooldown \in 0..ProviderCap
  BY DEF ProviderCap, AtLeast
<1>2. ConfiguredCooldown(e) \in Nat
  BY DEF ConfiguredCooldown, KeyErrors
<1>3. base \in BoundedPolicy
  <2>1. \A v \in Nat : Clamp(v, 0, MaxCooldown) \in 0..MaxCooldown
    BY DEF Clamp, AtLeast, AtMost
  <2>2. UsesRetryAfter(e, ra) => ra \in Nat
    BY DEF UsesRetryAfter
  <2> QED BY <1>1, <1>2, <2>1, <2>2 DEF BasePolicy, BoundedPolicy, CooldownScope
<1>4. CASE e \notin DOMAIN Overrides
  BY <1>3, <1>4 DEF PolicyFor
<1>5. CASE e \in DOMAIN Overrides
  <2> DEFINE ov == Overrides[e]
             keep == UsesRetryAfter(e, ra)
             merged == [scope |-> Field(ov, "cooldown_scope", base.scope),
                        cooldown |-> IF keep THEN base.cooldown
                                     ELSE Clamp(Field(ov, "cooldown_s", base.cooldown), 0, MaxCooldown),
                        providerCooldown |-> Clamp(Field(ov, "provider_cooldown_s", base.providerCooldown),
                                                   0, MaxProviderCooldown),
                        disables |-> Field(ov, "disables_key", base.disables)]
  <2>1. IsOverride(ov)
    BY <1>5
  <2>2. /\ Field(ov, "cooldown_scope", base.scope) \in CooldownScope
        /\ Field(ov, "cooldown_s", base.cooldown) \in Nat
        /\ Field(ov, "provider_cooldown_s", base.providerCooldown) \in Nat
        /\ Field(ov, "disables_key", base.disables) \in BOOLEAN
    BY <1>1, <1>3, <2>1 DEF Field, IsOverride, BoundedPolicy
  <2>3. merged \in BoundedPolicy
    BY <1>1, <1>3, <2>2 DEF BoundedPolicy, Clamp, AtLeast, AtMost
  <2>4. base.cooldown \in Nat
    BY <1>3 DEF BoundedPolicy
  <2>5. Scoped(merged, base.cooldown) \in BoundedPolicy
    BY <1>1, <2>3, <2>4, ScopedIsBounded
  <2> QED BY <1>5, <2>5 DEF PolicyFor, ApplyOverride
<1> QED BY <1>4, <1>5

(* A ladder's rung is a bounded cooldown, and only past the last rung does *)
(* a ladder disable.                                                       *)
LEMMA KeyRung ==
  ASSUME NEW n \in Nat \ {0}, NEW fallback \in 0..MaxCooldown
  PROVE  /\ KeyLadderDecision(n, fallback) \in Rung
         /\ KeyLadderDecision(n, fallback).disables <=> n > Len(KeyLadder)
BY LadderAssumption, PolicyAssumption
   DEF KeyLadderDecision, Rung, IsLadder, AtLeast

LEMMA CredentialRung ==
  ASSUME NEW n \in Nat \ {0}
  PROVE  /\ CredentialLadderDecision(n) \in Rung
         /\ CredentialLadderDecision(n).disables <=> n > Len(CredentialLadder)
BY LadderAssumption, PolicyAssumption
   DEF CredentialLadderDecision, Rung, IsLadder

LEMMA CompatRung ==
  ASSUME NEW n \in Nat
  PROVE  CompatLadderSeconds(n) \in 0..MaxCooldown
BY LadderAssumption, PolicyAssumption
   DEF CompatLadderSeconds, IsLadder, AtLeast, AtMost

LEMMA BoundsAreNaturals ==
  /\ {KeyStrikeBound, CredentialStrikeBound, CompatStrikeBound} \subseteq Nat \ {0}
  /\ {MaxCooldown, ProviderCap} \subseteq Nat
BY LadderAssumption, PolicyAssumption, RouterAssumption
   DEF KeyStrikeBound, CredentialStrikeBound, CompatStrikeBound, IsLadder, ProviderCap, AtLeast

-----------------------------------------------------------------------------
(* What a report does to one key.                                          *)
LEMMA PenaltyIsRung ==
  ASSUME NEW ks \in BoundedKey, NEW e \in KeyErrors, NEW p \in BoundedPolicy
  PROVE  Penalty(ks, e, p) \in Rung
<1>1. CredentialStrikes(ks, e, p) \in 0..CredentialStrikeBound
      /\ (IsCredential(e, p) => CredentialStrikes(ks, e, p) # 0)
  BY BoundsAreNaturals DEF CredentialStrikes, CountStrike, AtMost, BoundedKey
<1>2. TransientStrikes(ks, e, p) \in 0..KeyStrikeBound
      /\ (IsTransient(e, p) => TransientStrikes(ks, e, p) # 0)
  BY BoundsAreNaturals DEF TransientStrikes, CountStrike, AtMost, BoundedKey
<1>3. CASE IsCredential(e, p)
  <2>1. CredentialLadderDecision(CredentialStrikes(ks, e, p)) \in Rung
    BY <1>1, <1>3, CredentialRung, BoundsAreNaturals
  <2> QED BY <1>3, <2>1 DEF Penalty, Rung
<1>4. CASE ~IsCredential(e, p) /\ IsTransient(e, p)
  <2>1. p.cooldown \in 0..MaxCooldown
    BY DEF BoundedPolicy
  <2>2. KeyLadderDecision(TransientStrikes(ks, e, p), p.cooldown) \in Rung
    BY <1>2, <1>4, <2>1, KeyRung, BoundsAreNaturals
  <2> QED BY <1>4, <2>2 DEF Penalty
<1>5. CASE ~IsCredential(e, p) /\ ~IsTransient(e, p)
  BY <1>5 DEF Penalty, Rung, BoundedPolicy
<1> QED BY <1>3, <1>4, <1>5

LEMMA KeyAfterIsBounded ==
  ASSUME NEW ks \in BoundedKey, NEW e \in KeyErrors, NEW p \in BoundedPolicy
  PROVE  KeyAfter(ks, e, p) \in BoundedKey
<1>1. Penalty(ks, e, p) \in Rung
  BY PenaltyIsRung
<1>2. TransientStrikes(ks, e, p) \in 0..KeyStrikeBound
  BY BoundsAreNaturals DEF TransientStrikes, CountStrike, AtMost, BoundedKey
<1>3. CredentialStrikes(ks, e, p) \in 0..CredentialStrikeBound
  BY BoundsAreNaturals DEF CredentialStrikes, CountStrike, AtMost, BoundedKey
<1> QED BY <1>1, <1>2, <1>3 DEF KeyAfter, BoundedKey, Rung, AtLeast

LEMMA ProviderAfterIsBounded ==
  ASSUME NEW ps \in BoundedProvider, NEW p \in BoundedPolicy, NEW status
  PROVE  ProviderAfter(ps, p, status) \in BoundedProvider
BY BoundsAreNaturals DEF ProviderAfter, BoundedProvider, BoundedPolicy, AtLeast

LEMMA CircuitAfterIsBounded ==
  ASSUME HealthInv, NEW c \in Circuit, NEW e \in CompatErrors
  PROVE  CircuitAfter(c, e) \in BoundedCircuit
<1>1. circuit[c] \in BoundedCircuit
  BY DEF HealthInv
<1>2. CountStrike(circuit[c].fails, CompatStrikeBound) \in 0..CompatStrikeBound
  BY <1>1, BoundsAreNaturals DEF BoundedCircuit, CountStrike, AtMost
<1>3. CompatLadderSeconds(CountStrike(circuit[c].fails, CompatStrikeBound)) \in 0..MaxCooldown
  BY <1>2, CompatRung, BoundsAreNaturals
<1>4. ProbeCircuit \in 0..MaxCooldown /\ circuit[c].cooldown \in 0..MaxCooldown
  BY <1>1, PolicyAssumption DEF BoundedCircuit
<1> QED BY <1>2, <1>3, <1>4 DEF CircuitAfter, BoundedCircuit, AtLeast

LEMMA FreshIsBounded ==
  /\ FreshKey \in BoundedKey
  /\ FreshProvider \in BoundedProvider
  /\ NoCircuit \in BoundedCircuit
  /\ \A ks \in BoundedKey : Cleared(ks) \in BoundedKey
BY BoundsAreNaturals
   DEF FreshKey, FreshProvider, NoCircuit, Cleared, BoundedKey, BoundedProvider, BoundedCircuit

(* A report names a key error with a Retry-After the environment may send. *)
LEMMA ReportFields ==
  ASSUME NEW rep \in Report
  PROVE  rep.retryAfter \in RetryAfter
BY RouterAssumption DEF Report, RequestReport, ProbeReport, HttpReport, PlainReport

-----------------------------------------------------------------------------
LEMMA HealthInvInitially == HealthInit => HealthInv
BY FreshIsBounded DEF HealthInit, HealthInv

(* One updated key, provider or circuit at a time.                         *)
LEMMA KeyWrite ==
  ASSUME HealthInv, NEW k \in Key, NEW ks \in BoundedKey,
         keyState' = [keyState EXCEPT ![k] = ks]
  PROVE  keyState' \in [Key -> BoundedKey]
BY DEF HealthInv

LEMMA ProviderWrite ==
  ASSUME HealthInv, NEW p \in Provider, NEW ps \in BoundedProvider,
         providerState' = [providerState EXCEPT ![p] = ps]
  PROVE  providerState' \in [Provider -> BoundedProvider]
BY DEF HealthInv

(* Pruning forgets, so it keeps circuits bounded.                          *)
LEMMA PruneIsBounded ==
  ASSUME NEW circuits \in [Circuit -> BoundedCircuit]
  PROVE  Prune(circuits) \in [Circuit -> BoundedCircuit]
BY FreshIsBounded DEF Prune

LEMMA SuccessKeepsHealthInv ==
  ASSUME HealthInv, NEW k \in Key, NEW l \in Lane, ReportSuccess(k, l)
  PROVE  HealthInv'
<1>1. Cleared(keyState[k]) \in BoundedKey /\ Owner[k] \in Provider
  BY FreshIsBounded, FleetAssumption DEF HealthInv
<1>2. keyState' \in [Key -> BoundedKey]
  BY <1>1, KeyWrite DEF ReportSuccess
<1>3. providerState' \in [Provider -> BoundedProvider]
  BY <1>1, BoundsAreNaturals DEF ReportSuccess, HealthInv, BoundedProvider
<1>4. circuit' \in [Circuit -> BoundedCircuit]
  BY FreshIsBounded DEF ReportSuccess, HealthInv
<1> QED BY <1>2, <1>3, <1>4 DEF HealthInv

LEMMA IncompatibilityKeepsHealthInv ==
  ASSUME HealthInv, NEW k \in Key, NEW l \in Lane, NEW e \in CompatErrors,
         ReportIncompatible(k, l, e)
  PROVE  HealthInv'
<1>1. <<k, l>> \in Circuit
  BY DEF Circuit
<1>2. CircuitAfter(<<k, l>>, e) \in BoundedCircuit
  BY <1>1, CircuitAfterIsBounded
<1>3. [circuit EXCEPT ![<<k, l>>] = CircuitAfter(<<k, l>>, e)] \in [Circuit -> BoundedCircuit]
  BY <1>1, <1>2 DEF HealthInv
<1>4. circuit' \in [Circuit -> BoundedCircuit]
  BY <1>3, PruneIsBounded DEF ReportIncompatible
<1> QED BY <1>4 DEF ReportIncompatible, HealthInv

LEMMA KeyFailureKeepsHealthInv ==
  ASSUME HealthInv, NEW k \in Key, NEW rep \in Report, rep.error \in KeyErrors,
         ReportKeyFailure(k, rep)
  PROVE  HealthInv'
<1> DEFINE p == PolicyFor(rep.error, rep.retryAfter)
           ks == KeyAfter(keyState[k], rep.error, p)
           ps == ProviderAfter(providerState[Owner[k]], p, rep.status)
<1>1. p \in BoundedPolicy
  BY PolicyIsBounded, ReportFields
<1>2. keyState[k] \in BoundedKey /\ Owner[k] \in Provider
      /\ providerState[Owner[k]] \in BoundedProvider
  BY FleetAssumption DEF HealthInv
<1>3. ks \in BoundedKey
  BY <1>1, <1>2, KeyAfterIsBounded
<1>4. ps \in BoundedProvider
  BY <1>1, <1>2, ProviderAfterIsBounded
<1>5. /\ keyState' = [keyState EXCEPT ![k] = ks]
      /\ providerState' = [providerState EXCEPT ![Owner[k]] = ps]
      /\ circuit' = circuit
  BY DEF ReportKeyFailure
<1> HIDE DEF p, ks, ps
<1>6. keyState' \in [Key -> BoundedKey]
  BY <1>3, <1>5, KeyWrite
<1>7. providerState' \in [Provider -> BoundedProvider]
  BY <1>2, <1>4, <1>5, ProviderWrite
<1> QED BY <1>5, <1>6, <1>7 DEF HealthInv

LEMMA HousekeepingKeepsHealthInv ==
  ASSUME HealthInv, Housekeeping
  PROVE  HealthInv'
<1>1. CASE \E p \in Provider : CooldownProvider(p)
  <2>1. PICK p \in Provider : CooldownProvider(p)
    BY <1>1
  <2>2. NoKeyCooldown \in 0..ProviderCap
    BY PolicyAssumption, RouterAssumption DEF ProviderCap, AtLeast
  <2> QED BY <2>1, <2>2, BoundsAreNaturals DEF CooldownProvider, HealthInv, BoundedProvider, AtLeast
<1>2. CASE \E c \in Circuit : ForgetExpiredCircuit(c)
  BY <1>2, FreshIsBounded DEF ForgetExpiredCircuit, HealthInv
<1>3. CASE PruneCircuits
  BY <1>3, PruneIsBounded DEF PruneCircuits, HealthInv
<1> QED BY <1>1, <1>2, <1>3 DEF Housekeeping

LEMMA OperatorKeepsHealthInv ==
  ASSUME HealthInv, Operator
  PROVE  HealthInv'
<1>1. ASSUME NEW p \in Provider, NEW on \in BOOLEAN, SetProviderEnabled(p, on) PROVE HealthInv'
  BY <1>1, BoundsAreNaturals DEF SetProviderEnabled, HealthInv, BoundedProvider
<1>2. ASSUME NEW p \in Provider, ClearProviderCooldown(p) PROVE HealthInv'
  BY <1>2, FreshIsBounded, BoundsAreNaturals DEF ClearProviderCooldown, HealthInv, BoundedProvider
<1>3. ASSUME NEW k \in Key, NEW on \in BOOLEAN, SetKeyEnabled(k, on) PROVE HealthInv'
  <2>1. keyState[k] \in BoundedKey
    BY DEF HealthInv
  <2>2. Switched(keyState[k], on) \in BoundedKey
    <3>1. 0 \in 0..MaxCooldown
      BY BoundsAreNaturals
    <3>2. CASE on
      BY <2>1, <3>1, <3>2 DEF Switched, BoundedKey
    <3>3. CASE ~on
      BY <2>1, <3>3 DEF Switched, BoundedKey
    <3> QED BY <3>2, <3>3
  <2>3. keyState' \in [Key -> BoundedKey]
    BY <1>3, <2>2, KeyWrite DEF SetKeyEnabled
  <2> QED BY <1>3, <2>3 DEF SetKeyEnabled, HealthInv
<1>4. ASSUME NEW keys \in KeyTargets, ClearKeyState(keys) PROVE HealthInv'
  BY <1>4, FreshIsBounded DEF ClearKeyState, HealthInv
<1>5. ASSUME NEW keys \in KeyTargets \cup {Key}, ClearCompatibilityCircuits(keys) PROVE HealthInv'
  BY <1>5, FreshIsBounded DEF ClearCompatibilityCircuits, HealthInv
<1> QED BY <1>1, <1>2, <1>3, <1>4, <1>5 DEF Operator

LEMMA TickKeepsHealthInv ==
  ASSUME HealthInv, Tick
  PROVE  HealthInv'
<1>1. \A n \in Nat : \A m \in 0..n : Less(m) \in 0..n
  BY DEF Less
<1>2. keyState' \in [Key -> BoundedKey]
  BY <1>1, BoundsAreNaturals DEF Tick, Aged, HealthInv, BoundedKey
<1>3. providerState' \in [Provider -> BoundedProvider]
  BY <1>1, BoundsAreNaturals DEF Tick, HealthInv, BoundedProvider
<1>4. circuit' \in [Circuit -> BoundedCircuit]
  BY <1>1, BoundsAreNaturals DEF Tick, HealthInv, BoundedCircuit
<1> QED BY <1>2, <1>3, <1>4 DEF HealthInv

(* The invariant is inductive.                                             *)
LEMMA HealthInvKept == HealthInv /\ [HealthNext]_healthVars => HealthInv'
<1> SUFFICES ASSUME HealthInv, [HealthNext]_healthVars
             PROVE  HealthInv'
  OBVIOUS
<1>1. ASSUME NEW k \in Key, NEW l \in Lane, ReportSuccess(k, l) PROVE HealthInv'
  BY <1>1, SuccessKeepsHealthInv
<1>2. ASSUME NEW k \in Key, NEW l \in Lane, NEW rep \in Report, ReportFailure(k, l, rep)
      PROVE  HealthInv'
  <2>1. CASE rep.error \in CompatErrors /\ ReportIncompatible(k, l, rep.error)
    BY <2>1, IncompatibilityKeepsHealthInv
  <2>2. CASE rep.error \in KeyErrors /\ ReportKeyFailure(k, rep)
    BY <2>2, KeyFailureKeepsHealthInv
  <2> QED BY <1>2, <2>1, <2>2 DEF ReportFailure
<1>3. CASE Housekeeping
  BY <1>3, HousekeepingKeepsHealthInv
<1>4. CASE Operator
  BY <1>4, OperatorKeepsHealthInv
<1>5. CASE Tick
  BY <1>5, TickKeepsHealthInv
<1>6. CASE UNCHANGED healthVars
  BY <1>6 DEF healthVars, HealthInv
<1> QED BY <1>1, <1>2, <1>3, <1>4, <1>5, <1>6 DEF HealthNext

(* Every reachable health state is bounded.                                *)
THEOREM HealthInvariant == HealthSpec => []HealthInv
BY HealthInvInitially, HealthInvKept, PTL DEF HealthSpec

(* Types of the health state (RouterHealth!HealthTypeOK), for any fleet.   *)
THEOREM TypeCorrect == HealthSpec => []HealthTypeOK
<1>1. HealthInv => HealthTypeOK
  <2>1. /\ BoundedKey \subseteq KeyRecord
        /\ BoundedProvider \subseteq ProviderRecord
        /\ BoundedCircuit \subseteq CircuitRecord
    BY BoundsAreNaturals DEF BoundedKey, KeyRecord, BoundedProvider, ProviderRecord,
                             BoundedCircuit, CircuitRecord
  <2> QED BY <2>1 DEF HealthInv, HealthTypeOK
<1> QED BY <1>1, HealthInvariant, PTL

(* No report, whatever Retry-After it carries and in whatever order it     *)
(* arrives, takes a key, provider or circuit away for longer than the      *)
(* configured maxima (scheduler_policy.py's clamps, router.py's max).      *)
THEOREM BlocksStayBounded == HealthSpec => []BlocksAreBounded
<1>1. HealthInv => BlocksAreBounded
  BY BoundsAreNaturals
     DEF HealthInv, BlocksAreBounded, BoundedKey, BoundedProvider, BoundedCircuit, ProviderCap
<1> QED BY <1>1, HealthInvariant, PTL

-----------------------------------------------------------------------------
(* Everything one step may do to one key's record.                         *)
Blamed(old, new) ==
  \E e \in KeyErrors, ra \in RetryAfter : new = KeyAfter(old, e, PolicyFor(e, ra))
KeyMove(old, new) ==
  \/ new = old
  \/ new = Cleared(old)
  \/ \E on \in BOOLEAN : new = Switched(old, on)
  \/ new = Aged(old)
  \/ Blamed(old, new)

LEMMA KeysMove ==
  ASSUME HealthInv, [HealthNext]_healthVars, NEW k \in Key
  PROVE  KeyMove(keyState[k], keyState'[k])
<1> USE DEF HealthInv
<1>1. ASSUME NEW j \in Key, NEW l \in Lane, ReportSuccess(j, l)
      PROVE  KeyMove(keyState[k], keyState'[k])
  BY <1>1 DEF ReportSuccess, KeyMove
<1>2. ASSUME NEW j \in Key, NEW l \in Lane, NEW rep \in Report, ReportFailure(j, l, rep)
      PROVE  KeyMove(keyState[k], keyState'[k])
  <2>1. CASE keyState' = keyState
    BY <2>1 DEF KeyMove
  <2>2. CASE rep.error \in KeyErrors /\ ReportKeyFailure(j, rep)
    <3>1. keyState'[k] = keyState[k]
          \/ keyState'[k] = KeyAfter(keyState[k], rep.error, PolicyFor(rep.error, rep.retryAfter))
      BY <2>2 DEF ReportKeyFailure
    <3>2. rep.error \in KeyErrors /\ rep.retryAfter \in RetryAfter
      BY <2>2, ReportFields
    <3> QED BY <3>1, <3>2 DEF KeyMove, Blamed
  <2> QED BY <1>2, <2>1, <2>2 DEF ReportFailure, ReportIncompatible
<1>3. CASE Housekeeping
  BY <1>3 DEF Housekeeping, CooldownProvider, ForgetExpiredCircuit, PruneCircuits, KeyMove
<1>4. CASE Operator
  <2>1. ASSUME NEW p \in Provider, ClearProviderCooldown(p) PROVE KeyMove(keyState[k], keyState'[k])
    BY <2>1 DEF ClearProviderCooldown, KeyMove
  <2>2. ASSUME NEW j \in Key, NEW on \in BOOLEAN, SetKeyEnabled(j, on)
        PROVE  KeyMove(keyState[k], keyState'[k])
    BY <2>2 DEF SetKeyEnabled, KeyMove
  <2>3. ASSUME NEW keys \in KeyTargets, ClearKeyState(keys) PROVE KeyMove(keyState[k], keyState'[k])
    BY <2>3 DEF ClearKeyState, KeyMove
  <2>4. CASE keyState' = keyState
    BY <2>4 DEF KeyMove
  <2> QED BY <1>4, <2>1, <2>2, <2>3, <2>4
          DEF Operator, SetProviderEnabled, ClearCompatibilityCircuits
<1>5. CASE Tick
  BY <1>5 DEF Tick, KeyMove
<1>6. CASE UNCHANGED healthVars
  BY <1>6 DEF healthVars, KeyMove
<1> QED BY <1>1, <1>2, <1>3, <1>4, <1>5, <1>6 DEF HealthNext

(* Strikes of a blamed key never decrease, and they stop at their bounds.  *)
LEMMA StrikesGrow ==
  ASSUME NEW ks \in BoundedKey, NEW e \in KeyErrors, NEW p \in BoundedPolicy
  PROVE  /\ TransientStrikes(ks, e, p) \in ks.transient..KeyStrikeBound
         /\ CredentialStrikes(ks, e, p) \in ks.credential..CredentialStrikeBound
BY BoundsAreNaturals
   DEF TransientStrikes, CredentialStrikes, CountStrike, AtMost, BoundedKey

(* A ladder disables only when its strikes have reached their bound.       *)
LEMMA DisablingIsEarned ==
  ASSUME NEW ks \in BoundedKey, NEW e \in KeyErrors, NEW ra \in RetryAfter,
         Penalty(ks, e, PolicyFor(e, ra)).disables
  PROVE  \/ TransientStrikes(ks, e, PolicyFor(e, ra)) = KeyStrikeBound
         \/ CredentialStrikes(ks, e, PolicyFor(e, ra)) = CredentialStrikeBound
         \/ DisablesOutright(e, ra)
<1> DEFINE p == PolicyFor(e, ra)
           t == TransientStrikes(ks, e, p)
           c == CredentialStrikes(ks, e, p)
<1>1. p \in BoundedPolicy
  BY PolicyIsBounded
<1>2. t \in 0..KeyStrikeBound /\ c \in 0..CredentialStrikeBound
      /\ Len(KeyLadder) \in Nat /\ Len(CredentialLadder) \in Nat
  <2>1. t \in ks.transient..KeyStrikeBound /\ c \in ks.credential..CredentialStrikeBound
    BY <1>1, StrikesGrow
  <2>2. ks.transient \in 0..KeyStrikeBound /\ ks.credential \in 0..CredentialStrikeBound
    BY DEF BoundedKey
  <2>3. Len(KeyLadder) \in Nat /\ Len(CredentialLadder) \in Nat
    BY LadderAssumption DEF IsLadder
  <2> QED BY <2>1, <2>2, <2>3, BoundsAreNaturals
<1>3. CASE IsCredential(e, p)
  <2>1. c # 0
    BY <1>3, BoundsAreNaturals DEF CredentialStrikes, CountStrike, AtMost, BoundedKey
  <2>2. CredentialLadderDecision(c).disables
    <3>1. CredentialLadderDecision(c) \in Rung
      BY <1>2, <2>1, CredentialRung, BoundsAreNaturals
    <3>2. Penalty(ks, e, p)
            = [CredentialLadderDecision(c) EXCEPT !.disables = @ /\ e = "key_invalid"]
      BY <1>3 DEF Penalty
    <3>3. Penalty(ks, e, p).disables = (CredentialLadderDecision(c).disables /\ e = "key_invalid")
      BY <3>1, <3>2 DEF Rung
    <3> QED BY <3>3
  <2>3. c > Len(CredentialLadder)
    BY <1>2, <2>1, <2>2, CredentialRung, BoundsAreNaturals
  <2> QED BY <1>2, <2>3 DEF CredentialStrikeBound
<1>4. CASE ~IsCredential(e, p) /\ IsTransient(e, p)
  <2>1. t # 0
    BY <1>4, BoundsAreNaturals DEF TransientStrikes, CountStrike, AtMost, BoundedKey
  <2>2. KeyLadderDecision(t, p.cooldown).disables
    BY <1>4 DEF Penalty
  <2>3. p.cooldown \in 0..MaxCooldown
    BY <1>1 DEF BoundedPolicy
  <2>4. t > Len(KeyLadder)
    BY <1>2, <2>1, <2>2, <2>3, KeyRung, BoundsAreNaturals
  <2> QED BY <1>2, <2>4 DEF KeyStrikeBound
<1>5. CASE ~IsCredential(e, p) /\ ~IsTransient(e, p)
  BY <1>5 DEF Penalty, DisablesOutright
<1> QED BY <1>3, <1>4, <1>5

LEMMA KeyMovesEarn ==
  ASSUME NEW old \in BoundedKey, NEW new, Earned(old), KeyMove(old, new)
  PROVE  Earned(new)
<1>1. CASE new = old
  BY <1>1
<1>2. CASE new = Cleared(old)
  BY <1>2 DEF Cleared, FreshKey, Earned
<1>3. ASSUME NEW on \in BOOLEAN, new = Switched(old, on) PROVE Earned(new)
  BY <1>3 DEF Switched, Earned, BoundedKey
<1>4. CASE new = Aged(old)
  <2>1. old.disabled \in Nat
    BY BoundsAreNaturals DEF BoundedKey
  <2> QED BY <1>4, <2>1 DEF Aged, Less, Earned, BoundedKey
<1>5. ASSUME NEW e \in KeyErrors, NEW ra \in RetryAfter, new = KeyAfter(old, e, PolicyFor(e, ra))
      PROVE  Earned(new)
  <2> DEFINE p == PolicyFor(e, ra)
  <2>1. p \in BoundedPolicy
    BY PolicyIsBounded
  <2>2. /\ new.transient = TransientStrikes(old, e, p)
        /\ new.credential = CredentialStrikes(old, e, p)
        /\ ~Penalty(old, e, p).disables => new.disabled = old.disabled
    BY <1>5 DEF KeyAfter
  <2>3. CASE Penalty(old, e, p).disables
    BY <2>2, <2>3, DisablingIsEarned DEF Earned
  <2>4. CASE ~Penalty(old, e, p).disables
    <3>1. /\ new.transient \in old.transient..KeyStrikeBound
          /\ new.credential \in old.credential..CredentialStrikeBound
      BY <2>1, <2>2, StrikesGrow
    <3>2. /\ old.transient \in 0..KeyStrikeBound
          /\ old.credential \in 0..CredentialStrikeBound
      BY DEF BoundedKey
    <3>3. /\ old.transient = KeyStrikeBound => new.transient = KeyStrikeBound
          /\ old.credential = CredentialStrikeBound => new.credential = CredentialStrikeBound
      BY <3>1, <3>2, BoundsAreNaturals
    <3> QED BY <2>2, <2>4, <3>3 DEF Earned
  <2> QED BY <2>3, <2>4
<1> QED BY <1>1, <1>2, <1>3, <1>4, <1>5 DEF KeyMove, Blamed

(* A key is disabled only after its whole ladder was climbed, or because   *)
(* the operator's policy says so (router.py's two ladder decisions).       *)
THEOREM DisabledKeysEarnedIt == HealthSpec => []DisabledIsEarned
<1>1. HealthInit => DisabledIsEarned
  BY DEF HealthInit, DisabledIsEarned, Earned, FreshKey
<1>2. HealthInv /\ DisabledIsEarned /\ [HealthNext]_healthVars => DisabledIsEarned'
  <2> SUFFICES ASSUME HealthInv, DisabledIsEarned, [HealthNext]_healthVars, NEW k \in Key
               PROVE  Earned(keyState'[k])
    BY DEF DisabledIsEarned, Earned
  <2>1. keyState[k] \in BoundedKey /\ Earned(keyState[k])
    BY DEF HealthInv, DisabledIsEarned
  <2>2. KeyMove(keyState[k], keyState'[k])
    BY KeysMove
  <2> QED BY <2>1, <2>2, KeyMovesEarn
<1> QED BY <1>1, <1>2, HealthInvariant, PTL DEF HealthSpec

(* A late report never shortens a penalty and strikes are never forgotten  *)
(* but by a success or an operator (report_failure's maxima).              *)
THEOREM PenaltiesGrow == HealthSpec => PenaltiesOnlyGrow
<1>1. ASSUME NEW old \in BoundedKey, NEW new, KeyMove(old, new)
      PROVE  PenaltyStep(old, new)
  <2>1. /\ old.cooldown \in Nat /\ old.disabled \in Nat
        /\ old.transient \in Nat /\ old.credential \in Nat
    BY BoundsAreNaturals DEF BoundedKey
  <2>2. CASE new = old
    <3>1. /\ new.cooldown >= old.cooldown /\ new.disabled >= old.disabled
          /\ new.transient >= old.transient /\ new.credential >= old.credential
      BY <2>1, <2>2
    <3> QED BY <3>1 DEF PenaltyStep
  <2>3. CASE \E on \in BOOLEAN : new = Switched(old, on)
    <3>1. CASE new = Switched(old, TRUE)
      BY <3>1 DEF PenaltyStep
    <3>2. CASE new = Switched(old, FALSE)
      BY <2>1, <3>2 DEF PenaltyStep, Switched, BoundedKey
    <3> QED BY <2>3, <3>1, <3>2
  <2>4. ASSUME NEW e \in KeyErrors, NEW ra \in RetryAfter,
               new = KeyAfter(old, e, PolicyFor(e, ra))
        PROVE  PenaltyStep(old, new)
    <3> DEFINE p == PolicyFor(e, ra)
    <3>1. p \in BoundedPolicy
      BY PolicyIsBounded
    <3>2. Penalty(old, e, p).cooldown \in Nat
      BY <3>1, PenaltyIsRung, BoundsAreNaturals DEF Rung
    <3>3. new.transient >= old.transient /\ new.credential >= old.credential
      BY <2>1, <2>4, <3>1, StrikesGrow, BoundsAreNaturals DEF KeyAfter
    <3>4. new.cooldown >= old.cooldown /\ new.disabled >= old.disabled
      BY <2>1, <2>4, <3>2 DEF KeyAfter, AtLeast
    <3> QED BY <3>3, <3>4 DEF PenaltyStep
  <2> QED BY <1>1, <2>2, <2>3, <2>4 DEF KeyMove, Blamed, PenaltyStep
<1>2. HealthInv /\ [HealthNext]_healthVars
        => [\A k \in Key : PenaltyStep(keyState[k], keyState'[k])]_healthVars
  BY <1>1, KeysMove DEF HealthInv
<1> QED BY <1>2, HealthInvariant, PTL DEF HealthSpec, PenaltiesOnlyGrow

-----------------------------------------------------------------------------
(* A failure lengthens the circuit it reports on and pruning leaves every  *)
(* open circuit alone.                                                     *)
LEMMA FailureKeepsCircuitsOpen ==
  ASSUME HealthInv, NEW k \in Key, NEW l \in Lane, NEW e \in CompatErrors,
         ReportIncompatible(k, l, e), NEW c \in Circuit, CircuitOpen(c)
  PROVE  circuit'[c].fails >= circuit[c].fails /\ circuit'[c].cooldown >= circuit[c].cooldown
<1> DEFINE after == CircuitAfter(<<k, l>>, e)
<1>1. <<k, l>> \in Circuit /\ circuit[c] \in BoundedCircuit /\ after \in BoundedCircuit
  BY CircuitAfterIsBounded DEF Circuit, HealthInv
<1>2. /\ circuit[c].fails \in 0..CompatStrikeBound /\ circuit[c].cooldown \in Nat
      /\ after.fails \in 0..CompatStrikeBound /\ after.cooldown \in Nat
  BY <1>1, BoundsAreNaturals DEF BoundedCircuit
<1> HIDE DEF after
<1>3. CASE c # <<k, l>>
  <2>1. circuit'[c] = circuit[c]
    BY <1>1, <1>2, <1>3 DEF ReportIncompatible, Prune, CircuitOpen, HealthInv
  <2> QED BY <1>2, <2>1, BoundsAreNaturals
<1>4. CASE c = <<k, l>>
  <2> DEFINE fails == CountStrike(circuit[c].fails, CompatStrikeBound)
             wait == IF e = "probe_first_event_timeout" THEN ProbeCircuit
                     ELSE CompatLadderSeconds(fails)
  <2>1. fails \in 0..CompatStrikeBound /\ fails >= circuit[c].fails
    BY <1>2, BoundsAreNaturals DEF CountStrike, AtMost
  <2>2. wait \in Nat
    BY <2>1, CompatRung, BoundsAreNaturals, PolicyAssumption
  <2>3. after = [fails |-> fails, cooldown |-> AtLeast(circuit[c].cooldown, wait)]
    BY <1>4 DEF after, CircuitAfter
  <2> HIDE DEF fails, wait
  <2>4. after.fails >= circuit[c].fails /\ after.cooldown >= circuit[c].cooldown
    BY <1>2, <2>1, <2>2, <2>3 DEF AtLeast
  <2>5. after.cooldown # 0
    BY <1>2, <2>4 DEF CircuitOpen
  <2>6. circuit'[c] = after
    BY <1>1, <1>4, <2>5 DEF ReportIncompatible, Prune, HealthInv, after
  <2> QED BY <2>4, <2>6
<1> QED BY <1>3, <1>4

(* An open circuit is never dropped or shortened by failures, pruning or   *)
(* other circuits' successes (router.py's compatibility branch).           *)
THEOREM OpenCircuitsStay == HealthSpec => OpenCircuitsHold
<1>1. ASSUME HealthInv, [HealthNext]_healthVars, NEW c \in Circuit, CircuitOpen(c)
      PROVE  OpenCircuitStep(c)
  <2> USE <1>1
  <2>1. circuit[c] \in BoundedCircuit
    BY DEF HealthInv
  <2>2. circuit[c].fails \in 0..CompatStrikeBound /\ circuit[c].cooldown \in Nat
    BY <2>1, BoundsAreNaturals DEF BoundedCircuit
  <2>3. CASE circuit'[c] = circuit[c]
    <3>1. circuit'[c].fails >= circuit[c].fails /\ circuit'[c].cooldown >= circuit[c].cooldown
      BY <2>2, <2>3, BoundsAreNaturals
    <3> QED BY <3>1 DEF OpenCircuitStep
  <2>4. ASSUME NEW k \in Key, NEW l \in Lane, ReportSuccess(k, l) PROVE OpenCircuitStep(c)
    <3>1. CASE c = <<k, l>>
      <4>1. c[1] = k /\ c[2] = l
        BY <3>1
      <4>2. circuit'[c] = NoCircuit
        BY <2>4, <3>1 DEF ReportSuccess, HealthInv
      <4>3. ReportSuccess(c[1], c[2])
        BY <2>4, <4>1
      <4> QED BY <4>2, <4>3 DEF OpenCircuitStep
    <3>2. CASE c # <<k, l>>
      <4>1. circuit'[c] = circuit[c]
        BY <2>4, <3>2 DEF ReportSuccess, HealthInv
      <4> QED BY <2>3, <4>1
    <3> QED BY <3>1, <3>2
  <2>5. ASSUME NEW k \in Key, NEW l \in Lane, NEW rep \in Report, ReportFailure(k, l, rep)
        PROVE  OpenCircuitStep(c)
    <3>1. CASE rep.error \in CompatErrors /\ ReportIncompatible(k, l, rep.error)
      BY <3>1, FailureKeepsCircuitsOpen DEF OpenCircuitStep
    <3>2. CASE rep.error \in KeyErrors /\ ReportKeyFailure(k, rep)
      BY <2>3, <3>2 DEF ReportKeyFailure
    <3> QED BY <2>5, <3>1, <3>2 DEF ReportFailure
  <2>6. CASE Housekeeping
    <3>1. circuit'[c] = circuit[c]
      BY <2>2, <2>6 DEF Housekeeping, CooldownProvider, ForgetExpiredCircuit, PruneCircuits,
                        Prune, CircuitOpen, HealthInv
    <3> QED BY <2>3, <3>1
  <2>7. CASE Operator
    <3>1. circuit'[c] = circuit[c] \/ circuit'[c] = NoCircuit
      BY <2>7 DEF Operator, SetProviderEnabled, ClearProviderCooldown, SetKeyEnabled,
                  ClearKeyState, ClearCompatibilityCircuits
    <3> QED BY <2>3, <2>7, <3>1 DEF OpenCircuitStep
  <2>8. CASE Tick
    BY <2>8 DEF Tick, OpenCircuitStep
  <2>9. CASE UNCHANGED healthVars
    BY <2>3, <2>9 DEF healthVars
  <2> QED BY <2>4, <2>5, <2>6, <2>7, <2>8, <2>9 DEF HealthNext
<1>2. HealthInv /\ [HealthNext]_healthVars
        => [\A c \in Circuit : CircuitOpen(c) => OpenCircuitStep(c)]_healthVars
  BY <1>1
<1> QED BY <1>2, HealthInvariant, PTL DEF HealthSpec, OpenCircuitsHold

=============================================================================
