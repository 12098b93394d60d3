--------------------------- MODULE MCRouterHealth ---------------------------
(***************************************************************************)
(* A small instance of RouterHealth: two keys of one provider, one lane.   *)
(* Durations are scaled: what matters is their order, and that some rung   *)
(* is longer than one tick.                                                *)
(***************************************************************************)
EXTENDS RouterHealth, TLC

CONSTANTS p1, k1, k2

OneProvider == (k1 :> p1) @@ (k2 :> p1)

Rungs1 == <<1>>
Rungs2 == <<2>>

Durations == [key_invalid |-> 2, rate_limited |-> 1, quota_or_balance |-> 2,
              network_error |-> 1, server_error |-> 2]

(* What an operator may configure: a transient error that also cools the   *)
(* provider, and an unknown one that cools it alone.                         *)
WiderScopes ==
  [network_error |-> [cooldown_scope |-> "key_provider", cooldown_s |-> 2],
   unknown       |-> [cooldown_scope |-> "provider"]]

SameKeys == Permutations({k1, k2})
=============================================================================
