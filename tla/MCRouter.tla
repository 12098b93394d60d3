------------------------------ MODULE MCRouter ------------------------------
(***************************************************************************)
(* Small instances of Router.  A run explores several settings side by     *)
(* side: one is drawn in the initial state.  Requests meet at most two     *)
(* providers and three keys, so that two of them can take keys from under  *)
(* each other.                                                             *)
(***************************************************************************)
EXTENDS Router

CONSTANTS p1, p2, p3, k1, k2, k3, k4, r1, r2

(* Provider p1 has two keys, p2 and p3 have one.                           *)
Fleet123 == (k1 :> p1) @@ (k2 :> p1) @@ (k3 :> p2) @@ (k4 :> p3)
Fleet123Order == (p1 :> <<k1, k2>>) @@ (p2 :> <<k3>>) @@ (p3 :> <<k4>>)
Fleet12 == (k1 :> p1) @@ (k2 :> p1) @@ (k3 :> p2)
Fleet12Order == (p1 :> <<k1, k2>>) @@ (p2 :> <<k3>>)
Fleet2 == k3 :> p2
Fleet2Order == p2 :> <<k3>>

(* One request of each kind; the least preferred provider is p2, and it    *)
(* comes first in configuration order.                                     *)
Only(p) ==
  [items |-> <<p>>, pool |-> <<p>>,
   formatsOf |-> [q \in Provider |-> {"chat"}], modelsOf |-> [q \in Provider |-> <<"m">>],
   formatOrder |-> <<"chat">>,
   priority |-> [q \in Provider |-> IF q = p2 THEN 1 ELSE 5],
   weight |-> [q \in Provider |-> IF q = p2 THEN 1 ELSE 2],
   mode |-> "priority_failover", formatPreference |-> "priority_first", penalties |-> {0},
   keySupports |-> [k \in Key |-> {"m"}], autoFilterActive |-> TRUE, maxAttempts |-> 1,
   clients |-> {r1}, recurring |-> FALSE, maxInterference |-> 0]

Both(p, q) == [Only(p) EXCEPT !.items = <<p, q>>, !.pool = <<p, q>>]

(* Two requests race over three keys.                                      *)
Racing == [Both(p2, p1) EXCEPT !.clients = {r1, r2}]

(* Two providers that speak two formats; the health penalties of auto mode *)
(* may invert their priorities; a probe or an operator interferes.         *)
Formats ==
  [Both(p2, p3) EXCEPT !.formatsOf = [q \in Provider |-> {"chat", "messages"}],
     !.formatOrder = <<"chat", "messages">>, !.penalties = {0, 4}, !.maxInterference = 1]

(* Only the less preferred provider speaks the client's format; there is   *)
(* no discovery data.                                                      *)
Native ==
  [Both(p2, p3) EXCEPT !.formatPreference = "native_first", !.autoFilterActive = FALSE,
     !.formatsOf = [q \in Provider |-> IF q = p3 THEN {"messages"} ELSE {"chat"}],
     !.formatOrder = <<"chat", "messages">>, !.maxInterference = 1]

(* Two names of the model, one of which a key lacks.                       *)
Names ==
  [Only(p1) EXCEPT !.modelsOf = [q \in Provider |-> <<"m", "n">>], !.maxInterference = 1,
     !.keySupports = [k \in Key |-> IF k = k1 THEN {"m"} ELSE {"m", "n"}]]

(* The modes without an order of preference: two requests rotate the same  *)
(* lists, one request draws an order by lot.                               *)
Rotating ==
  [Native EXCEPT !.mode = "weighted_rr", !.autoFilterActive = TRUE, !.clients = {r1, r2},
     !.maxInterference = 0]
Drawing == [Both(p2, p1) EXCEPT !.mode = "random", !.maxAttempts = 2, !.maxInterference = 1]

SafetySettings == {Racing, Formats, Native, Names, Rotating, Drawing}

(* Requests without end at one key, with discovery data; two requests that *)
(* race over two keys; a probe or an operator beside a request.            *)
Endless == [Only(p2) EXCEPT !.recurring = TRUE, !.clients = {r1, r2}]
RacingOnce == [Only(p1) EXCEPT !.clients = {r1, r2}]
Interfered == [Only(p2) EXCEPT !.maxInterference = 1]
LivenessSettings == {Endless, RacingOnce, Interfered}

(* Requests without end at one key, without discovery data.                *)
StarvedSettings == {[Only(p2) EXCEPT !.recurring = TRUE, !.autoFilterActive = FALSE]}

(* One client that repeats a request.                                      *)
RetryingSettings == {[Only(p2) EXCEPT !.recurring = TRUE]}

(* Three keys in two slots.                                                *)
RoundRobinSettings == {[Both(p2, p1) EXCEPT !.mode = "round_robin"]}

Plain == [r \in Request |-> "plain"]

Rungs1 == <<1>>
Rungs12 == <<1, 2>>
Durations == [key_invalid |-> 1, rate_limited |-> 1, quota_or_balance |-> 1,
              network_error |-> 1, server_error |-> 1]
DefaultPolicies == << >>

SameRequests == Permutations({r1, r2})

AllLanes == Format \X UpstreamModel \X Profile
=============================================================================
