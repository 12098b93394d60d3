---------------------------- MODULE AttemptOrder ----------------------------
(***************************************************************************)
(* The order in which UpstreamRouter.iter_attempts visits providers for    *)
(* one client request (router.py, _select_provider_attempts and what it    *)
(* calls).  One canonical model and one client format: requests for other  *)
(* models share health state with these but never an order or a rotation.  *)
(*                                                                         *)
(* The module has no actions: it reads the router's configuration, which a *)
(* router keeps for life.  A slot is one visit: a provider, the upstream   *)
(* format to speak and the provider's own name for the model.              *)
(***************************************************************************)
EXTENDS Fleet, Integers, SequencesExt, FiniteSetsExt

CONSTANTS
  Format,           \* upstream formats
  UpstreamModel,    \* providers' own model names
  KeyOrder          \* provider -> its keys in configuration order

VARIABLE setting    \* the router's configuration (self.cfg), never changed

FormatsOf == setting.formatsOf      \* provider -> formats it speaks
ModelsOf == setting.modelsOf        \* provider -> candidate names of the model
FormatOrder == setting.formatOrder  \* the formats this request can use, client's first
ClientFormat == setting.formatOrder[1]
Priority == setting.priority        \* provider -> effective configured priority
Weight == setting.weight            \* provider -> effective weight
Mode == setting.mode                \* provider_select; "auto" is failover with Penalties
FormatPreference == setting.formatPreference  \* "priority_first" or "native_first"
Penalties == setting.penalties      \* what auto mode may take off a priority

(* The priorities auto mode may work with: each provider's, less a penalty *)
(* for its current health score.                                           *)
EffectivePriority ==
  {[p \in Provider |-> Priority[p] - penalty[p]] : penalty \in [Provider -> Penalties]}

Copies(n, x) == [i \in 1..n |-> x]
Rotate(s, n) == SubSeq(s, n + 1, Len(s)) \o SubSeq(s, 1, n)
LexBefore(x, y) ==
  \E i \in DOMAIN x : x[i] < y[i] /\ \A j \in 1..(i - 1) : x[j] = y[j]

-----------------------------------------------------------------------------
(* A visit before it is multiplied into slots: a provider item paired with *)
(* a format it speaks.                                                     *)
Visit == [provider : Provider, format : Format]

Visits(items) ==
  {[provider |-> items[i], format |-> FormatOrder[f]] :
     i \in DOMAIN items, f \in DOMAIN FormatOrder}

Speaks(v) == v.format \in FormatsOf[v.provider]
NativeFlag(v) == IF v.format = ClientFormat THEN 0 ELSE 1
Place(items, v) ==
  <<CHOOSE i \in DOMAIN items : items[i] = v.provider,
    CHOOSE f \in DOMAIN FormatOrder : FormatOrder[f] = v.format>>

(* The elements of DOMAIN rank, by rank.                                   *)
Ascending(rank) ==
  CHOOSE s \in SetToSeqs(DOMAIN rank) :
    \A i, j \in DOMAIN s : i < j => LexBefore(rank[s[i]], rank[s[j]])

(* The two lists the code builds first, in item order then format order.   *)
PoolOf(items, flag) ==
  Ascending([v \in {w \in Visits(items) : Speaks(w) /\ NativeFlag(w) = flag} |-> Place(items, v)])
NativePool(items) == PoolOf(items, 0)
FallbackPool(items) == PoolOf(items, 1)

(* Mutant: formats in request order.                                       *)
SortKeyNoNative(items, prio, v) ==
  <<-prio[v.provider], 0, Place(items, v)[1], Place(items, v)[2]>>

(* priority_failover: sorted by priority, the native format first on a tie *)
(* (or, with native_first, by the native format before anything else); as  *)
(* many visits as the provider has keys.                                   *)
SortKey(items, prio, v) ==
  LET place == Place(items, v)
  IN  IF FormatPreference = "priority_first"
      THEN <<-prio[v.provider], NativeFlag(v), place[1], place[2]>>
      ELSE <<NativeFlag(v), -prio[v.provider], place[1], place[2]>>

FailoverVisits(items, prio) ==
  LET sorted == Ascending([v \in {w \in Visits(items) : Speaks(w)} |-> SortKey(items, prio, v)])
  IN  FlattenSeq([i \in DOMAIN sorted |->
        Copies(Max({1, Len(KeyOrder[sorted[i].provider])}), sorted[i])])

(* The other modes: one visit each, or as many as the weight.              *)
Weighted(pool) ==
  FlattenSeq([i \in DOMAIN pool |->
    Copies(IF Mode = "weighted_rr" THEN Weight[pool[i].provider] ELSE 1, pool[i])])

Shuffles(s) == {[i \in DOMAIN s |-> s[perm[i]]] : perm \in SetToSeqs(DOMAIN s)}

-----------------------------------------------------------------------------
(* iter_attempts multiplies each run of equal visits by the candidate      *)
(* model names: all visits of the first name, then all of the second.      *)
Slot == [provider : Provider, format : Format, model : UpstreamModel]

RunLength(s, i) ==
  Min({j \in (i + 1)..(Len(s) + 1) : j = Len(s) + 1 \/ s[j] # s[i]}) - i
StartsRun(s, i) == i = 1 \/ s[i - 1] # s[i]

Slots(s) ==
  FlattenSeq([i \in DOMAIN s |->
    IF ~StartsRun(s, i) THEN << >>
    ELSE LET names == ModelsOf[s[i].provider]
         IN  FlattenSeq([m \in DOMAIN names |->
               Copies(RunLength(s, i),
                      [provider |-> s[i].provider, format |-> s[i].format,
                       model |-> names[m]])])])
=============================================================================
