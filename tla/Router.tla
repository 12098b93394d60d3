------------------------------- MODULE Router -------------------------------
(***************************************************************************)
(* Client requests driving the router: UpstreamRouter.iter_attempts        *)
(* (router.py) interleaved with the request loop that consumes it          *)
(* (sse2json.py, _proxy_openai_chat_completions; the Responses, Messages   *)
(* and auxiliary loops have the same control).                             *)
(*                                                                         *)
(* Every request runs in a thread of its own.  The router's lock is held   *)
(* for one look or one update at a time, so each lock section is an action *)
(* and between two of them any other request, probe or operator may act.   *)
(* The time an upstream takes is the gap between "sent" and what follows.  *)
(***************************************************************************)
EXTENDS RouterHealth, AttemptOrder

CONSTANTS
  Profile,           \* compatibility profiles
  Request,           \* client requests, one thread each
  ProfileOf,         \* request -> its profile
  Settings           \* the settings a router may be started with

VARIABLES
  req,           \* request -> the local variables of its thread
  rotation,      \* _rr_model: the next start of each list
  interference,  \* probe reports and operator commands so far
  tried,         \* history: candidates a request has sent upstream
  steady,        \* history: candidates usable ever since its order was chosen
  prefers        \* history: the pairs <<c, d>> its order puts c before d for

(* The configuration of one router as it concerns one canonical model, and *)
(* the bounds of the environment it runs in.  A change of configuration    *)
(* makes a new router: see the README.                                     *)
Items == setting.items              \* enabled providers that support the model
Pool == setting.pool                \* all enabled providers of the pool
KeySupports == setting.keySupports  \* key -> the names it is known to serve
AutoFilterActive == setting.autoFilterActive  \* _manual_filter_active
MaxAttempts == setting.maxAttempts  \* routing.max_attempts
Clients == setting.clients          \* bound: the requests that are made
Recurring == setting.recurring      \* a thread that is done takes another
MaxInterference == setting.maxInterference  \* bound on probes and operators

IsOrder(s, S) == s \in Seq(S) /\ IsInjective(s)

IsSetting(s) ==
  /\ IsOrder(s.items, Provider) /\ IsOrder(s.pool, Provider)
  /\ ToSet(s.items) \subseteq ToSet(s.pool)
  /\ s.formatsOf \in [Provider -> SUBSET Format]
  /\ s.modelsOf \in [Provider -> Seq(UpstreamModel)]
  /\ IsOrder(s.formatOrder, Format) /\ s.formatOrder # << >>
  /\ s.priority \in [Provider -> Int]
  /\ s.weight \in [Provider -> Nat \ {0}]
  /\ s.mode \in {"priority_failover", "round_robin", "weighted_rr", "random"}
  /\ s.formatPreference \in {"priority_first", "native_first"}
  /\ s.penalties \subseteq Nat /\ s.penalties # {}
  /\ s.keySupports \in [Key -> SUBSET UpstreamModel]
  /\ {s.autoFilterActive, s.recurring} \subseteq BOOLEAN
  /\ {s.maxAttempts, s.maxInterference} \subseteq Nat
  /\ s.clients \subseteq Request

ASSUME RequestAssumption ==
  /\ Lane = Format \X UpstreamModel \X Profile
  /\ "plain" \in Profile /\ ProfileOf \in [Request -> Profile]
  /\ \A p \in Provider : IsOrder(KeyOrder[p], Key) /\ ToSet(KeyOrder[p]) = KeysOf(p)
  /\ \A s \in Settings : IsSetting(s)

requestVars == <<req, rotation, interference>>
historyVars == <<tried, steady, prefers>>
vars == <<setting, healthVars, requestVars, historyVars>>

Candidate == [key : Key, format : Format, model : UpstreamModel]
NoCandidate == [key |-> "none", format |-> "none", model |-> "none"]

LaneOf(r, c) == <<c.format, c.model, ProfileOf[r]>>
CircuitOf(r, c) == <<c.key, LaneOf(r, c)>>

(* The threads' states.  "native" and "fallback" wait to rotate a list,    *)
(* "nokey" and "cool" follow a provider without a usable key, "circuit"    *)
(* has a key and looks at its circuit, "sent" awaits the upstream and      *)
(* "streaming" has sent response headers to the client.                    *)
Ended == {"served", "broken", "gone", "refused"}
Working == {"native", "fallback", "scan", "nokey", "cool", "circuit", "sent", "streaming"}

Idle == [pc |-> "idle", items |-> << >>, order |-> << >>, at |-> 1, stalls |-> 0,
         scans |-> 0, attempts |-> 0, seen |-> {}, cand |-> NoCandidate]

RouterInit ==
  /\ HealthInit
  /\ setting \in Settings
  /\ req = [r \in Request |-> Idle]
  /\ rotation = [list \in {"native", "fallback"} |-> 0]
  /\ interference = 0
  /\ tried = [r \in Request |-> {}]
  /\ steady = [r \in Request |-> {}]
  /\ prefers = [r \in Request |-> {}]

At(r, pc) == req[r].pc = pc
Become(r, local) == req' = [req EXCEPT ![r] = local]
GoTo(r, pc) == req' = [req EXCEPT ![r].pc = pc]

KeyIndex(k) == CHOOSE i \in DOMAIN KeyOrder[Owner[k]] : KeyOrder[Owner[k]][i] = k
Supported(c) == c.model \in KeySupports[c.key]

(* The candidates the catalogue offers a request, and those of them that   *)
(* nothing stands in the way of.                                           *)
Catalog ==
  {c \in Candidate :
     /\ Owner[c.key] \in ToSet(Items)
     /\ c.format \in FormatsOf[Owner[c.key]] \cap ToSet(FormatOrder)
     /\ c.model \in ToSet(ModelsOf[Owner[c.key]])
     /\ Supported(c)}

Ready(r) ==
  {c \in Catalog : /\ ProviderAvailable(Owner[c.key]) /\ KeyAvailable(c.key)
                   /\ ~CircuitOpen(CircuitOf(r, c))}

(* What the router's docstrings promise about order (iter_attempts,        *)
(* _format_preference): provider priority decides, the client's own format *)
(* wins ties (with native_first it decides and priority wins ties), and    *)
(* within a provider keys are used in configuration order.                 *)
OwnFormat(c) == c.format = ClientFormat
Outranks(prio, c, d) == prio[Owner[c.key]] > prio[Owner[d.key]]
Levels(prio, c, d) == prio[Owner[c.key]] = prio[Owner[d.key]]

SuperiorTo(prio, c, d) ==
  \/ /\ FormatPreference = "priority_first"
     /\ Outranks(prio, c, d) \/ (Levels(prio, c, d) /\ OwnFormat(c) /\ ~OwnFormat(d))
  \/ /\ FormatPreference = "native_first"
     /\ (OwnFormat(c) /\ ~OwnFormat(d)) \/ (OwnFormat(c) = OwnFormat(d) /\ Outranks(prio, c, d))
  \/ /\ Owner[c.key] = Owner[d.key] /\ c.format = d.format /\ c.model = d.model
     /\ KeyIndex(c.key) < KeyIndex(d.key)

PoolCandidate == {c \in Candidate : Owner[c.key] \in ToSet(Pool)}

Preference(prio) ==
  {pair \in Catalog \X PoolCandidate : SuperiorTo(prio, pair[1], pair[2])}

-----------------------------------------------------------------------------
(* Choosing the order.                                                     *)

AvailableOf(items) ==
  FlattenSeq([i \in DOMAIN items |->
    IF ProviderAvailable(items[i]) THEN <<items[i]>> ELSE << >>])

(* Mutant: providers in cooldown are tried again whatever is known.        *)
AvailableItemsOrAll ==
  IF AvailableOf(Items) # << >> THEN AvailableOf(Items) ELSE Pool

(* _select_provider_items: providers in cooldown are left out, unless that *)
(* leaves nothing and no discovery data says who serves the model.         *)
AvailableItems ==
  IF AvailableOf(Items) # << >> THEN AvailableOf(Items)
  ELSE IF AutoFilterActive THEN << >> ELSE Pool

(* The loop is left: its locals are gone.  What was seen is kept for the   *)
(* properties of refused requests.                                         *)
Leave(r, pc) == Become(r, [Idle EXCEPT !.pc = pc])
Refusing(local) == [Idle EXCEPT !.pc = "refused", !.seen = local.seen]

WithOrder(order) ==
  IF order = << >> THEN Refusing(Idle) ELSE [Idle EXCEPT !.pc = "scan", !.order = order]

Starts(r) == At(r, "idle") /\ r \in Clients

SelectFailover(r) ==
  /\ Starts(r) /\ Mode = "priority_failover"
  /\ \E items \in {AvailableItems}, prio \in EffectivePriority :
       /\ Become(r, WithOrder(Slots(FailoverVisits(items, prio))))
       /\ prefers' = [prefers EXCEPT ![r] = Preference(prio)]
  /\ UNCHANGED <<healthVars, rotation, interference, tried>>

SelectShuffled(r) ==
  /\ Starts(r) /\ Mode = "random"
  /\ \E items \in {AvailableItems} :
       \E native \in Shuffles(Weighted(NativePool(items))),
          fallback \in Shuffles(Weighted(FallbackPool(items))) :
         Become(r, WithOrder(Slots(native \o fallback)))
  /\ UNCHANGED <<healthVars, rotation, interference, prefers, tried>>

(* round_robin and weighted_rr: the two lists are rotated one after the    *)
(* other, each under the lock; an empty list is not rotated.               *)
SelectRotating(r) ==
  /\ Starts(r) /\ Mode \in {"round_robin", "weighted_rr"}
  /\ Become(r, [Idle EXCEPT !.pc = "native", !.items = AvailableItems])
  /\ UNCHANGED <<healthVars, rotation, interference, prefers, tried>>

Rotated(list, visits) ==
  IF visits = << >> THEN << >> ELSE Rotate(visits, rotation[list] % Len(visits))
Advanced(list, visits) ==
  IF visits = << >> THEN rotation
  ELSE [rotation EXCEPT ![list] = ((@ % Len(visits)) + 1) % Len(visits)]

RotateNative(r) ==
  LET visits == Weighted(NativePool(req[r].items))
  IN  /\ At(r, "native")
      /\ Become(r, [req[r] EXCEPT !.pc = "fallback", !.order = Rotated("native", visits)])
      /\ rotation' = Advanced("native", visits)
      /\ UNCHANGED <<healthVars, interference, prefers, tried>>

RotateFallback(r) ==
  LET visits == Weighted(FallbackPool(req[r].items))
  IN  /\ At(r, "fallback")
      /\ Become(r, WithOrder(Slots(req[r].order \o Rotated("fallback", visits))))
      /\ rotation' = Advanced("fallback", visits)
      /\ UNCHANGED <<healthVars, interference, prefers, tried>>

ChooseOrder(r) ==
  SelectFailover(r) \/ SelectShuffled(r) \/ SelectRotating(r) \/ RotateNative(r) \/ RotateFallback(r)

-----------------------------------------------------------------------------
(* Walking the order.                                                      *)
AttemptCapConfigured(local) == MaxAttempts   \* mutant: not raised to the slots
AttemptCap(local) == AtLeast(MaxAttempts, Len(local.order))
ScanCap(local) == AttemptCap(local) * Len(local.order) * 2
MayScan(local) == local.attempts < AttemptCap(local) /\ local.scans < ScanCap(local)

NextSlotUnwrapped(local) == local.at + 1   \* mutant: the index does not wrap

(* current_prov_idx: bumped after every scan, wrapped before the next      *)
NextSlot(local) == IF local.at >= Len(local.order) THEN 1 ELSE local.at + 1
SlotOf(r) == req[r].order[req[r].at]

(* The loop goes on, or its condition fails and the request gives up.      *)
Onward(local) ==
  LET moved == [local EXCEPT !.at = NextSlot(local), !.cand = NoCandidate]
  IN  IF MayScan(local) THEN [moved EXCEPT !.pc = "scan"] ELSE Refusing(moved)

(* Mutant: after an empty round, start another.                            *)
StalledAgain(local) ==
  IF local.stalls + 1 >= Len(local.order)
  THEN Onward([local EXCEPT !.stalls = 0, !.scans = 0])
  ELSE Onward([local EXCEPT !.stalls = @ + 1])

(* A scan that found nothing: after a full round of them the loop ends.    *)
Stalled(local) ==
  LET counted == [local EXCEPT !.stalls = @ + 1]
  IN  IF counted.stalls >= Len(local.order) THEN Refusing(counted) ELSE Onward(counted)

SlotCandidates(r) ==
  {c \in Candidate \ req[r].seen :
     LET slot == SlotOf(r)
     IN  Owner[c.key] = slot.provider /\ c.format = slot.format /\ c.model = slot.model}

(* _select_key: the first key, in configuration order, that is untried for *)
(* this slot, known to serve the model and available now.  Keys known not  *)
(* to serve the model count as seen from here on.                          *)
Usable(r) ==
  {c \in SlotCandidates(r) :
     Supported(c) /\ ProviderAvailable(SlotOf(r).provider) /\ KeyAvailable(c.key)}

SelectKey(r) ==
  LET unsupported == {c \in SlotCandidates(r) : ~Supported(c)}
      looked == [req[r] EXCEPT !.scans = @ + 1, !.seen = @ \cup unsupported]
  IN  /\ At(r, "scan")
      /\ \/ /\ Usable(r) = {}
            /\ Become(r, [looked EXCEPT !.pc = "nokey"])
         \/ \E c \in Usable(r) :
              /\ \A d \in Usable(r) : KeyIndex(c.key) <= KeyIndex(d.key)
              /\ Become(r, [looked EXCEPT !.pc = "circuit", !.cand = c, !.stalls = 0])
      /\ UNCHANGED <<healthVars, rotation, interference, prefers, tried>>

(* _provider_has_available_key, a second look under the lock: a provider   *)
(* that still has a key was merely exhausted by this request; one that has *)
(* none is cooled down, in a third lock section.                           *)
HasAvailableKey(p) == ProviderAvailable(p) /\ \E k \in KeysOf(p) : KeyAvailable(k)

NoKey(r) ==
  /\ At(r, "nokey")
  /\ Become(r, IF HasAvailableKey(SlotOf(r).provider) THEN Stalled(req[r])
               ELSE [req[r] EXCEPT !.pc = "cool"])
  /\ UNCHANGED <<healthVars, rotation, interference, prefers, tried>>

Cool(r) ==
  /\ At(r, "cool")
  /\ CooldownProvider(SlotOf(r).provider)
  /\ Become(r, Stalled(req[r]))
  /\ UNCHANGED <<rotation, interference, prefers, tried>>

(* _compatibility_available: an open circuit hides the candidate from this *)
(* request without counting as an attempt; an expired one is removed.      *)
CheckCircuit(r) ==
  LET c == req[r].cand
      judged == [req[r] EXCEPT !.seen = @ \cup {c}]
  IN  /\ At(r, "circuit")
      /\ \/ /\ CircuitOpen(CircuitOf(r, c))
            /\ Become(r, Onward(judged))
            /\ UNCHANGED <<healthVars, tried>>
         \/ /\ ForgetExpiredCircuit(CircuitOf(r, c))
            /\ Become(r, [judged EXCEPT !.pc = "sent", !.attempts = @ + 1])
            /\ tried' = [tried EXCEPT ![r] = @ \cup {c}]
      /\ UNCHANGED <<rotation, interference, prefers>>

-----------------------------------------------------------------------------
(* What comes back.                                                        *)

Stops(rep) == rep.status # 0 /\ StopAttempts(rep.status, "none")

Local == <<rotation, interference, tried, prefers>>

Serve(r) ==
  /\ req[r].pc \in {"sent", "streaming"}
  /\ ReportSuccess(req[r].cand.key, LaneOf(r, req[r].cand))
  /\ Leave(r, "served")
  /\ UNCHANGED Local

(* Before anything reached the client the loop moves to the next candidate *)
AttemptFails(r, rep) ==
  /\ At(r, "sent")
  /\ ReportFailure(req[r].cand.key, LaneOf(r, req[r].cand), rep)
  /\ Become(r, IF Stops(rep) THEN Refusing(req[r]) ELSE Onward(req[r]))
  /\ UNCHANGED Local

(* Mutant: the key is made to pay for the proxy's own failure.             *)
ConversionFailsBlaming(r) ==
  /\ At(r, "sent")
  /\ keyState' = [keyState EXCEPT ![req[r].cand.key].cooldown = KeyLadder[1]]
  /\ Become(r, Onward(req[r]))
  /\ UNCHANGED <<providerState, circuit, Local>>

(* The proxy could not convert the request or the answer: no report.       *)
ConversionFails(r) ==
  /\ At(r, "sent")
  /\ Become(r, Onward(req[r]))
  /\ UNCHANGED <<healthVars, Local>>

StartStream(r) ==
  /\ At(r, "sent")
  /\ GoTo(r, "streaming")
  /\ UNCHANGED <<healthVars, Local>>

(* After the response headers went out there is no other attempt.          *)
StreamBreaks(r) ==
  /\ At(r, "streaming")
  /\ ReportFailure(req[r].cand.key, LaneOf(r, req[r].cand), PlainReport("network_error", 0))
  /\ Leave(r, "broken")
  /\ UNCHANGED Local

(* A conversion error in mid-stream, or the client closed the connection.  *)
StreamEndsUnreported(r) ==
  /\ At(r, "streaming")
  /\ \E end \in {"broken", "gone"} : Leave(r, end)
  /\ UNCHANGED <<healthVars, Local>>

Return(r) ==
  /\ Recurring
  /\ req[r].pc \in Ended
  /\ Become(r, Idle)
  /\ tried' = [tried EXCEPT ![r] = {}]
  /\ prefers' = [prefers EXCEPT ![r] = {}]
  /\ UNCHANGED <<healthVars, rotation, interference>>

-----------------------------------------------------------------------------
(* Who else touches the health state: the clock, a dashboard reading it,   *)
(* probes reporting and operators giving commands.                         *)
ClockTick == Tick /\ UNCHANGED <<requestVars, tried, prefers>>

DashboardRead == PruneCircuits /\ UNCHANGED <<requestVars, tried, prefers>>

(* Probes try what the catalogue offers, with the profile of a plain       *)
(* request.                                                                *)
ProbeLane(c) == <<c.format, c.model, "plain">>

Interfering ==
  /\ interference < MaxInterference
  /\ interference' = interference + 1
  /\ UNCHANGED <<req, rotation, tried, prefers>>

ProbeSucceeds(c) == ReportSuccess(c.key, ProbeLane(c)) /\ Interfering
ProbeFails(c) ==
  (\E rep \in ProbeReport : ReportFailure(c.key, ProbeLane(c), rep)) /\ Interfering
OperatorActs == Operator /\ Interfering

Respond(r) ==
  \/ Serve(r) \/ (\E rep \in RequestReport : AttemptFails(r, rep)) \/ ConversionFails(r)
  \/ StartStream(r) \/ StreamBreaks(r) \/ StreamEndsUnreported(r)

Step(r) ==
  ChooseOrder(r) \/ SelectKey(r) \/ NoKey(r) \/ Cool(r) \/ CheckCircuit(r) \/ Respond(r)

(* Beside what a step does: the router keeps its setting, and the history  *)
(* records which candidates are still usable.                              *)
Beside ==
  /\ UNCHANGED setting
  /\ steady' = [r \in Request |->
       CASE req'[r].pc = "idle" -> {}
         [] req[r].pc = "idle" /\ req'[r].pc # "idle" -> Ready(r)'
         [] OTHER -> steady[r] \cap Ready(r)']

RouterNext ==
  /\ \/ \E r \in Request : Step(r) \/ Return(r)
     \/ ClockTick
     \/ DashboardRead
     \/ \E c \in Catalog : ProbeSucceeds(c) \/ ProbeFails(c)
     \/ OperatorActs
  /\ Beside

RouterSpec == RouterInit /\ [][RouterNext]_vars

(* Threads are scheduled, every upstream call has a timeout, clocks move.  *)
Fairness ==
  /\ \A r \in Request : WF_vars(Step(r) /\ Beside)
  /\ WF_vars(ClockTick /\ Beside)

FairSpec == RouterSpec /\ Fairness

-----------------------------------------------------------------------------
LocalRecord ==
  [pc : {"idle"} \cup Working \cup Ended, items : Seq(Provider), order : Seq(Slot \cup Visit),
   at : Nat \ {0}, stalls : Nat, scans : Nat, attempts : Nat, seen : SUBSET Candidate,
   cand : Candidate \cup {NoCandidate}]

(* Types of the requests' state; a request with a key in hand knows which, *)
(* and one that walks an order stands on a slot of it.                     *)
RouterTypeOK ==
  /\ HealthTypeOK
  /\ req \in [Request -> LocalRecord]
  /\ rotation \in [{"native", "fallback"} -> Nat]
  /\ interference \in 0..MaxInterference
  /\ tried \in [Request -> SUBSET Candidate]
  /\ steady \in [Request -> SUBSET Candidate]
  /\ setting \in Settings
  /\ prefers \in [Request -> SUBSET (Candidate \X Candidate)]
  /\ \A r \in Request :
       /\ req[r].pc \in {"circuit", "sent", "streaming"} => req[r].cand \in Candidate
       /\ req[r].pc \in {"scan", "nokey", "cool"} => req[r].at \in DOMAIN req[r].order

Phase(pc) ==
  CASE pc = "idle" -> "waiting"
    [] pc = "refused" -> "refused"
    [] pc \in Ended \ {"refused"} -> "answered"
    [] OTHER -> "trying"

Promise == INSTANCE Failover WITH
  phase <- [r \in Request |-> Phase(req[r].pc)],
  steady <- [r \in Request |-> IF Mode = "priority_failover" THEN steady[r] ELSE {}]

(* In priority_failover the walk over slots, with its stalls, its seen set *)
(* and its two caps, keeps the promise of module Failover: no candidate is *)
(* sent twice, none before a superior one that was usable all along, and a *)
(* request is refused only when every candidate usable all along was tried.*)
(* The other modes promise no order and may stop short (NothingLeftUntried)*)
(* and are only held to the first part.                                    *)
KeepsFailoverPromise == Promise!Spec

(* However requests, probes and operators interleave, they change the      *)
(* health state only as RouterHealth says: what holds of HealthSpec holds  *)
(* of the router under load.                                               *)
RequestsRespectHealth == HealthSpec

(* iter_attempts: "every provider gets a chance before giving up".  In any *)
(* mode a refused request has looked at some candidate of every provider   *)
(* that could have served it all along.                                    *)
EveryProviderConsidered ==
  \A r \in Request : At(r, "refused") =>
    \A c \in steady[r] : \E d \in req[r].seen : Owner[d.key] = Owner[c.key]

(* iter_attempts, on its cap: "every provider+key candidate" gets a chance *)
(* before giving up, so that nothing usable all along is left untried.  In *)
(* priority_failover the promise of Failover contains this; the other      *)
(* modes count slots, not candidates.                                      *)
NothingLeftUntried ==
  \A r \in Request : At(r, "refused") => steady[r] \subseteq tried[r]

(* The compatibility circuit design: repeated failures of one circuit use  *)
(* the rungs of its ladder in turn, so nothing but a success puts it back  *)
(* on the first one.                                                       *)
CircuitLadderClimbs ==
  [][\A c \in Circuit : circuit'[c].fails < circuit[c].fails =>
       \E r \in Request : Serve(r) /\ c = CircuitOf(r, req[r].cand)]_vars

(* No interleaving with other requests, no wrap of the index and no        *)
(* failure of its upstreams keeps a request in the loop for ever.          *)
EveryRequestEnds ==
  \A r \in Request : (req[r].pc \in Working) ~> (req[r].pc \in Ended)

(* A provider that was cooled down comes back, as the router's ladder      *)
(* documentation promises, even if requests for its model never pause.     *)
ProviderReturns == \A p \in Provider : []<>(providerState[p].cooldown = 0)
=============================================================================
