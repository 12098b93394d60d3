---------------------------- MODULE RouterProofs ----------------------------
(***************************************************************************)
(* Requests under load change the health state only in the ways of module  *)
(* RouterHealth, for any number of requests, any fleet, order and mode.    *)
(* What RouterHealthProofs proves of HealthSpec is thus proved of the      *)
(* router as requests drive it.                                            *)
(*                                                                         *)
(* The one thing to know of a request is that whatever it reports on is a  *)
(* candidate: CandidateInHand.                                             *)
(***************************************************************************)
EXTENDS Router, RouterHealthProofs, AttemptOrderProofs

HasCandidate == {"circuit", "sent", "streaming"}

CandidateInHand(local) ==
  /\ {"pc", "cand"} \subseteq DOMAIN local
  /\ local.pc \in HasCandidate => local.cand \in Candidate

RouterInv ==
  /\ req = [r \in Request |-> req[r]]
  /\ \A r \in Request : CandidateInHand(req[r])

-----------------------------------------------------------------------------
(* Leaving the loop, or going on to the next slot, lets go of a candidate. *)
LEMMA IdleHolds ==
  ASSUME NEW pc, pc \notin HasCandidate
  PROVE  CandidateInHand([Idle EXCEPT !.pc = pc])
BY DEF Idle, CandidateInHand

LEMMA RefusingHolds ==
  ASSUME NEW local
  PROVE  CandidateInHand(Refusing(local))
BY DEF Refusing, Idle, CandidateInHand, HasCandidate

LEMMA OnwardHolds ==
  ASSUME NEW local, {"pc", "cand"} \subseteq DOMAIN local
  PROVE  CandidateInHand(Onward(local))
<1> DEFINE moved == [local EXCEPT !.at = NextSlot(local), !.cand = NoCandidate]
<1>1. {"pc", "cand"} \subseteq DOMAIN moved
  OBVIOUS
<1>2. CandidateInHand([moved EXCEPT !.pc = "scan"])
  BY <1>1 DEF CandidateInHand, HasCandidate
<1>3. CandidateInHand(Refusing(moved))
  BY RefusingHolds
<1> QED BY <1>2, <1>3 DEF Onward

LEMMA StalledHolds ==
  ASSUME NEW local, {"pc", "cand"} \subseteq DOMAIN local
  PROVE  CandidateInHand(Stalled(local))
<1> DEFINE counted == [local EXCEPT !.stalls = @ + 1]
<1>1. {"pc", "cand"} \subseteq DOMAIN counted
  OBVIOUS
<1>2. CandidateInHand(Refusing(counted)) /\ CandidateInHand(Onward(counted))
  BY <1>1, RefusingHolds, OnwardHolds
<1> QED BY <1>2 DEF Stalled

LEMMA WithOrderHolds ==
  ASSUME NEW order
  PROVE  CandidateInHand(WithOrder(order))
<1>1. CandidateInHand(Refusing(Idle))
  BY RefusingHolds
<1>2. CandidateInHand([Idle EXCEPT !.pc = "scan", !.order = order])
  BY DEF Idle, CandidateInHand, HasCandidate
<1> QED BY <1>1, <1>2 DEF WithOrder

(* One thread moves, and what it moves to holds its candidate.             *)
LEMMA OneMoves ==
  ASSUME RouterInv, NEW r \in Request, NEW local, CandidateInHand(local), Become(r, local)
  PROVE  RouterInv'
<1>1. req' = [req EXCEPT ![r] = local]
  BY DEF Become
<1>2. req' = [s \in Request |-> IF s = r THEN local ELSE req[s]]
  BY <1>1 DEF RouterInv
<1>3. \A s \in Request : CandidateInHand(req'[s])
  BY <1>2 DEF RouterInv
<1> QED BY <1>2, <1>3 DEF RouterInv

LEMMA ChooseOrderKeeps ==
  ASSUME RouterInv, NEW r \in Request, ChooseOrder(r)
  PROVE  RouterInv'
<1>1. CandidateInHand(req[r])
  BY DEF RouterInv
<1>2. CASE SelectFailover(r)
  BY <1>2, WithOrderHolds, OneMoves DEF SelectFailover
<1>3. CASE SelectShuffled(r)
  BY <1>3, WithOrderHolds, OneMoves DEF SelectShuffled
<1>4. CASE SelectRotating(r)
  <2>1. CandidateInHand([Idle EXCEPT !.pc = "native", !.items = AvailableItems])
    BY DEF Idle, CandidateInHand, HasCandidate
  <2> QED BY <1>4, <2>1, OneMoves DEF SelectRotating
<1>5. CASE RotateNative(r)
  <2> DEFINE visits == Weighted(NativePool(req[r].items))
  <2>1. CandidateInHand([req[r] EXCEPT !.pc = "fallback", !.order = Rotated("native", visits)])
    BY <1>1 DEF CandidateInHand, HasCandidate
  <2> QED BY <1>5, <2>1, OneMoves DEF RotateNative
<1>6. CASE RotateFallback(r)
  BY <1>6, WithOrderHolds, OneMoves DEF RotateFallback
<1> QED BY <1>2, <1>3, <1>4, <1>5, <1>6 DEF ChooseOrder

LEMMA ScanKeeps ==
  ASSUME RouterInv, NEW r \in Request, SelectKey(r) \/ NoKey(r) \/ Cool(r)
  PROVE  RouterInv'
<1>1. CandidateInHand(req[r])
  BY DEF RouterInv
<1>2. CASE SelectKey(r)
  <2> DEFINE looked == [req[r] EXCEPT !.scans = @ + 1,
                          !.seen = @ \cup {c \in SlotCandidates(r) : ~Supported(c)}]
  <2>1. {"pc", "cand"} \subseteq DOMAIN looked
    BY <1>1 DEF CandidateInHand
  <2>2. CandidateInHand([looked EXCEPT !.pc = "nokey"])
    BY <2>1 DEF CandidateInHand, HasCandidate
  <2>3. ASSUME NEW c \in Usable(r)
        PROVE  CandidateInHand([looked EXCEPT !.pc = "circuit", !.cand = c, !.stalls = 0])
    <3>1. c \in Candidate
      BY DEF Usable, SlotCandidates
    <3> QED BY <2>1, <3>1 DEF CandidateInHand
  <2> HIDE DEF looked
  <2>4. \/ Become(r, [looked EXCEPT !.pc = "nokey"])
        \/ \E c \in Usable(r) :
             Become(r, [looked EXCEPT !.pc = "circuit", !.cand = c, !.stalls = 0])
    BY <1>2 DEF SelectKey, looked
  <2> QED BY <2>2, <2>3, <2>4, OneMoves
<1>3. CASE NoKey(r)
  <2>1. CandidateInHand(Stalled(req[r]))
    BY <1>1, StalledHolds DEF CandidateInHand
  <2>2. CandidateInHand([req[r] EXCEPT !.pc = "cool"])
    BY <1>1 DEF CandidateInHand, HasCandidate
  <2> QED BY <1>3, <2>1, <2>2, OneMoves DEF NoKey
<1>4. CASE Cool(r)
  <2>1. CandidateInHand(Stalled(req[r]))
    BY <1>1, StalledHolds DEF CandidateInHand
  <2> QED BY <1>4, <2>1, OneMoves DEF Cool
<1> QED BY <1>2, <1>3, <1>4

LEMMA CheckCircuitKeeps ==
  ASSUME RouterInv, NEW r \in Request, CheckCircuit(r)
  PROVE  RouterInv'
<1> DEFINE judged == [req[r] EXCEPT !.seen = @ \cup {req[r].cand}]
<1>1. CandidateInHand(req[r]) /\ req[r].cand \in Candidate
  BY DEF RouterInv, CandidateInHand, CheckCircuit, At, HasCandidate
<1>2. {"pc", "cand"} \subseteq DOMAIN judged /\ judged.cand \in Candidate
  BY <1>1 DEF CandidateInHand
<1> HIDE DEF judged
<1>3. CandidateInHand(Onward(judged))
  BY <1>2, OnwardHolds
<1>4. CandidateInHand([judged EXCEPT !.pc = "sent", !.attempts = @ + 1])
  BY <1>2 DEF CandidateInHand
<1> QED BY <1>3, <1>4, OneMoves DEF CheckCircuit, judged

LEMMA RespondKeeps ==
  ASSUME RouterInv, NEW r \in Request, Respond(r) \/ Return(r)
  PROVE  RouterInv'
<1>1. CandidateInHand(req[r])
  BY DEF RouterInv
<1>2. CandidateInHand(Onward(req[r])) /\ CandidateInHand(Refusing(req[r]))
  BY <1>1, OnwardHolds, RefusingHolds DEF CandidateInHand
<1>3. ASSUME NEW pc \in Ended, Leave(r, pc) PROVE RouterInv'
  BY <1>3, IdleHolds, OneMoves DEF Leave, Ended, HasCandidate
<1>4. ASSUME NEW rep \in RequestReport, AttemptFails(r, rep) PROVE RouterInv'
  BY <1>2, <1>4, OneMoves DEF AttemptFails
<1>5. CASE ConversionFails(r)
  BY <1>2, <1>5, OneMoves DEF ConversionFails
<1>6. CASE StartStream(r)
  <2>1. req[r].cand \in Candidate
    BY <1>1, <1>6 DEF StartStream, At, CandidateInHand, HasCandidate
  <2>2. CandidateInHand([req[r] EXCEPT !.pc = "streaming"])
    BY <1>1, <2>1 DEF CandidateInHand
  <2>3. Become(r, [req[r] EXCEPT !.pc = "streaming"])
    BY <1>6 DEF StartStream, GoTo, Become
  <2> QED BY <2>2, <2>3, OneMoves
<1>7. CASE Return(r)
  <2>1. CandidateInHand(Idle)
    BY DEF Idle, CandidateInHand, HasCandidate
  <2> QED BY <1>7, <2>1, OneMoves DEF Return
<1> QED BY <1>3, <1>4, <1>5, <1>6, <1>7
        DEF Respond, Serve, StreamBreaks, StreamEndsUnreported, Ended

LEMMA RouterInvKept == RouterInv /\ [RouterNext]_vars => RouterInv'
<1> SUFFICES ASSUME RouterInv, [RouterNext]_vars
             PROVE  RouterInv'
  OBVIOUS
<1>1. ASSUME NEW r \in Request, Step(r) \/ Return(r) PROVE RouterInv'
  BY <1>1, ChooseOrderKeeps, ScanKeeps, CheckCircuitKeeps, RespondKeeps DEF Step
<1>2. CASE UNCHANGED req
  BY <1>2 DEF RouterInv
<1> QED BY <1>1, <1>2 DEF RouterNext, ClockTick, DashboardRead, ProbeSucceeds, ProbeFails,
                          OperatorActs, Interfering, requestVars, vars

LEMMA RouterInvariant == RouterSpec => []RouterInv
<1>1. RouterInit => RouterInv
  BY DEF RouterInit, RouterInv, Idle, CandidateInHand, HasCandidate
<1> QED BY <1>1, RouterInvKept, PTL DEF RouterSpec

-----------------------------------------------------------------------------
(* What a request reports on is one of RouterHealth's circuits.            *)
LEMMA LanesAreLanes ==
  ASSUME NEW r \in Request, NEW c \in Candidate
  PROVE  c.key \in Key /\ LaneOf(r, c) \in Lane /\ CircuitOf(r, c) \in Circuit
BY RequestAssumption DEF Candidate, LaneOf, CircuitOf, Circuit

LEMMA RespondRespectsHealth ==
  ASSUME RouterInv, NEW r \in Request, Respond(r)
  PROVE  HealthNext \/ UNCHANGED healthVars
<1> DEFINE c == req[r].cand
<1>1. CASE ConversionFails(r) \/ StartStream(r) \/ StreamEndsUnreported(r)
  BY <1>1 DEF ConversionFails, StartStream, StreamEndsUnreported
<1>2. CASE ~(ConversionFails(r) \/ StartStream(r) \/ StreamEndsUnreported(r))
  <2>1. c \in Candidate
    BY <1>2 DEF Respond, Serve, AttemptFails, StreamBreaks, At, RouterInv, CandidateInHand, HasCandidate
  <2>2. c.key \in Key /\ LaneOf(r, c) \in Lane
    BY <2>1, LanesAreLanes
  <2>3. CASE Serve(r)
    BY <2>2, <2>3 DEF Serve, HealthNext
  <2>4. ASSUME NEW rep \in RequestReport, AttemptFails(r, rep) PROVE HealthNext
    BY <2>2, <2>4 DEF AttemptFails, HealthNext, Report
  <2>5. CASE StreamBreaks(r)
    <3>1. PlainReport("network_error", 0) \in Report
      BY DEF Report, RequestReport
    <3> QED BY <2>2, <2>5, <3>1 DEF StreamBreaks, HealthNext
  <2> QED BY <1>2, <2>3, <2>4, <2>5 DEF Respond
<1> QED BY <1>1, <1>2

LEMMA RequestRespectsHealth ==
  ASSUME HealthInv, RouterInv, NEW r \in Request, Step(r) \/ Return(r)
  PROVE  HealthNext \/ UNCHANGED healthVars
<1>1. CASE ChooseOrder(r) \/ SelectKey(r) \/ NoKey(r) \/ Return(r)
  BY <1>1 DEF ChooseOrder, SelectFailover, SelectShuffled, SelectRotating, RotateNative,
              RotateFallback, SelectKey, NoKey, Return
<1>2. CASE Cool(r)
  <2> DEFINE p == SlotOf(r).provider
  <2>1. CooldownProvider(p)
    BY <1>2 DEF Cool
  <2>2. CASE p \in Provider
    BY <2>1, <2>2 DEF HealthNext, Housekeeping
  <2>3. CASE p \notin Provider
    <3>1. providerState' = providerState
      BY <2>1, <2>3 DEF CooldownProvider, HealthInv
    <3> QED BY <2>1, <3>1 DEF CooldownProvider, healthVars
  <2> QED BY <2>2, <2>3
<1>3. CASE CheckCircuit(r)
  <2>1. req[r].cand \in Candidate
    BY <1>3 DEF CheckCircuit, At, RouterInv, CandidateInHand, HasCandidate
  <2>2. CircuitOf(r, req[r].cand) \in Circuit
    BY <2>1, LanesAreLanes
  <2> QED BY <1>3, <2>2 DEF CheckCircuit, HealthNext, Housekeeping
<1>4. CASE Respond(r)
  BY <1>4, RespondRespectsHealth
<1> QED BY <1>1, <1>2, <1>3, <1>4 DEF Step

LEMMA RouterStepRespectsHealth ==
  HealthInv /\ RouterInv /\ [RouterNext]_vars => [HealthNext]_healthVars
<1> SUFFICES ASSUME HealthInv, RouterInv, [RouterNext]_vars
             PROVE  HealthNext \/ UNCHANGED healthVars
  OBVIOUS
<1>1. ASSUME NEW r \in Request, Step(r) \/ Return(r)
      PROVE  HealthNext \/ UNCHANGED healthVars
  BY <1>1, RequestRespectsHealth
<1>2. CASE ClockTick \/ DashboardRead \/ OperatorActs
  BY <1>2 DEF ClockTick, DashboardRead, OperatorActs, HealthNext, Housekeeping
<1>3. ASSUME NEW c \in Catalog, ProbeSucceeds(c) \/ ProbeFails(c)
      PROVE  HealthNext
  <2>1. c.key \in Key /\ ProbeLane(c) \in Lane
    BY RequestAssumption DEF Catalog, Candidate, ProbeLane
  <2> QED BY <1>3, <2>1 DEF ProbeSucceeds, ProbeFails, HealthNext, Report
<1>4. CASE UNCHANGED vars
  BY <1>4 DEF vars
<1> QED BY <1>1, <1>2, <1>3, <1>4 DEF RouterNext

(* Every behaviour of the router under requests, probes and operators is a *)
(* behaviour of RouterHealth (Router!RequestsRespectHealth).               *)
THEOREM RouterImplementsHealth == RouterSpec => RequestsRespectHealth
<1>1. RouterInit => HealthInit /\ HealthInv
  BY HealthInvInitially DEF RouterInit
<1>2. HealthInv /\ RouterInv /\ [RouterNext]_vars => HealthInv'
  BY RouterStepRespectsHealth, HealthInvKept
<1>3. RouterSpec => []HealthInv
  BY <1>1, <1>2, RouterInvariant, PTL DEF RouterSpec
<1> QED BY <1>1, <1>3, RouterStepRespectsHealth, RouterInvariant, PTL
        DEF RouterSpec, RequestsRespectHealth, HealthSpec

(* So under load no upstream, however its answers and Retry-After headers  *)
(* interleave, takes anything away for longer than configured, and no key  *)
(* is disabled before its ladder was climbed.                              *)
THEOREM LoadIsBounded == RouterSpec => [](BlocksAreBounded /\ DisabledIsEarned)
BY RouterImplementsHealth, BlocksStayBounded, DisabledKeysEarnedIt, PTL DEF RequestsRespectHealth

-----------------------------------------------------------------------------
(* The walk of a request over its order.  What follows is stated of one    *)
(* thread: its locals, its candidates usable all along (st), those it sent *)
(* upstream (tr) and the preferences it began with (pf).  None of it       *)
(* depends on another thread, so a step of one leaves the others alone but *)
(* for the candidates that stop being usable.                              *)

(* The slot a candidate is tried in.                                       *)
SlotFor(c) == [provider |-> Owner[c.key], format |-> c.format, model |-> c.model]
VisitFor(c) == [provider |-> Owner[c.key], format |-> c.format]
KeyCount(c) == Len(KeyOrder[Owner[c.key]])

OnOrder == {"scan", "nokey", "cool", "circuit", "sent"}

(* What the scans so far have settled on: the candidate at its circuit too.*)
Judged(local) == local.seen \cup (IF local.pc = "circuit" THEN {local.cand} ELSE {})

(* In its first round a walk stands at the slot of its last scan, so the   *)
(* counters never run ahead of the slots it has looked at.                 *)
WalkShape(local) ==
  /\ local.order \in Seq(Slot) /\ local.order # << >>
  /\ local.at \in DOMAIN local.order
  /\ local.pc = "scan" /\ local.scans < Len(local.order) => local.at = local.scans + 1
  /\ local.pc # "scan" => /\ local.scans >= 1
                          /\ local.scans <= Len(local.order) => local.at = local.scans
  /\ local.attempts <= local.scans /\ local.stalls <= local.scans
  /\ local.pc = "circuit" => local.attempts < local.scans
  /\ local.pc \in {"nokey", "cool"} => local.stalls < local.scans
  /\ local.pc \in {"circuit", "sent"} => SlotFor(local.cand) = local.order[local.at]
  /\ local.pc = "circuit" => local.cand \notin local.seen

(* Each candidate has a slot, and a scanned slot a judged candidate of the *)
(* same provider.                                                          *)
Covering(order, scans, judged, st) ==
  /\ \A c \in st : SlotFor(c) \in ToSet(order)
  /\ \A c \in st, p \in DOMAIN order :
       p <= scans /\ order[p] = SlotFor(c) => \E d \in judged : Owner[d.key] = Owner[c.key]

(* In priority_failover a candidate's slot comes as often in a row as its  *)
(* provider has keys.                                                      *)
HasBlock(order, c, b) ==
  \A j \in 1..KeyCount(c) : b + j \in DOMAIN order /\ order[b + j] = SlotFor(c)

(* The keys before that of a candidate that were judged in its slot.       *)
Ahead(judged, c) ==
  {i \in 1..(KeyIndex(c.key) - 1) :
     \E d \in judged : SlotFor(d) = SlotFor(c) /\ KeyIndex(d.key) = i}

(* Every scan of a candidate's block has judged a key before it, while it  *)
(* was not judged itself; and the order puts superior candidates first.    *)
Preferred(order, scans, judged, st, pf) ==
  /\ \A c \in st : \E b \in 0..Len(order) : HasBlock(order, c, b)
  /\ \A c \in st \ judged, b \in 0..Len(order) : HasBlock(order, c, b) =>
       \A j \in 1..KeyCount(c) : b + j <= scans => Cardinality(Ahead(judged, c)) >= j
  /\ \A pair \in pf, p, q \in DOMAIN order :
       order[p] = SlotFor(pair[1]) /\ order[q] = SlotFor(pair[2]) =>
         \/ p < q
         \/ SlotFor(pair[1]) = SlotFor(pair[2]) /\ KeyIndex(pair[1].key) < KeyIndex(pair[2].key)

(* A key is taken before the later keys of its slot.                       *)
FirstKey(local, st) ==
  \A d \in st \ local.seen :
    SlotFor(d) = SlotFor(local.cand) => KeyIndex(local.cand.key) <= KeyIndex(d.key)

WalkInv(local, st, tr, pf, failover) ==
  /\ WalkShape(local)
  /\ Covering(local.order, local.scans, Judged(local), st)
  /\ failover => Preferred(local.order, local.scans, Judged(local), st, pf)
  /\ local.pc = "circuit" => FirstKey(local, st)
  /\ local.seen \cap st \subseteq tr /\ tr \subseteq local.seen

(* Before the order is complete it is the lists of visits that hold the    *)
(* candidates: those that speak the client's format (own) in the first.    *)
ListInv(local, st, own) ==
  /\ \A c \in st : Owner[c.key] \in ToSet(local.items)
  /\ local.pc = "fallback" =>
       /\ local.order \in Seq(Visit)
       /\ \A c \in st : c.format = own => VisitFor(c) \in ToSet(local.order)

RequestInv(local, st, tr, pf, failover, own) ==
  /\ local.pc \in OnOrder => WalkInv(local, st, tr, pf, failover)
  /\ local.pc \in {"native", "fallback"} => ListInv(local, st, own) /\ ~failover
  /\ local.pc = "idle" => st = {}
  /\ local.pc \in {"idle", "native", "fallback"} => tr = {} /\ local.seen = {}
  /\ local.pc \in {"circuit", "sent", "streaming"} => local.cand \in Candidate
  /\ local.pc \in {"sent", "streaming"} => local.cand \in tr
  /\ local.pc = "refused" => \A c \in st : \E d \in local.seen : Owner[d.key] = Owner[c.key]

-----------------------------------------------------------------------------
(* Keys of one slot.                                                       *)
LEMMA KeyIndexOf ==
  ASSUME NEW k \in Key
  PROVE  /\ KeyIndex(k) \in 1..Len(KeyOrder[Owner[k]]) /\ Len(KeyOrder[Owner[k]]) \in Nat
         /\ KeyOrder[Owner[k]][KeyIndex(k)] = k
<1>1. Owner[k] \in Provider
  BY FleetAssumption
<1>2. KeyOrder[Owner[k]] \in Seq(Key) /\ ToSet(KeyOrder[Owner[k]]) = KeysOf(Owner[k])
  BY <1>1, RequestAssumption DEF IsOrder
<1> DEFINE s == KeyOrder[Owner[k]]
<1>3. s \in Seq(Key) /\ k \in ToSet(s)
  BY <1>2 DEF KeysOf
<1>4. KeyIndex(k) = CHOOSE i \in DOMAIN s : s[i] = k
  BY DEF KeyIndex
<1> HIDE DEF s
<1>5. DOMAIN s = 1..Len(s) /\ Len(s) \in Nat
  BY <1>3, LenProperties
<1>6. \E i \in DOMAIN s : s[i] = k
  BY <1>3 DEF ToSet
<1>7. KeyIndex(k) \in DOMAIN s /\ s[KeyIndex(k)] = k
  BY <1>4, <1>6
<1> QED BY <1>5, <1>7 DEF s

LEMMA SlotAndIndexTell ==
  ASSUME NEW c \in Candidate, NEW d \in Candidate, SlotFor(c) = SlotFor(d),
         KeyIndex(c.key) = KeyIndex(d.key)
  PROVE  c = d
<1>1. c.key \in Key /\ d.key \in Key
  BY DEF Candidate
<1>2. Owner[c.key] = Owner[d.key] /\ c.format = d.format /\ c.model = d.model
  BY DEF SlotFor
<1>3. c.key = d.key
  BY <1>1, <1>2, KeyIndexOf
<1> QED BY <1>2, <1>3 DEF Candidate

LEMMA AheadCount ==
  ASSUME NEW judged, NEW c \in Candidate
  PROVE  /\ IsFiniteSet(Ahead(judged, c)) /\ Cardinality(Ahead(judged, c)) \in Nat
         /\ Cardinality(Ahead(judged, c)) < KeyCount(c)
<1> DEFINE n == KeyIndex(c.key) - 1
           I == 1..n
<1>1. n \in Nat /\ n < KeyCount(c) /\ KeyCount(c) \in Nat
  BY KeyIndexOf DEF Candidate, KeyCount
<1>2. Ahead(judged, c) \in SUBSET I
  BY DEF Ahead
<1> HIDE DEF n
<1>3. IsFiniteSet(I) /\ Cardinality(I) = n
  BY <1>1, FS_Interval
<1> HIDE DEF I
<1>4. IsFiniteSet(Ahead(judged, c)) /\ Cardinality(Ahead(judged, c)) <= n
  BY <1>2, <1>3, FS_Subset
<1>5. Cardinality(Ahead(judged, c)) \in Nat
  BY <1>4, FS_CardinalityType
<1> QED BY <1>1, <1>4, <1>5

LEMMA AheadGrows ==
  ASSUME NEW judged, NEW more, judged \subseteq more, NEW c \in Candidate
  PROVE  Cardinality(Ahead(judged, c)) <= Cardinality(Ahead(more, c))
<1>1. Ahead(judged, c) \in SUBSET Ahead(more, c)
  BY DEF Ahead
<1> QED BY <1>1, AheadCount, FS_Subset

LEMMA AheadCounts ==
  ASSUME NEW judged \in SUBSET Candidate, NEW more, NEW c \in Candidate,
         NEW d \in Candidate, judged \subseteq more, d \in more, d \notin judged,
         SlotFor(d) = SlotFor(c), KeyIndex(d.key) < KeyIndex(c.key)
  PROVE  Cardinality(Ahead(more, c)) >= Cardinality(Ahead(judged, c)) + 1
<1> DEFINE i == KeyIndex(d.key)
           A == Ahead(judged, c)
           B == Ahead(more, c)
<1>1. i \in Nat /\ 1 <= i /\ KeyIndex(c.key) \in Nat
  BY KeyIndexOf DEF Candidate
<1>2. i \notin A
  <2> SUFFICES ASSUME i \in A PROVE FALSE
    OBVIOUS
  <2>1. PICK e \in judged : SlotFor(e) = SlotFor(c) /\ KeyIndex(e.key) = i
    BY DEF Ahead
  <2>2. e = d
    BY <2>1, SlotAndIndexTell
  <2> QED BY <2>1, <2>2
<1>3. A \cup {i} \in SUBSET B
  BY <1>1 DEF Ahead
<1> HIDE DEF i
<1>4. IsFiniteSet(A) /\ IsFiniteSet(B) /\ Cardinality(A) \in Nat /\ Cardinality(B) \in Nat
  BY AheadCount
<1> HIDE DEF A, B
<1>5. Cardinality(A \cup {i}) = Cardinality(A) + 1
  BY <1>2, <1>4, FS_AddElement
<1>6. Cardinality(A \cup {i}) <= Cardinality(B)
  BY <1>3, <1>4, FS_Subset
<1> QED BY <1>4, <1>5, <1>6 DEF A, B

(* A candidate whose whole block was scanned has been judged.              *)
LEMMA BlockScanned ==
  ASSUME NEW order, NEW scans \in Nat, NEW judged, NEW st \in SUBSET Candidate, NEW pf,
         Preferred(order, scans, judged, st, pf),
         NEW c \in st, NEW b \in 0..Len(order), HasBlock(order, c, b), b + KeyCount(c) <= scans
  PROVE  c \in judged
<1> SUFFICES ASSUME c \notin judged PROVE FALSE
  OBVIOUS
<1>1. KeyCount(c) \in 1..KeyCount(c)
  BY KeyIndexOf DEF Candidate, KeyCount
<1>2. Cardinality(Ahead(judged, c)) >= KeyCount(c)
  BY <1>1 DEF Preferred
<1>3. /\ Cardinality(Ahead(judged, c)) \in Nat /\ KeyCount(c) \in Nat
      /\ Cardinality(Ahead(judged, c)) < KeyCount(c)
  BY <1>1, AheadCount
<1> QED BY <1>2, <1>3

(* After a whole round nothing usable all along is left.                   *)
LEMMA RoundJudgesAll ==
  ASSUME NEW order \in Seq(Slot), NEW scans \in Nat, NEW judged, NEW st \in SUBSET Candidate,
         NEW pf, Preferred(order, scans, judged, st, pf), scans >= Len(order)
  PROVE  st \subseteq judged
<1> SUFFICES ASSUME NEW c \in st PROVE c \in judged
  OBVIOUS
<1>1. PICK b \in 0..Len(order) : HasBlock(order, c, b)
  BY DEF Preferred
<1>2. KeyCount(c) \in 1..KeyCount(c)
  BY KeyIndexOf DEF Candidate, KeyCount
<1>3. b + KeyCount(c) \in 1..Len(order) /\ Len(order) \in Nat
  BY <1>1, <1>2, LenProperties DEF HasBlock
<1>4. b + KeyCount(c) <= scans
  BY <1>3
<1> QED BY <1>1, <1>4, BlockScanned

LEMMA RoundConsidersAll ==
  ASSUME NEW order \in Seq(Slot), NEW scans \in Nat, NEW judged, NEW st,
         Covering(order, scans, judged, st), scans >= Len(order), NEW c \in st
  PROVE  \E d \in judged : Owner[d.key] = Owner[c.key]
<1>1. PICK p \in DOMAIN order : order[p] = SlotFor(c)
  BY DEF Covering, ToSet
<1>2. p <= scans
  BY LenProperties
<1> QED BY <1>1, <1>2 DEF Covering

-----------------------------------------------------------------------------
(* Going on to the next slot, or giving up.                                *)
LEMMA SettingIs ==
  ASSUME setting \in Settings
  PROVE  /\ OrderSetting /\ MaxAttempts \in Nat /\ MaxInterference \in Nat
         /\ Items \in Seq(Provider) /\ Pool \in Seq(Provider) /\ ToSet(Items) \subseteq ToSet(Pool)
         /\ Priority \in [Provider -> Int] /\ Penalties \subseteq Nat
         /\ FormatPreference \in {"priority_first", "native_first"}
         /\ Mode \in {"priority_failover", "round_robin", "weighted_rr", "random"}
<1>1. IsSetting(setting)
  BY RequestAssumption
<1>2. \A p \in Provider : KeyOrder[p] \in Seq(Key)
  BY RequestAssumption DEF IsOrder
<1> QED BY <1>1, <1>2 DEF IsSetting, IsOrder, OrderSetting, FormatsOf, ModelsOf, FormatOrder,
             Weight, MaxAttempts, MaxInterference, Items, Pool, Priority, Penalties,
             FormatPreference, Mode

(* Between two slots: all that was scanned is seen.                        *)
Settled(local, st, tr, pf, failover) ==
  /\ local \in LocalRecord
  /\ local.order \in Seq(Slot) /\ local.order # << >> /\ local.at \in DOMAIN local.order
  /\ local.scans >= 1 /\ local.attempts <= local.scans /\ local.stalls <= local.scans
  /\ local.scans <= Len(local.order) => local.at = local.scans
  /\ Covering(local.order, local.scans, local.seen, st)
  /\ failover => Preferred(local.order, local.scans, local.seen, st, pf)
  /\ local.seen \cap st \subseteq tr /\ tr \subseteq local.seen

(* What a request goes on with: nothing usable all along is left behind.   *)
WentOn(local, st, tr, pf, failover, own) ==
  /\ local \in LocalRecord
  /\ local.pc \in {"scan", "refused"}
  /\ RequestInv(local, st, tr, pf, failover, own)
  /\ local.pc = "refused" /\ failover => st \subseteq tr

LEMMA LocalFields ==
  ASSUME NEW local \in LocalRecord
  PROVE  /\ local.items \in Seq(Provider) /\ local.order \in Seq(Slot \cup Visit)
         /\ local.at \in Nat /\ local.at >= 1 /\ local.stalls \in Nat /\ local.scans \in Nat
         /\ local.attempts \in Nat /\ local.seen \in SUBSET Candidate
BY DEF LocalRecord

LEMMA IdleIsLocal == Idle \in LocalRecord
<1>1. << >> \in Seq(Provider) /\ << >> \in Seq(Slot \cup Visit)
  OBVIOUS
<1>2. 1 \in Nat \ {0} /\ 0 \in Nat
  OBVIOUS
<1> QED BY <1>1, <1>2 DEF Idle, LocalRecord

LEMMA RefusingWentOn ==
  ASSUME NEW local, NEW st \in SUBSET Candidate, NEW tr, NEW pf, NEW failover \in BOOLEAN, NEW own,
         Settled(local, st, tr, pf, failover), local.scans >= Len(local.order)
  PROVE  WentOn(Refusing(local), st, tr, pf, failover, own)
<1> DEFINE gone == Refusing(local)
<1>1. local \in LocalRecord /\ local.scans \in Nat /\ local.seen \in SUBSET Candidate
  BY LocalFields DEF Settled
<1>2. /\ gone.pc = "refused" /\ gone.seen = local.seen /\ gone \in LocalRecord
  <2>1. Idle \in LocalRecord
    BY IdleIsLocal
  <2> DEFINE ended == [Idle EXCEPT !.pc = "refused"]
  <2>2. ended \in LocalRecord /\ ended.pc = "refused"
    BY <2>1 DEF LocalRecord, Ended
  <2>3. gone = [ended EXCEPT !.seen = local.seen]
    BY DEF Refusing
  <2> HIDE DEF gone, ended
  <2> QED BY <1>1, <2>2, <2>3 DEF LocalRecord
<1> HIDE DEF gone
<1>3. \A c \in st : \E d \in gone.seen : Owner[d.key] = Owner[c.key]
  BY <1>1, <1>2, RoundConsidersAll DEF Settled
<1>4. RequestInv(gone, st, tr, pf, failover, own)
  BY <1>2, <1>3 DEF RequestInv, OnOrder
<1>5. failover => st \subseteq tr
  <2> SUFFICES ASSUME failover PROVE st \subseteq tr
    OBVIOUS
  <2>1. st \subseteq local.seen
    BY <1>1, RoundJudgesAll DEF Settled
  <2> QED BY <2>1 DEF Settled
<1> QED BY <1>2, <1>4, <1>5 DEF WentOn, gone

LEMMA CapIsARound ==
  ASSUME setting \in Settings, NEW local \in LocalRecord, local.order # << >>,
         local.attempts <= local.scans, ~MayScan(local)
  PROVE  local.scans >= Len(local.order)
<1> DEFINE cap == AttemptCap(local)
           n == Len(local.order)
<1>1. local.scans \in Nat /\ local.attempts \in Nat /\ n \in Nat /\ n >= 1
  <2>1. local.order \in Seq(Slot \cup Visit)
    BY LocalFields
  <2> QED BY <2>1, LocalFields, EmptySeq
<1>2. cap \in Nat /\ cap >= n
  BY <1>1, SettingIs DEF AttemptCap, AtLeast
<1>3. local.attempts >= cap \/ local.scans >= cap * n * 2
  <2> HIDE DEF cap, n
  <2>1. ~ (local.attempts < cap /\ local.scans < cap * n * 2)
    BY DEF MayScan, ScanCap, cap, n
  <2> DEFINE most == cap * n * 2
  <2>2. most \in Nat
    BY <1>1, <1>2
  <2> HIDE DEF most
  <2>3. local.attempts >= cap \/ local.scans >= most
    BY <1>1, <1>2, <2>1, <2>2 DEF most
  <2> QED BY <2>3 DEF most
<1> HIDE DEF cap, n
<1>4. ASSUME local.attempts >= cap PROVE local.scans >= n
  BY <1>1, <1>2, <1>4
<1>5. ASSUME local.scans >= cap * n * 2 PROVE local.scans >= n
  <2>1. \A a, b \in Nat : a >= 1 => a * b >= b
    OBVIOUS
  <2>2. cap * n >= n /\ cap * n \in Nat
    BY <1>1, <1>2, <2>1
  <2>3. cap * n * 2 >= n /\ cap * n * 2 \in Nat
    <3> DEFINE m == cap * n
    <3> HIDE DEF m
    <3>1. m \in Nat /\ m >= n
      BY <2>2 DEF m
    <3>2. m * 2 >= n /\ m * 2 \in Nat
      BY <1>1, <3>1
    <3> QED BY <3>2 DEF m
  <2> DEFINE m == cap * n * 2
  <2> HIDE DEF m
  <2>4. m >= n /\ m \in Nat /\ local.scans >= m
    BY <1>5, <2>3 DEF m
  <2>5. local.scans >= n
    BY <1>1, <2>4
  <2> QED BY <2>5
<1>6. local.scans >= n
  BY <1>3, <1>4, <1>5 DEF n
<1> QED BY <1>6 DEF n

LEMMA OnwardWentOn ==
  ASSUME setting \in Settings,
         NEW local, NEW st \in SUBSET Candidate, NEW tr, NEW pf, NEW failover \in BOOLEAN, NEW own,
         Settled(local, st, tr, pf, failover)
  PROVE  WentOn(Onward(local), st, tr, pf, failover, own)
<1> DEFINE moved == [local EXCEPT !.at = NextSlot(local), !.cand = NoCandidate]
<1>1. /\ local \in LocalRecord /\ local.scans \in Nat /\ local.attempts \in Nat
      /\ local.stalls \in Nat /\ local.at \in Nat /\ local.order \in Seq(Slot)
      /\ local.order # << >> /\ local.at \in DOMAIN local.order
  BY LocalFields DEF Settled
<1>2. /\ Len(local.order) \in Nat /\ Len(local.order) >= 1
      /\ DOMAIN local.order = 1..Len(local.order)
  BY <1>1, EmptySeq, LenProperties
<1>3. /\ NextSlot(local) \in DOMAIN local.order /\ NextSlot(local) \in Nat \ {0}
      /\ local.at < Len(local.order) => NextSlot(local) = local.at + 1
      /\ local.at >= Len(local.order) => NextSlot(local) = 1
  BY <1>1, <1>2 DEF NextSlot
<1>4. /\ moved \in LocalRecord /\ moved.at = NextSlot(local) /\ moved.order = local.order
      /\ moved.scans = local.scans /\ moved.seen = local.seen
      /\ moved.attempts = local.attempts /\ moved.stalls = local.stalls
  BY <1>1, <1>3 DEF LocalRecord
<1>5. CASE MayScan(local)
  <2> DEFINE on == [moved EXCEPT !.pc = "scan"]
  <2>1. /\ on \in LocalRecord /\ on.at = NextSlot(local) /\ on.order = local.order
        /\ on.scans = local.scans /\ on.seen = local.seen /\ on.pc = "scan"
        /\ on.attempts = local.attempts /\ on.stalls = local.stalls
    <3> HIDE DEF moved
    <3> QED BY <1>4 DEF LocalRecord, Working
  <2>2. Onward(local) = on
    BY <1>5 DEF Onward
  <2> HIDE DEF on, moved
  <2>3. Judged(on) = local.seen
    BY <2>1 DEF Judged
  <2>4. local.scans < Len(local.order) => NextSlot(local) = local.scans + 1
    BY <1>1, <1>2, <1>3 DEF Settled
  <2>5. WalkShape(on)
    BY <1>1, <1>3, <2>1, <2>4 DEF WalkShape, Settled
  <2>6. WalkInv(on, st, tr, pf, failover)
    BY <2>1, <2>3, <2>5 DEF WalkInv, Settled
  <2>7. RequestInv(on, st, tr, pf, failover, own)
    BY <2>1, <2>6 DEF RequestInv
  <2> QED BY <2>1, <2>2, <2>7 DEF WentOn
<1>6. CASE ~MayScan(local)
  <2>1. Onward(local) = Refusing(moved)
    BY <1>6 DEF Onward
  <2>2. Refusing(moved) = Refusing(local)
    BY <1>4 DEF Refusing
  <2>3. local.scans >= Len(local.order)
    BY <1>1, <1>6, CapIsARound DEF Settled
  <2> QED BY <2>1, <2>2, <2>3, RefusingWentOn
<1> QED BY <1>5, <1>6

LEMMA StalledWentOn ==
  ASSUME setting \in Settings,
         NEW local, NEW st \in SUBSET Candidate, NEW tr, NEW pf, NEW failover \in BOOLEAN, NEW own,
         Settled(local, st, tr, pf, failover), local.stalls < local.scans
  PROVE  WentOn(Stalled(local), st, tr, pf, failover, own)
<1> DEFINE counted == [local EXCEPT !.stalls = @ + 1]
<1>1. /\ local \in LocalRecord /\ local.scans \in Nat /\ local.stalls \in Nat
      /\ local.order \in Seq(Slot)
  BY LocalFields DEF Settled
<1>2. /\ counted \in LocalRecord /\ counted.at = local.at /\ counted.order = local.order
      /\ counted.scans = local.scans /\ counted.seen = local.seen
      /\ counted.attempts = local.attempts /\ counted.stalls = local.stalls + 1
  BY <1>1 DEF LocalRecord
<1> HIDE DEF counted
<1>3. counted.stalls <= counted.scans
  BY <1>1, <1>2
<1>4. Settled(counted, st, tr, pf, failover)
  BY <1>2, <1>3 DEF Settled
<1>5. Stalled(local) = IF counted.stalls >= Len(counted.order) THEN Refusing(counted) ELSE Onward(counted)
  BY DEF Stalled, counted
<1>6. CASE counted.stalls >= Len(counted.order)
  <2>1. counted.scans >= Len(counted.order)
    BY <1>1, <1>2, <1>3, <1>6, LenProperties
  <2> QED BY <1>4, <1>5, <1>6, <2>1, RefusingWentOn
<1>7. CASE ~ counted.stalls >= Len(counted.order)
  BY <1>4, <1>5, <1>7, OnwardWentOn
<1> QED BY <1>6, <1>7

-----------------------------------------------------------------------------
(* One more slot scanned: the position of the scan is new, if any is.      *)
LEMMA ScanCovers ==
  ASSUME NEW order \in Seq(Slot), NEW scans \in Nat, NEW at \in DOMAIN order,
         scans < Len(order) => at = scans + 1,
         NEW seen, NEW judged, seen \subseteq judged, NEW st,
         Covering(order, scans, seen, st),
         \A c \in st : SlotFor(c) = order[at] => \E d \in judged : Owner[d.key] = Owner[c.key]
  PROVE  Covering(order, scans + 1, judged, st)
<1>1. DOMAIN order = 1..Len(order) /\ Len(order) \in Nat
  BY LenProperties
<1>2. ASSUME NEW c \in st, NEW p \in DOMAIN order, p <= scans + 1, order[p] = SlotFor(c)
      PROVE  \E d \in judged : Owner[d.key] = Owner[c.key]
  <2>1. CASE p <= scans
    BY <1>2, <2>1 DEF Covering
  <2>2. CASE ~ p <= scans
    <3>1. p = at
      BY <1>1, <1>2, <2>2
    <3> QED BY <1>2, <3>1
  <2> QED BY <2>1, <2>2
<1> QED BY <1>2 DEF Covering

LEMMA ScanPrefers ==
  ASSUME NEW order \in Seq(Slot), NEW scans \in Nat, NEW at \in DOMAIN order,
         scans < Len(order) => at = scans + 1,
         NEW judged \in SUBSET Candidate, NEW seen \in SUBSET judged, NEW st \in SUBSET Candidate,
         NEW pf, Preferred(order, scans, seen, st, pf),
         \A c \in st \ judged : SlotFor(c) = order[at] =>
           \E d \in judged \ seen : SlotFor(d) = SlotFor(c) /\ KeyIndex(d.key) < KeyIndex(c.key)
  PROVE  Preferred(order, scans + 1, judged, st, pf)
<1>1. DOMAIN order = 1..Len(order) /\ Len(order) \in Nat
  BY LenProperties
<1>2. ASSUME NEW c \in st \ judged, NEW b \in 0..Len(order), HasBlock(order, c, b),
             NEW j \in 1..KeyCount(c), b + j <= scans + 1
      PROVE  Cardinality(Ahead(judged, c)) >= j
  <2>1. c \in st \ seen /\ c \in Candidate
    OBVIOUS
  <2>2. Cardinality(Ahead(seen, c)) \in Nat /\ Cardinality(Ahead(judged, c)) \in Nat
    BY <2>1, AheadCount
  <2>3. Cardinality(Ahead(seen, c)) <= Cardinality(Ahead(judged, c))
    BY <2>1, AheadGrows
  <2>4. \A i \in 1..KeyCount(c) : b + i <= scans => Cardinality(Ahead(seen, c)) >= i
    BY <1>2, <2>1 DEF Preferred
  <2>5. CASE b + j <= scans
    BY <2>2, <2>3, <2>4, <2>5
  <2>6. CASE ~ b + j <= scans
    <3>1. b + j \in DOMAIN order /\ order[b + j] = SlotFor(c)
      BY <1>2 DEF HasBlock
    <3>2. b + j = at /\ b + j = scans + 1
      BY <1>1, <1>2, <2>6, <3>1
    <3>3. PICK d \in judged \ seen : SlotFor(d) = SlotFor(c) /\ KeyIndex(d.key) < KeyIndex(c.key)
      BY <3>1, <3>2
    <3>4. Cardinality(Ahead(judged, c)) >= Cardinality(Ahead(seen, c)) + 1
      BY <2>1, <3>3, AheadCounts
    <3>5. CASE j = 1
      BY <2>2, <3>4, <3>5
    <3>6. CASE j # 1
      <4>1. j - 1 \in 1..KeyCount(c)
        <5>1. KeyCount(c) \in Nat
          BY <2>1, KeyIndexOf DEF Candidate, KeyCount
        <5> QED BY <3>6, <5>1
      <4>2. b + (j - 1) <= scans
        <5>1. \A x, y, z \in Nat : x + y = z + 1 => x + (y - 1) <= z
          OBVIOUS
        <5>2. b \in Nat /\ j \in Nat
          OBVIOUS
        <5> QED BY <3>2, <5>1, <5>2
      <4>3. Cardinality(Ahead(seen, c)) >= j - 1
        BY <2>4, <4>1, <4>2
      <4> QED BY <2>2, <3>4, <4>3
    <3> QED BY <3>5, <3>6
  <2> QED BY <2>5, <2>6
<1> QED BY <1>2 DEF Preferred

-----------------------------------------------------------------------------
(* The invariant of the whole router.                                      *)
InFailover == Mode = "priority_failover"

ThreadInv(r) ==
  /\ RequestInv(req[r], steady[r], tried[r], prefers[r], InFailover, ClientFormat)
  /\ steady[r] \subseteq Ready(r)

FlowTypes ==
  /\ setting \in Settings
  /\ req \in [Request -> LocalRecord]
  /\ rotation \in [{"native", "fallback"} -> Nat]
  /\ interference \in 0..MaxInterference
  /\ tried \in [Request -> SUBSET Candidate]
  /\ steady \in [Request -> SUBSET Candidate]
  /\ prefers \in [Request -> SUBSET (Candidate \X Candidate)]

FlowInv == FlowTypes /\ \A r \in Request : ThreadInv(r)

(* Thread r becomes local, with what it has tried.                         *)
Goes(r, local, tr) ==
  /\ Become(r, local) /\ local \in LocalRecord
  /\ RequestInv(local, steady[r], tr, prefers[r], InFailover, ClientFormat)

(* It goes on or gives up, and then nothing usable all along is untried.   *)
GoesOn(r, local) ==
  /\ Goes(r, local, tried[r])
  /\ \/ local.pc \in Working
     \/ local.pc = "refused" /\ (InFailover => steady[r] \subseteq tried[r])

LEMMA ThreadIs ==
  ASSUME FlowInv, NEW r \in Request
  PROVE  /\ setting \in Settings /\ req[r] \in LocalRecord /\ steady[r] \in SUBSET Candidate
         /\ steady[r] \subseteq Ready(r) /\ tried[r] \in SUBSET Candidate
         /\ prefers[r] \in SUBSET (Candidate \X Candidate)
         /\ RequestInv(req[r], steady[r], tried[r], prefers[r], InFailover, ClientFormat)
         /\ InFailover \in BOOLEAN
BY DEF FlowInv, FlowTypes, ThreadInv, InFailover

LEMMA WentOnGoes ==
  ASSUME NEW r \in Request, NEW local, Become(r, local),
         WentOn(local, steady[r], tried[r], prefers[r], InFailover, ClientFormat)
  PROVE  GoesOn(r, local)
BY DEF GoesOn, Goes, WentOn, Working

LEMMA ScanFinds ==
  ASSUME FlowInv, NEW r \in Request, At(r, "scan")
  PROVE  /\ \A c \in Usable(r) : /\ c \in Candidate \ req[r].seen /\ Supported(c)
                                 /\ SlotFor(c) = SlotOf(r)
         /\ \A c \in steady[r] \ req[r].seen : SlotFor(c) = SlotOf(r) => c \in Usable(r)
<1>1. WalkShape(req[r])
  BY ThreadIs DEF At, RequestInv, OnOrder, WalkInv
<1>2. SlotOf(r) \in Slot
  BY <1>1, ElementOfSeq, LenProperties DEF WalkShape, SlotOf
<1>3. ASSUME NEW c \in Usable(r)
      PROVE  c \in Candidate \ req[r].seen /\ Supported(c) /\ SlotFor(c) = SlotOf(r)
  BY <1>2 DEF Usable, SlotCandidates, SlotFor, Slot
<1>4. ASSUME NEW c \in steady[r] \ req[r].seen, SlotFor(c) = SlotOf(r)
      PROVE  c \in Usable(r)
  <2>1. /\ Owner[c.key] = SlotOf(r).provider /\ c.format = SlotOf(r).format
        /\ c.model = SlotOf(r).model
    BY <1>4 DEF SlotFor
  <2>2. c \in Ready(r) /\ c \in Candidate
    BY ThreadIs
  <2> QED BY <2>1, <2>2 DEF Usable, SlotCandidates, Ready, Catalog
<1> QED BY <1>3, <1>4

LEMMA SelectKeyGoes ==
  ASSUME FlowInv, NEW r \in Request, SelectKey(r)
  PROVE  \E local : Goes(r, local, tried[r]) /\ local.pc \in {"nokey", "circuit"}
<1> DEFINE local == req[r]
           st == steady[r]
           unsupported == {c \in SlotCandidates(r) : ~Supported(c)}
           looked == [local EXCEPT !.scans = @ + 1, !.seen = @ \cup unsupported]
           seen2 == local.seen \cup unsupported
<1>1. /\ local \in LocalRecord /\ local.pc = "scan" /\ st \in SUBSET Candidate
      /\ local.scans \in Nat /\ local.seen \in SUBSET Candidate /\ local.attempts \in Nat
      /\ local.stalls \in Nat
      /\ WalkInv(local, st, tried[r], prefers[r], InFailover)
  BY ThreadIs, LocalFields DEF SelectKey, At, RequestInv, OnOrder
<1>2. /\ local.order \in Seq(Slot) /\ local.at \in DOMAIN local.order
      /\ local.scans < Len(local.order) => local.at = local.scans + 1
      /\ Judged(local) = local.seen
  BY <1>1 DEF WalkInv, WalkShape, Judged
<1>3. unsupported \in SUBSET Candidate /\ \A c \in Usable(r) : c \notin unsupported
  BY ScanFinds DEF SlotCandidates, SelectKey
<1>4. /\ \A c \in Usable(r) : c \in Candidate \ local.seen /\ SlotFor(c) = local.order[local.at]
      /\ \A c \in st \ local.seen : SlotFor(c) = local.order[local.at] => c \in Usable(r)
  BY ScanFinds DEF SelectKey, SlotOf
<1>5. /\ looked \in LocalRecord /\ looked.pc = "scan" /\ looked.order = local.order
      /\ looked.at = local.at /\ looked.scans = local.scans + 1 /\ looked.seen = seen2
      /\ looked.attempts = local.attempts /\ looked.stalls = local.stalls
  <2> DEFINE counted == [local EXCEPT !.scans = @ + 1]
  <2>1. /\ counted \in LocalRecord /\ counted.pc = "scan" /\ counted.order = local.order
        /\ counted.at = local.at /\ counted.scans = local.scans + 1 /\ counted.seen = local.seen
        /\ counted.attempts = local.attempts /\ counted.stalls = local.stalls
    BY <1>1 DEF LocalRecord
  <2>2. looked = [counted EXCEPT !.seen = @ \cup unsupported]
    OBVIOUS
  <2> HIDE DEF counted, looked, unsupported
  <2> QED BY <1>1, <1>3, <2>1, <2>2 DEF LocalRecord
<1>6. seen2 \in SUBSET Candidate /\ local.seen \in SUBSET seen2
  BY <1>1, <1>3
<1>7. \/ Usable(r) = {} /\ Become(r, [looked EXCEPT !.pc = "nokey"])
      \/ \E c \in Usable(r) :
           /\ \A d \in Usable(r) : KeyIndex(c.key) <= KeyIndex(d.key)
           /\ Become(r, [looked EXCEPT !.pc = "circuit", !.cand = c, !.stalls = 0])
  BY DEF SelectKey
<1>8. \A d \in unsupported : d \notin st
  BY ThreadIs DEF Ready, Catalog
<1>9. seen2 \cap st \subseteq tried[r] /\ tried[r] \subseteq seen2
  BY <1>1, <1>8 DEF WalkInv
<1> HIDE DEF looked, unsupported, seen2
<1>10. CASE Usable(r) = {} /\ Become(r, [looked EXCEPT !.pc = "nokey"])
  <2> DEFINE new == [looked EXCEPT !.pc = "nokey"]
  <2>1. /\ new \in LocalRecord /\ new.pc = "nokey" /\ new.order = local.order
        /\ new.at = local.at /\ new.scans = local.scans + 1 /\ new.seen = seen2
        /\ new.attempts = local.attempts /\ new.stalls = local.stalls
    BY <1>5 DEF LocalRecord, Working
  <2> HIDE DEF new
  <2>2. \A c \in st : SlotFor(c) = local.order[local.at] => c \in local.seen
    BY <1>4, <1>10
  <2>3. Covering(local.order, local.scans + 1, seen2, st)
    <3>1. Covering(local.order, local.scans, local.seen, st)
      BY <1>1, <1>2 DEF WalkInv
    <3> QED BY <1>1, <1>2, <1>6, <2>2, <3>1, ScanCovers
  <2>4. InFailover => Preferred(local.order, local.scans + 1, seen2, st, prefers[r])
    <3> SUFFICES ASSUME InFailover PROVE Preferred(local.order, local.scans + 1, seen2, st, prefers[r])
      OBVIOUS
    <3>1. Preferred(local.order, local.scans, local.seen, st, prefers[r])
      BY <1>1, <1>2 DEF WalkInv
    <3>2. \A c \in st \ seen2 : SlotFor(c) # local.order[local.at]
      BY <1>6, <2>2
    <3> QED BY <1>1, <1>2, <1>6, <3>1, <3>2, ScanPrefers
  <2>5. WalkShape(new)
    BY <1>1, <1>2, <2>1, LenProperties DEF WalkInv, WalkShape
  <2>6. Judged(new) = seen2
    BY <2>1 DEF Judged
  <2>7. WalkInv(new, st, tried[r], prefers[r], InFailover)
    BY <1>9, <2>1, <2>3, <2>4, <2>5, <2>6 DEF WalkInv
  <2>8. RequestInv(new, st, tried[r], prefers[r], InFailover, ClientFormat)
    BY <2>1, <2>7 DEF RequestInv
  <2>9. Become(r, new)
    BY <1>10 DEF new
  <2> QED BY <2>1, <2>8, <2>9 DEF Goes
<1>11. ASSUME NEW c \in Usable(r), \A d \in Usable(r) : KeyIndex(c.key) <= KeyIndex(d.key),
              Become(r, [looked EXCEPT !.pc = "circuit", !.cand = c, !.stalls = 0])
       PROVE  \E new : Goes(r, new, tried[r]) /\ new.pc \in {"nokey", "circuit"}
  <2> DEFINE new == [looked EXCEPT !.pc = "circuit", !.cand = c, !.stalls = 0]
             judged == seen2 \cup {c}
  <2>1. c \in Candidate /\ c \notin local.seen /\ c \notin seen2 /\ SlotFor(c) = local.order[local.at]
    BY <1>3, <1>4 DEF seen2
  <2>2. /\ new \in LocalRecord /\ new.pc = "circuit" /\ new.order = local.order
        /\ new.at = local.at /\ new.scans = local.scans + 1 /\ new.seen = seen2
        /\ new.attempts = local.attempts /\ new.stalls = 0 /\ new.cand = c
    BY <1>5, <2>1 DEF LocalRecord, Working
  <2> HIDE DEF new
  <2>3. judged \in SUBSET Candidate /\ local.seen \in SUBSET judged
    BY <1>6, <2>1
  <2> HIDE DEF judged
  <2>4. Covering(local.order, local.scans + 1, judged, st)
    <3>1. Covering(local.order, local.scans, local.seen, st)
      BY <1>1, <1>2 DEF WalkInv
    <3>2. ASSUME NEW d \in st, SlotFor(d) = local.order[local.at]
          PROVE  \E e \in judged : Owner[e.key] = Owner[d.key]
      <4>1. SlotFor(c) = SlotFor(d) /\ c \in judged
        BY <2>1, <3>2 DEF judged
      <4> QED BY <4>1 DEF SlotFor
    <3> QED BY <1>1, <1>2, <2>3, <3>1, <3>2, ScanCovers
  <2>5. \A d \in st \ local.seen : SlotFor(d) = SlotFor(c) => KeyIndex(c.key) <= KeyIndex(d.key)
    BY <1>4, <1>11, <2>1
  <2>6. InFailover => Preferred(local.order, local.scans + 1, judged, st, prefers[r])
    <3> SUFFICES ASSUME InFailover PROVE Preferred(local.order, local.scans + 1, judged, st, prefers[r])
      OBVIOUS
    <3>1. Preferred(local.order, local.scans, local.seen, st, prefers[r])
      BY <1>1, <1>2 DEF WalkInv
    <3>2. ASSUME NEW d \in st \ judged, SlotFor(d) = local.order[local.at]
          PROVE  \E e \in judged \ local.seen : SlotFor(e) = SlotFor(d) /\ KeyIndex(e.key) < KeyIndex(d.key)
      <4>1. SlotFor(c) = SlotFor(d) /\ c \in judged \ local.seen /\ d # c /\ d \in st \ local.seen
            /\ d \in Candidate
        BY <1>1, <2>1, <2>3, <3>2 DEF judged
      <4>2. KeyIndex(c.key) <= KeyIndex(d.key)
        BY <2>5, <4>1
      <4>3. KeyIndex(c.key) # KeyIndex(d.key)
        BY <2>1, <4>1, SlotAndIndexTell
      <4>4. KeyIndex(c.key) \in Nat /\ KeyIndex(d.key) \in Nat
        BY <2>1, <4>1, KeyIndexOf DEF Candidate
      <4> QED BY <4>1, <4>2, <4>3, <4>4
    <3> QED BY <1>1, <1>2, <2>3, <3>1, <3>2, ScanPrefers
  <2>7. WalkShape(new)
    BY <1>1, <1>2, <2>1, <2>2, LenProperties DEF WalkInv, WalkShape
  <2>8. Judged(new) = judged
    BY <2>2 DEF Judged, judged
  <2>9. FirstKey(new, st)
    BY <1>6, <2>2, <2>5 DEF FirstKey
  <2>10. WalkInv(new, st, tried[r], prefers[r], InFailover)
    BY <1>9, <2>2, <2>4, <2>6, <2>7, <2>8, <2>9 DEF WalkInv
  <2>11. RequestInv(new, st, tried[r], prefers[r], InFailover, ClientFormat)
    BY <2>1, <2>2, <2>10 DEF RequestInv
  <2>12. Become(r, new)
    BY <1>11 DEF new
  <2> QED BY <2>2, <2>11, <2>12 DEF Goes
<1> QED BY <1>7, <1>10, <1>11

LEMMA WalkIsSettled ==
  ASSUME NEW local \in LocalRecord, local.pc \in {"nokey", "cool", "sent"}, NEW st, NEW tr, NEW pf,
         NEW failover, WalkInv(local, st, tr, pf, failover)
  PROVE  Settled(local, st, tr, pf, failover)
<1>1. Judged(local) = local.seen
  BY DEF Judged
<1> QED BY <1>1 DEF WalkInv, WalkShape, Settled

LEMMA NoKeyGoes ==
  ASSUME FlowInv, NEW r \in Request, NoKey(r) \/ Cool(r)
  PROVE  \E local : GoesOn(r, local)
<1> DEFINE local == req[r]
           st == steady[r]
<1>1. /\ local \in LocalRecord /\ local.pc \in {"nokey", "cool"} /\ st \in SUBSET Candidate
      /\ WalkInv(local, st, tried[r], prefers[r], InFailover)
      /\ setting \in Settings /\ InFailover \in BOOLEAN
  BY ThreadIs DEF NoKey, Cool, At, RequestInv, OnOrder
<1>2. Settled(local, st, tried[r], prefers[r], InFailover) /\ local.stalls < local.scans
  BY <1>1, WalkIsSettled DEF WalkInv, WalkShape
<1>3. WentOn(Stalled(local), st, tried[r], prefers[r], InFailover, ClientFormat)
  BY <1>1, <1>2, StalledWentOn
<1>4. CASE Become(r, Stalled(local))
  BY <1>3, <1>4, WentOnGoes
<1>5. CASE local.pc = "nokey" /\ Become(r, [local EXCEPT !.pc = "cool"])
  <2> DEFINE new == [local EXCEPT !.pc = "cool"]
  <2>1. /\ new \in LocalRecord /\ new.pc = "cool" /\ new.order = local.order /\ new.at = local.at
        /\ new.scans = local.scans /\ new.seen = local.seen /\ new.cand = local.cand
        /\ new.attempts = local.attempts /\ new.stalls = local.stalls
    BY <1>1 DEF LocalRecord, Working
  <2> HIDE DEF new
  <2>2. Judged(new) = local.seen /\ Judged(local) = local.seen
    BY <1>5, <2>1 DEF Judged
  <2>3. WalkShape(new)
    BY <1>1, <1>5, <2>1 DEF WalkInv, WalkShape
  <2>4. WalkInv(new, st, tried[r], prefers[r], InFailover)
    BY <1>1, <2>1, <2>2, <2>3 DEF WalkInv
  <2>5. RequestInv(new, st, tried[r], prefers[r], InFailover, ClientFormat)
    BY <2>1, <2>4 DEF RequestInv
  <2> QED BY <1>5, <2>1, <2>5 DEF GoesOn, Goes, Working, new
<1> QED BY <1>1, <1>4, <1>5 DEF NoKey, Cool, At

(* When a candidate is sent upstream, the superior ones usable all along   *)
(* have been judged: their blocks lie before its slot.                     *)
LEMMA SuperiorsFirst ==
  ASSUME NEW local \in LocalRecord, local.pc = "circuit", local.cand \in Candidate,
         NEW st \in SUBSET Candidate, NEW tr, NEW pf,
         WalkShape(local), FirstKey(local, st), local.seen \cap st \subseteq tr,
         Preferred(local.order, local.scans, Judged(local), st, pf)
  PROVE  \A d \in st : <<d, local.cand>> \in pf => d \in tr
<1> SUFFICES ASSUME NEW d \in st, <<d, local.cand>> \in pf PROVE d \in tr
  OBVIOUS
<1> DEFINE c == local.cand
           order == local.order
           at == local.at
           scans == local.scans
           judged == Judged(local)
<1>1. /\ order \in Seq(Slot) /\ at \in DOMAIN order /\ scans \in Nat /\ order[at] = SlotFor(c)
      /\ (scans <= Len(order) => at = scans)
      /\ FirstKey(local, st) /\ Preferred(order, scans, judged, st, pf)
      /\ judged = local.seen \cup {c}
      /\ local.seen \cap st \subseteq tr
  BY LocalFields DEF WalkShape, Judged
<1>2. DOMAIN order = 1..Len(order) /\ Len(order) \in Nat /\ at <= scans
  BY <1>1, LenProperties
<1> HIDE DEF order, at, scans, judged
<1>3. ASSUME d \notin local.seen PROVE FALSE
  <2>1. c \in Candidate /\ d \in Candidate
    OBVIOUS
  <2>2. KeyIndex(c.key) \in Nat /\ KeyIndex(d.key) \in Nat
    BY <2>1, KeyIndexOf DEF Candidate
  <2>3. ~ (SlotFor(d) = SlotFor(c) /\ KeyIndex(d.key) < KeyIndex(c.key))
    BY <1>1, <1>3, <2>2 DEF FirstKey
  <2>4. <<d, c>>[1] = d /\ <<d, c>>[2] = c
    OBVIOUS
  <2>5. \A p \in DOMAIN order : order[p] = SlotFor(d) => p < at
    <3>1. \A p, q \in DOMAIN order : order[p] = SlotFor(d) /\ order[q] = SlotFor(c) =>
             p < q \/ (SlotFor(d) = SlotFor(c) /\ KeyIndex(d.key) < KeyIndex(c.key))
      BY <1>1, <2>4 DEF Preferred
    <3> QED BY <1>1, <2>3, <3>1
  <2>6. PICK b \in 0..Len(order) : HasBlock(order, d, b)
    BY <1>1 DEF Preferred
  <2>7. KeyCount(d) \in 1..KeyCount(d) /\ KeyCount(d) \in Nat
    BY <2>1, KeyIndexOf DEF Candidate, KeyCount
  <2>8. b + KeyCount(d) \in DOMAIN order /\ order[b + KeyCount(d)] = SlotFor(d)
    BY <2>6, <2>7 DEF HasBlock
  <2>9. b + KeyCount(d) < at
    BY <2>5, <2>8
  <2>10. b + KeyCount(d) <= scans
    BY <1>1, <1>2, <2>7, <2>9
  <2>11. d \in judged
    BY <1>1, <2>6, <2>10, BlockScanned
  <2>12. d = c
    BY <1>1, <1>3, <2>11
  <2>13. at < at
    BY <1>1, <2>5, <2>12
  <2>14. at \in Nat
    BY <1>1, <1>2
  <2>15. \A x \in Nat : ~ x < x
    OBVIOUS
  <2> QED BY <2>13, <2>14, <2>15
<1> QED BY <1>1, <1>3

SentOn(r, local) ==
  LET c == req[r].cand
  IN  /\ Goes(r, local, tried[r] \cup {c}) /\ local.pc = "sent"
      /\ c \in Candidate \ tried[r]
      /\ InFailover => \A d \in steady[r] : <<d, c>> \in prefers[r] => d \in tried[r]

LEMMA CheckCircuitGoes ==
  ASSUME FlowInv, NEW r \in Request, CheckCircuit(r)
  PROVE  \/ tried' = tried /\ \E local : GoesOn(r, local)
         \/ /\ tried' = [tried EXCEPT ![r] = @ \cup {req[r].cand}]
            /\ \E local : SentOn(r, local)
<1> DEFINE local == req[r]
           st == steady[r]
           c == local.cand
           judged == [local EXCEPT !.seen = @ \cup {c}]
<1>1. /\ local \in LocalRecord /\ local.pc = "circuit" /\ st \in SUBSET Candidate
      /\ WalkInv(local, st, tried[r], prefers[r], InFailover) /\ c \in Candidate
      /\ setting \in Settings /\ InFailover \in BOOLEAN /\ st \subseteq Ready(r)
  BY ThreadIs DEF CheckCircuit, At, RequestInv, OnOrder
<1>2. /\ local.order \in Seq(Slot) /\ local.order # << >> /\ local.at \in DOMAIN local.order
      /\ local.scans >= 1
      /\ local.scans <= Len(local.order) => local.at = local.scans
      /\ local.attempts < local.scans /\ local.stalls <= local.scans
      /\ SlotFor(c) = local.order[local.at] /\ c \notin local.seen
      /\ Judged(local) = local.seen \cup {c}
  BY <1>1 DEF WalkInv, WalkShape, Judged
<1>3. /\ local.scans \in Nat /\ local.attempts \in Nat /\ local.seen \in SUBSET Candidate
  BY <1>1, LocalFields
<1>4. /\ judged \in LocalRecord /\ judged.order = local.order /\ judged.at = local.at
      /\ judged.scans = local.scans /\ judged.seen = local.seen \cup {c}
      /\ judged.attempts = local.attempts /\ judged.stalls = local.stalls /\ judged.cand = c
      /\ judged.pc = "circuit"
  BY <1>1, <1>3 DEF LocalRecord
<1>5. \/ CircuitOpen(CircuitOf(r, c)) /\ Become(r, Onward(judged)) /\ tried' = tried
      \/ /\ Become(r, [judged EXCEPT !.pc = "sent", !.attempts = @ + 1])
         /\ tried' = [tried EXCEPT ![r] = @ \cup {c}]
  BY DEF CheckCircuit
<1> HIDE DEF judged
<1>6. CASE CircuitOpen(CircuitOf(r, c)) /\ Become(r, Onward(judged)) /\ tried' = tried
  <2>1. c \notin st
    BY <1>1, <1>6 DEF Ready
  <2>2. Settled(judged, st, tried[r], prefers[r], InFailover)
    <3>1. judged.seen \cap st \subseteq tried[r] /\ tried[r] \subseteq judged.seen
      BY <1>1, <1>4, <2>1 DEF WalkInv
    <3>2. judged.attempts <= judged.scans
      BY <1>2, <1>3, <1>4
    <3>3. Covering(local.order, local.scans, local.seen \cup {c}, st)
      BY <1>1, <1>2 DEF WalkInv
    <3>4. InFailover => Preferred(local.order, local.scans, local.seen \cup {c}, st, prefers[r])
      BY <1>1, <1>2 DEF WalkInv
    <3>5. judged.stalls <= judged.scans /\ judged.scans >= 1
      BY <1>2, <1>4
    <3>6. judged.scans <= Len(judged.order) => judged.at = judged.scans
      BY <1>2, <1>4
    <3> QED BY <1>2, <1>4, <3>1, <3>2, <3>3, <3>4, <3>5, <3>6 DEF Settled
  <2>3. GoesOn(r, Onward(judged))
    BY <1>1, <1>6, <2>2, OnwardWentOn, WentOnGoes
  <2> QED BY <1>6, <2>3
<1>7. CASE /\ Become(r, [judged EXCEPT !.pc = "sent", !.attempts = @ + 1])
           /\ tried' = [tried EXCEPT ![r] = @ \cup {c}]
  <2> DEFINE new == [judged EXCEPT !.pc = "sent", !.attempts = @ + 1]
             tr == tried[r] \cup {c}
  <2>1. /\ new \in LocalRecord /\ new.order = local.order /\ new.at = local.at
        /\ new.scans = local.scans /\ new.seen = local.seen \cup {c}
        /\ new.attempts = local.attempts + 1 /\ new.stalls = local.stalls /\ new.cand = c
        /\ new.pc = "sent"
    <3> DEFINE sent == [judged EXCEPT !.pc = "sent"]
    <3>1. /\ sent \in LocalRecord /\ sent.order = local.order /\ sent.at = local.at
          /\ sent.scans = local.scans /\ sent.seen = local.seen \cup {c}
          /\ sent.attempts = local.attempts /\ sent.stalls = local.stalls /\ sent.cand = c
          /\ sent.pc = "sent"
      BY <1>4 DEF LocalRecord, Working
    <3> DEFINE more == local.attempts + 1
    <3>2. new = [sent EXCEPT !.attempts = more]
      BY <1>4 DEF LocalRecord
    <3>3. more \in Nat
      BY <1>3
    <3> HIDE DEF sent, new, more
    <3>4. /\ new \in LocalRecord /\ new.order = local.order /\ new.at = local.at
          /\ new.scans = local.scans /\ new.seen = local.seen \cup {c}
          /\ new.attempts = more /\ new.stalls = local.stalls /\ new.cand = c
          /\ new.pc = "sent"
      BY <3>1, <3>2, <3>3 DEF LocalRecord
    <3> QED BY <3>4 DEF more
  <2> HIDE DEF new
  <2>2. new.attempts <= new.scans
    BY <1>2, <1>3, <2>1
  <2>3. WalkShape(new)
    BY <1>2, <2>1, <2>2 DEF WalkShape
  <2>4. Judged(new) = local.seen \cup {c}
    BY <2>1 DEF Judged
  <2>5. new.seen \cap st \subseteq tr /\ tr \subseteq new.seen
    BY <1>1, <2>1 DEF WalkInv
  <2>6. WalkInv(new, st, tr, prefers[r], InFailover)
    BY <1>1, <1>2, <2>1, <2>3, <2>4, <2>5 DEF WalkInv
  <2>7. RequestInv(new, st, tr, prefers[r], InFailover, ClientFormat)
    BY <1>1, <2>1, <2>6 DEF RequestInv
  <2>8. c \notin tried[r]
    BY <1>1, <1>2 DEF WalkInv
  <2>9. InFailover => \A d \in st : <<d, c>> \in prefers[r] => d \in tried[r]
    <3> SUFFICES ASSUME InFailover
                 PROVE  \A d \in st : <<d, c>> \in prefers[r] => d \in tried[r]
      OBVIOUS
    <3>1. /\ WalkShape(local) /\ FirstKey(local, st) /\ local.seen \cap st \subseteq tried[r]
          /\ Preferred(local.order, local.scans, Judged(local), st, prefers[r])
      BY <1>1 DEF WalkInv
    <3> HIDE DEF local, st
    <3> QED BY <1>1, <3>1, SuperiorsFirst DEF c
  <2>10. SentOn(r, new)
    BY <1>1, <1>7, <2>1, <2>7, <2>8, <2>9 DEF SentOn, Goes, new
  <2> QED BY <1>7, <2>10
<1> QED BY <1>5, <1>6, <1>7

-----------------------------------------------------------------------------
(* The upstream answers, fails or breaks off.                              *)
Answered == {"served", "broken", "gone"}

AnswersTo(r, local) ==
  Goes(r, local, tried[r]) /\ local.pc \in Answered /\ tried[r] # {}

LEMMA EndedIsLocal ==
  ASSUME NEW pc \in Ended
  PROVE  /\ [Idle EXCEPT !.pc = pc] \in LocalRecord
         /\ [Idle EXCEPT !.pc = pc].pc = pc
<1>1. Idle \in LocalRecord
  BY IdleIsLocal
<1> QED BY <1>1 DEF LocalRecord

LEMMA RespondGoes ==
  ASSUME FlowInv, NEW r \in Request, Respond(r)
  PROVE  /\ tried' = tried /\ prefers' = prefers
         /\ \E local : GoesOn(r, local) \/ AnswersTo(r, local)
<1> DEFINE local == req[r]
           st == steady[r]
<1>1. /\ local \in LocalRecord /\ local.pc \in {"sent", "streaming"} /\ st \in SUBSET Candidate
      /\ setting \in Settings /\ InFailover \in BOOLEAN
      /\ RequestInv(local, st, tried[r], prefers[r], InFailover, ClientFormat)
  BY ThreadIs DEF Respond, Serve, AttemptFails, ConversionFails, StartStream, StreamBreaks,
                  StreamEndsUnreported, At
<1>2. local.cand \in tried[r] /\ local.cand \in Candidate
  BY <1>1 DEF RequestInv
<1>3. ASSUME local.pc = "sent", Become(r, Onward(local)) PROVE GoesOn(r, Onward(local))
  <2>1. Settled(local, st, tried[r], prefers[r], InFailover)
    BY <1>1, <1>3, WalkIsSettled DEF RequestInv, OnOrder
  <2> QED BY <1>1, <1>3, <2>1, OnwardWentOn, WentOnGoes
<1>4. ASSUME NEW pc \in Answered, Leave(r, pc) PROVE \E new : AnswersTo(r, new)
  <2> DEFINE new == [Idle EXCEPT !.pc = pc]
  <2>1. new \in LocalRecord /\ new.pc = pc
    BY EndedIsLocal DEF Answered, Ended
  <2>2. Become(r, new)
    BY <1>4 DEF Leave
  <2> HIDE DEF new
  <2>3. RequestInv(new, st, tried[r], prefers[r], InFailover, ClientFormat)
    BY <2>1 DEF RequestInv, OnOrder, Answered
  <2>4. AnswersTo(r, new)
    BY <1>2, <2>1, <2>2, <2>3 DEF AnswersTo, Goes
  <2> QED BY <2>4
<1>5. ASSUME local.pc = "sent", Become(r, [local EXCEPT !.pc = "streaming"])
      PROVE  \E new : GoesOn(r, new)
  <2> DEFINE new == [local EXCEPT !.pc = "streaming"]
  <2>1. new \in LocalRecord /\ new.pc = "streaming" /\ new.cand = local.cand
    BY <1>1 DEF LocalRecord, Working
  <2>2. Become(r, new)
    BY <1>5
  <2> HIDE DEF new
  <2>3. RequestInv(new, st, tried[r], prefers[r], InFailover, ClientFormat)
    BY <1>2, <2>1 DEF RequestInv, OnOrder
  <2>4. GoesOn(r, new)
    BY <2>1, <2>2, <2>3 DEF GoesOn, Goes, Working
  <2> QED BY <2>4
<1>6. tried' = tried /\ prefers' = prefers
  BY DEF Respond, Serve, AttemptFails, ConversionFails, StartStream, StreamBreaks,
         StreamEndsUnreported, Local
<1>7. CASE Serve(r) \/ StreamBreaks(r) \/ StreamEndsUnreported(r)
  <2>1. \E pc \in Answered : Leave(r, pc)
    BY <1>7 DEF Serve, StreamBreaks, StreamEndsUnreported, Answered
  <2> QED BY <1>4, <1>6, <2>1
<1>8. ASSUME NEW rep \in RequestReport, AttemptFails(r, rep)
      PROVE  GoesOn(r, Onward(local))
  <2>1. ~Stops(rep)
    BY DEF Stops, StopAttempts
  <2>2. At(r, "sent") /\ Become(r, Onward(local))
    BY <1>8, <2>1 DEF AttemptFails
  <2> QED BY <1>3, <2>2 DEF At
<1>9. CASE ConversionFails(r)
  BY <1>3, <1>6, <1>9 DEF ConversionFails, At
<1>10. CASE StartStream(r)
  BY <1>5, <1>6, <1>10 DEF StartStream, At, GoTo, Become
<1> QED BY <1>6, <1>7, <1>8, <1>9, <1>10 DEF Respond

(* The next request of the same thread.                                    *)
LEMMA ReturnGoes ==
  ASSUME FlowInv, NEW r \in Request, Return(r)
  PROVE  /\ Become(r, Idle) /\ Idle \in LocalRecord /\ Idle.pc = "idle" /\ req[r].pc \in Ended
         /\ tried' = [tried EXCEPT ![r] = {}] /\ prefers' = [prefers EXCEPT ![r] = {}]
         /\ RequestInv(Idle, {}, {}, {}, InFailover, ClientFormat)
<1>1. Idle \in LocalRecord /\ Idle.pc = "idle" /\ Idle.seen = {}
  BY IdleIsLocal DEF Idle
<1>2. RequestInv(Idle, {}, {}, {}, InFailover, ClientFormat)
  BY <1>1 DEF RequestInv, OnOrder
<1> QED BY <1>1, <1>2 DEF Return

(* What stops being usable asks nothing more of a request.                 *)
LEMMA FewerSteady ==
  ASSUME NEW local, NEW st, NEW fewer \in SUBSET st, NEW tr, NEW pf, NEW failover, NEW own,
         RequestInv(local, st, tr, pf, failover, own)
  PROVE  RequestInv(local, fewer, tr, pf, failover, own)
<1>1. ASSUME local.pc \in OnOrder PROVE WalkInv(local, fewer, tr, pf, failover)
  <2>1. WalkInv(local, st, tr, pf, failover)
    BY <1>1 DEF RequestInv
  <2>2. Covering(local.order, local.scans, Judged(local), fewer)
    BY <2>1 DEF WalkInv, Covering
  <2>3. ASSUME Preferred(local.order, local.scans, Judged(local), st, pf)
        PROVE  Preferred(local.order, local.scans, Judged(local), fewer, pf)
    BY <2>3 DEF Preferred
  <2>4. local.pc = "circuit" => FirstKey(local, fewer)
    BY <2>1 DEF WalkInv, FirstKey
  <2>5. local.seen \cap fewer \subseteq tr
    BY <2>1 DEF WalkInv
  <2> QED BY <2>1, <2>2, <2>3, <2>4, <2>5 DEF WalkInv
<1>2. ASSUME local.pc \in {"native", "fallback"} PROVE ListInv(local, fewer, own) /\ ~failover
  <2>1. ListInv(local, st, own) /\ ~failover
    BY <1>2 DEF RequestInv
  <2> QED BY <2>1 DEF ListInv
<1>3. local.pc = "idle" => fewer = {}
  BY DEF RequestInv
<1>4. local.pc = "refused" => \A c \in fewer : \E d \in local.seen : Owner[d.key] = Owner[c.key]
  BY DEF RequestInv
<1> QED BY <1>1, <1>2, <1>3, <1>4 DEF RequestInv

-----------------------------------------------------------------------------
(* A request that begins: its order has a slot, or in priority_failover a  *)
(* block of slots, for every candidate that is ready.                      *)
LEMMA AvailableOfHas ==
  ASSUME NEW items \in Seq(Provider)
  PROVE  /\ AvailableOf(items) \in Seq(Provider)
         /\ ToSet(AvailableOf(items)) = {p \in ToSet(items) : ProviderAvailable(p)}
<1> DEFINE part == [i \in 1..Len(items) |->
                      IF ProviderAvailable(items[i]) THEN <<items[i]>> ELSE << >>]
<1>1. Len(items) \in Nat /\ DOMAIN items = 1..Len(items)
  BY LenProperties
<1>2. AvailableOf(items) = FlattenSeq(part)
  BY <1>1 DEF AvailableOf
<1>3. part \in [1..Len(items) -> Seq(Provider)]
  <2> SUFFICES ASSUME NEW i \in 1..Len(items)
               PROVE  (IF ProviderAvailable(items[i]) THEN <<items[i]>> ELSE << >>) \in Seq(Provider)
    OBVIOUS
  <2>1. items[i] \in Provider
    BY <1>1, ElementOfSeq
  <2> QED BY <2>1
<1>4. \A i \in 1..Len(items) :
        part[i] = IF ProviderAvailable(items[i]) THEN <<items[i]>> ELSE << >>
  OBVIOUS
<1> HIDE DEF part
<1>5. part \in Seq(Seq(Provider)) /\ Len(part) = Len(items)
  BY <1>1, <1>3, FunIsSeq
<1>6. \A i \in 1..Len(items) :
        ToSet(part[i]) = IF ProviderAvailable(items[i]) THEN {items[i]} ELSE {}
  <2>1. \A p : ToSet(<<p>>) = {p}
    BY DEF ToSet
  <2>2. ToSet(<< >>) = {}
    BY DEF ToSet
  <2> QED BY <1>4, <2>1, <2>2
<1>7. \A p : p \in ToSet(FlattenSeq(part)) <=> \E i \in 1..Len(items) : p \in ToSet(part[i])
  BY <1>5, FlattenElements
<1>8. \A p : p \in ToSet(FlattenSeq(part)) <=> p \in {q \in ToSet(items) : ProviderAvailable(q)}
  <2>1. \A q : q \in ToSet(items) <=> \E i \in 1..Len(items) : q = items[i]
    BY <1>1 DEF ToSet
  <2> SUFFICES ASSUME NEW p
               PROVE  p \in ToSet(FlattenSeq(part)) <=> p \in ToSet(items) /\ ProviderAvailable(p)
    OBVIOUS
  <2>2. \A i \in 1..Len(items) :
          p \in ToSet(part[i]) <=> p = items[i] /\ ProviderAvailable(items[i])
    BY <1>6
  <2>3. ASSUME p \in ToSet(FlattenSeq(part)) PROVE p \in ToSet(items) /\ ProviderAvailable(p)
    BY <1>7, <2>1, <2>2, <2>3
  <2>4. ASSUME p \in ToSet(items), ProviderAvailable(p) PROVE p \in ToSet(FlattenSeq(part))
    BY <1>7, <2>1, <2>2, <2>4
  <2> QED BY <2>3, <2>4
<1>9. FlattenSeq(part) \in Seq(Provider)
  BY <1>5, FlattenHasLayout
<1> QED BY <1>2, <1>8, <1>9

LEMMA ItemsOffer ==
  ASSUME setting \in Settings
  PROVE  /\ AvailableItems \in Seq(Provider)
         /\ \A r \in Request : \A c \in Ready(r) : Owner[c.key] \in ToSet(AvailableItems)
<1>1. Items \in Seq(Provider) /\ Pool \in Seq(Provider) /\ << >> \in Seq(Provider)
  BY SettingIs
<1>2. /\ AvailableOf(Items) \in Seq(Provider)
      /\ ToSet(AvailableOf(Items)) = {p \in ToSet(Items) : ProviderAvailable(p)}
  BY <1>1, AvailableOfHas
<1>3. AvailableItems \in Seq(Provider)
  BY <1>1, <1>2 DEF AvailableItems
<1>4. ASSUME NEW r \in Request, NEW c \in Ready(r)
      PROVE  Owner[c.key] \in ToSet(AvailableItems)
  <2>1. Owner[c.key] \in ToSet(AvailableOf(Items))
    BY <1>2 DEF Ready, Catalog
  <2>2. AvailableOf(Items) # << >>
    BY <2>1 DEF ToSet
  <2> QED BY <2>1, <2>2 DEF AvailableItems
<1> QED BY <1>3, <1>4

LEMMA CandidateVisit ==
  ASSUME setting \in Settings, NEW items \in Seq(Provider),
         NEW c \in Catalog, Owner[c.key] \in ToSet(items)
  PROVE  /\ VisitFor(c) \in Visits(items) /\ VisitFor(c) \in Visit /\ Speaks(VisitFor(c))
         /\ NativeFlag(VisitFor(c)) = (IF c.format = ClientFormat THEN 0 ELSE 1)
         /\ \E m \in 1..Len(ModelsOf[VisitFor(c).provider]) :
              SlotFor(c) = SlotOfVisit(VisitFor(c), ModelsOf[VisitFor(c).provider][m])
<1>1. /\ VisitFor(c).provider = Owner[c.key] /\ VisitFor(c).format = c.format
      /\ Owner[c.key] \in Provider
  BY FleetAssumption DEF VisitFor, Catalog, Candidate
<1>2. c.format \in FormatsOf[Owner[c.key]] /\ c.format \in ToSet(FormatOrder)
      /\ c.model \in ToSet(ModelsOf[Owner[c.key]])
  BY DEF Catalog
<1>3. VisitFor(c) \in Visits(items)
  BY <1>2 DEF Visits, VisitFor, ToSet
<1>4. VisitFor(c) \in Visit
  BY <1>3, SettingIs, VisitsAreFinite
<1>5. Speaks(VisitFor(c)) /\ NativeFlag(VisitFor(c)) = (IF c.format = ClientFormat THEN 0 ELSE 1)
  BY <1>1, <1>2 DEF Speaks, NativeFlag
<1>6. ModelsOf[Owner[c.key]] \in Seq(UpstreamModel)
  BY <1>1, SettingIs DEF OrderSetting
<1>7. PICK m \in 1..Len(ModelsOf[Owner[c.key]]) : ModelsOf[Owner[c.key]][m] = c.model
  BY <1>2, <1>6, LenProperties DEF ToSet
<1>8. SlotFor(c) = SlotOfVisit(VisitFor(c), ModelsOf[VisitFor(c).provider][m])
  BY <1>1, <1>7 DEF SlotFor, SlotOfVisit
<1> QED BY <1>1, <1>3, <1>4, <1>5, <1>7, <1>8

(* The walk at its first slot.                                             *)
LEMMA OrderBegins ==
  ASSUME NEW order \in Seq(Slot), NEW st \in SUBSET Candidate, NEW pf,
         NEW failover \in BOOLEAN, NEW own,
         \A c \in st : SlotFor(c) \in ToSet(order),
         failover => Preferred(order, 0, {}, st, pf)
  PROVE  /\ WithOrder(order) \in LocalRecord /\ WithOrder(order).pc \in {"scan", "refused"}
         /\ WithOrder(order).pc = "refused" => st = {}
         /\ RequestInv(WithOrder(order), st, {}, pf, failover, own)
<1>1. Idle \in LocalRecord
  BY IdleIsLocal
<1>2. CASE order = << >>
  <2> DEFINE ended == [Idle EXCEPT !.pc = "refused"]
             new == Refusing(Idle)
  <2>1. ended \in LocalRecord /\ ended.pc = "refused" /\ ended.seen = {} /\ Idle.seen = {}
    BY <1>1 DEF LocalRecord, Ended, Idle
  <2>2. new = [ended EXCEPT !.seen = Idle.seen]
    BY DEF Refusing
  <2> HIDE DEF ended, new
  <2>3. new \in LocalRecord /\ new.pc = "refused"
    BY <2>1, <2>2 DEF LocalRecord
  <2>4. st = {}
    BY <1>2 DEF ToSet
  <2>5. RequestInv(new, st, {}, pf, failover, own)
    BY <2>3, <2>4 DEF RequestInv, OnOrder
  <2>6. WithOrder(order) = new
    BY <1>2 DEF WithOrder, new
  <2> QED BY <2>3, <2>4, <2>5, <2>6
<1>3. CASE order # << >>
  <2> DEFINE scanning == [Idle EXCEPT !.pc = "scan"]
             new == [scanning EXCEPT !.order = order]
  <2>1. /\ scanning \in LocalRecord /\ scanning.pc = "scan" /\ scanning.at = 1
        /\ scanning.scans = 0 /\ scanning.attempts = 0 /\ scanning.stalls = 0
        /\ scanning.seen = {}
    BY <1>1 DEF LocalRecord, Working, Idle
  <2>2. WithOrder(order) = new
    BY <1>3 DEF WithOrder
  <2>3. order \in Seq(Slot \cup Visit)
    OBVIOUS
  <2> HIDE DEF scanning
  <2>4. /\ new \in LocalRecord /\ new.pc = "scan" /\ new.at = 1 /\ new.scans = 0
        /\ new.attempts = 0 /\ new.stalls = 0 /\ new.seen = {} /\ new.order = order
    BY <2>1, <2>3 DEF LocalRecord
  <2> HIDE DEF new
  <2>5. 1 \in DOMAIN order
    BY <1>3, EmptySeq, LenProperties
  <2>6. WalkShape(new)
    BY <1>3, <2>4, <2>5 DEF WalkShape
  <2>7. Judged(new) = {}
    BY <2>4 DEF Judged
  <2>8. \A p \in DOMAIN order : ~ p <= 0
    BY LenProperties
  <2>9. Covering(order, 0, {}, st)
    BY <2>8 DEF Covering
  <2>10. WalkInv(new, st, {}, pf, failover)
    BY <2>4, <2>6, <2>7, <2>9 DEF WalkInv
  <2>11. RequestInv(new, st, {}, pf, failover, own)
    BY <2>4, <2>10 DEF RequestInv
  <2> QED BY <2>2, <2>4, <2>11
<1> QED BY <1>2, <1>3

LEMMA EffectiveIsInt ==
  ASSUME setting \in Settings, NEW prio \in EffectivePriority
  PROVE  prio \in [Provider -> Int]
<1>1. Priority \in [Provider -> Int] /\ Penalties \subseteq Nat
  BY SettingIs
<1>2. PICK penalty \in [Provider -> Penalties] :
        prio = [p \in Provider |-> Priority[p] - penalty[p]]
  BY DEF EffectivePriority
<1>3. ASSUME NEW p \in Provider PROVE Priority[p] - penalty[p] \in Int
  <2>1. penalty[p] \in Penalties
    OBVIOUS
  <2>2. penalty[p] \in Nat
    BY <1>1, <2>1
  <2>3. Priority[p] \in Int
    BY <1>1
  <2> QED BY <2>2, <2>3
<1> QED BY <1>2, <1>3

(* In priority_failover a ready candidate has its block, and superior ones *)
(* come first.                                                             *)
LEMMA FailoverHasBlocks ==
  ASSUME setting \in Settings, NEW items \in Seq(Provider), NEW prio \in EffectivePriority,
         NEW c \in Catalog, Owner[c.key] \in ToSet(items)
  PROVE  LET order == Slots(FailoverVisits(items, prio))
         IN  /\ \E b \in 0..Len(order) : HasBlock(order, c, b)
             /\ SlotFor(c) \in ToSet(order)
<1> DEFINE v == VisitFor(c)
           visits == FailoverVisits(items, prio)
           order == Slots(visits)
           n == KeyCopies(v)
           names == ModelsOf[v.provider]
<1>1. OrderSetting /\ prio \in [Provider -> Int]
  BY SettingIs, EffectiveIsInt
<1>2. v \in Visits(items) /\ v \in Visit /\ Speaks(v)
  BY CandidateVisit
<1>3. PICK m \in 1..Len(names) : SlotFor(c) = SlotOfVisit(v, names[m])
  BY CandidateVisit
<1>4. n \in Nat /\ n >= 1 /\ n >= KeyCount(c)
  <2>1. v.provider = Owner[c.key]
    BY DEF VisitFor
  <2> QED BY <1>1, <1>2, <2>1, KeyCopiesCount DEF KeyCount
<1> HIDE DEF v, n
<1>5. visits \in Seq(Visit)
  BY <1>1, <1>2, FailoverBlocks
<1>6. PICK b0 \in Nat : \A j \in 1..n : b0 + j \in 1..Len(visits) /\ visits[b0 + j] = v
  BY <1>1, <1>2, FailoverBlocks DEF n
<1> HIDE DEF visits
<1>7. PICK b \in Nat : \A j \in 1..n : /\ b + j \in 1..Len(order)
                                       /\ order[b + j] = SlotOfVisit(v, names[m])
  BY <1>1, <1>4, <1>5, <1>6, SlotsBlock
<1>8. order \in Seq(Slot)
  BY <1>1, <1>5, SlotGroupsAre, FlattenHasLayout
<1> HIDE DEF order
<1>9. DOMAIN order = 1..Len(order) /\ Len(order) \in Nat
  BY <1>8, LenProperties
<1>10. KeyCount(c) \in Nat
  BY KeyIndexOf DEF Catalog, Candidate, KeyCount
<1>11. \A j \in 1..KeyCount(c) : j \in 1..n
  BY <1>4, <1>10
<1>12. HasBlock(order, c, b)
  BY <1>3, <1>7, <1>9, <1>11 DEF HasBlock
<1>13. b + 1 \in DOMAIN order /\ order[b + 1] = SlotFor(c)
  BY <1>3, <1>4, <1>7, <1>9
<1>14. b \in 0..Len(order)
  BY <1>9, <1>13
<1>15. SlotFor(c) \in ToSet(order)
  BY <1>13 DEF ToSet
<1> QED BY <1>12, <1>14, <1>15 DEF order, visits

LEMMA SuperiorsRankFirst ==
  ASSUME NEW items \in Seq(Provider), NEW prio \in [Provider -> Int],
         FormatPreference \in {"priority_first", "native_first"},
         NEW c \in Candidate, NEW d \in Candidate, SuperiorTo(prio, c, d)
  PROVE  \/ LexBefore(SortKey(items, prio, VisitFor(c)), SortKey(items, prio, VisitFor(d)))
         \/ SlotFor(c) = SlotFor(d) /\ KeyIndex(c.key) < KeyIndex(d.key)
<1> DEFINE x == SortKey(items, prio, VisitFor(c))
           y == SortKey(items, prio, VisitFor(d))
           pc == prio[Owner[c.key]]
           pd == prio[Owner[d.key]]
           nc == NativeFlag(VisitFor(c))
           nd == NativeFlag(VisitFor(d))
<1>1. pc \in Int /\ pd \in Int
  BY FleetAssumption DEF Candidate
<1>2. /\ nc = (IF OwnFormat(c) THEN 0 ELSE 1) /\ nd = (IF OwnFormat(d) THEN 0 ELSE 1)
      /\ VisitFor(c).provider = Owner[c.key] /\ VisitFor(d).provider = Owner[d.key]
  BY DEF NativeFlag, VisitFor, OwnFormat
<1>3. DOMAIN x = 1..4 /\ DOMAIN y = 1..4
  BY DEF SortKey
<1>4. FormatPreference = "priority_first" => x[1] = -pc /\ y[1] = -pd /\ x[2] = nc /\ y[2] = nd
  BY <1>2 DEF SortKey
<1>5. FormatPreference = "native_first" => x[1] = nc /\ y[1] = nd /\ x[2] = -pc /\ y[2] = -pd
  BY <1>2 DEF SortKey
<1> HIDE DEF x, y
<1>6. ASSUME x[1] < y[1] PROVE LexBefore(x, y)
  BY <1>3, <1>6 DEF LexBefore
<1>7. ASSUME x[1] = y[1], x[2] < y[2] PROVE LexBefore(x, y)
  <2>1. 2 \in DOMAIN x /\ \A j \in 1..(2 - 1) : x[j] = y[j]
    BY <1>3, <1>7
  <2> QED BY <1>7, <2>1 DEF LexBefore
<1>8. (pc > pd => -pc < -pd) /\ (pc = pd => -pc = -pd)
  BY <1>1
<1> HIDE DEF pc, pd, nc, nd
<1>9. Outranks(prio, c, d) <=> pc > pd
  BY DEF Outranks, pc, pd
<1>10. Levels(prio, c, d) <=> pc = pd
  BY DEF Levels, pc, pd
<1>11. CASE FormatPreference = "priority_first"
            /\ (Outranks(prio, c, d) \/ (Levels(prio, c, d) /\ OwnFormat(c) /\ ~OwnFormat(d)))
  <2>1. CASE Outranks(prio, c, d)
    BY <1>4, <1>6, <1>8, <1>9, <1>11, <2>1 DEF x, y
  <2>2. CASE Levels(prio, c, d) /\ OwnFormat(c) /\ ~OwnFormat(d)
    <3>1. nc < nd
      BY <1>2, <2>2
    <3>2. x[1] = y[1]
      BY <1>4, <1>8, <1>10, <1>11, <2>2
    <3> QED BY <1>4, <1>7, <1>11, <3>1, <3>2 DEF x, y
  <2> QED BY <1>11, <2>1, <2>2
<1>12. CASE FormatPreference = "native_first"
            /\ ((OwnFormat(c) /\ ~OwnFormat(d)) \/ (OwnFormat(c) = OwnFormat(d) /\ Outranks(prio, c, d)))
  <2>1. CASE OwnFormat(c) /\ ~OwnFormat(d)
    <3>1. nc < nd
      BY <1>2, <2>1
    <3> QED BY <1>5, <1>6, <1>12, <3>1 DEF x, y
  <2>2. CASE OwnFormat(c) = OwnFormat(d) /\ Outranks(prio, c, d)
    <3>1. nc = nd
      BY <1>2, <2>2
    <3>2. x[1] = y[1]
      BY <1>5, <1>12, <3>1
    <3>3. x[2] < y[2]
      BY <1>5, <1>8, <1>9, <1>12, <2>2
    <3> QED BY <1>7, <3>2, <3>3 DEF x, y
  <2> QED BY <1>12, <2>1, <2>2
<1>13. CASE /\ Owner[c.key] = Owner[d.key] /\ c.format = d.format /\ c.model = d.model
            /\ KeyIndex(c.key) < KeyIndex(d.key)
  BY <1>13 DEF SlotFor
<1> QED BY <1>11, <1>12, <1>13 DEF SuperiorTo

Begins(r, local, pf) ==
  /\ Become(r, local) /\ local \in LocalRecord /\ local.pc \in Working \cup {"refused"}
  /\ pf \in SUBSET (Candidate \X Candidate) /\ prefers' = [prefers EXCEPT ![r] = pf]
  /\ RequestInv(local, Ready(r), {}, pf, InFailover, ClientFormat)
  /\ InFailover /\ local.pc = "refused" => Ready(r) = {}

LEMMA ReadyIs ==
  ASSUME NEW r
  PROVE  Ready(r) \in SUBSET Candidate /\ Ready(r) \in SUBSET Catalog
BY DEF Ready, Catalog

LEMMA FailoverPrefers ==
  ASSUME setting \in Settings, NEW r \in Request, NEW prio \in EffectivePriority
  PROVE  LET order == Slots(FailoverVisits(AvailableItems, prio))
         IN  /\ order \in Seq(Slot)
             /\ \A c \in Ready(r) : SlotFor(c) \in ToSet(order)
             /\ Preferred(order, 0, {}, Ready(r), Preference(prio))
<1> DEFINE items == AvailableItems
           visits == FailoverVisits(items, prio)
           order == Slots(visits)
           pf == Preference(prio)
<1>1. items \in Seq(Provider) /\ \A c \in Ready(r) : Owner[c.key] \in ToSet(items)
  BY ItemsOffer
<1>2. /\ OrderSetting /\ prio \in [Provider -> Int]
      /\ FormatPreference \in {"priority_first", "native_first"}
  BY SettingIs, EffectiveIsInt
<1> HIDE DEF items
<1>3. /\ visits \in Seq(Visit)
      /\ \A i, k \in 1..Len(visits) :
           LexBefore(SortKey(items, prio, visits[i]), SortKey(items, prio, visits[k])) => i < k
  BY <1>1, <1>2, FailoverOrdered
<1>4. \A c \in Ready(r) : /\ \E b \in 0..Len(order) : HasBlock(order, c, b)
                          /\ SlotFor(c) \in ToSet(order)
  <2> SUFFICES ASSUME NEW c \in Ready(r)
               PROVE  /\ \E b \in 0..Len(order) : HasBlock(order, c, b)
                      /\ SlotFor(c) \in ToSet(order)
    OBVIOUS
  <2>1. c \in Catalog
    BY ReadyIs
  <2> QED BY <1>1, <2>1, FailoverHasBlocks
<1> HIDE DEF visits
<1>5. order \in Seq(Slot)
  BY <1>2, <1>3, SlotGroupsAre, FlattenHasLayout
<1>6. DOMAIN order = 1..Len(order) /\ Len(order) \in Nat
  BY <1>5, LenProperties
<1>7. ASSUME NEW pair \in pf, NEW p \in DOMAIN order, NEW q \in DOMAIN order,
             order[p] = SlotFor(pair[1]), order[q] = SlotFor(pair[2])
      PROVE  \/ p < q
             \/ SlotFor(pair[1]) = SlotFor(pair[2]) /\ KeyIndex(pair[1].key) < KeyIndex(pair[2].key)
  <2> DEFINE c == pair[1]
             d == pair[2]
             v == VisitFor(c)
             w == VisitFor(d)
  <2>1. c \in Candidate /\ d \in Candidate /\ SuperiorTo(prio, c, d)
    BY DEF Preference, Catalog, PoolCandidate
  <2>2. \/ LexBefore(SortKey(items, prio, v), SortKey(items, prio, w))
        \/ SlotFor(c) = SlotFor(d) /\ KeyIndex(c.key) < KeyIndex(d.key)
    BY <1>1, <1>2, <2>1, SuperiorsRankFirst
  <2>3. VisitOfSlot(order[p]) = v /\ VisitOfSlot(order[q]) = w
    BY <1>7 DEF VisitOfSlot, SlotFor, VisitFor
  <2>4. CASE LexBefore(SortKey(items, prio, v), SortKey(items, prio, w))
    <3> HIDE DEF v, w, order
    <3>1. \A i, k \in 1..Len(visits) : visits[i] = v /\ visits[k] = w => i < k
      BY <1>3, <2>4
    <3>2. \A i, k \in 1..Len(order) :
            VisitOfSlot(order[i]) = v /\ VisitOfSlot(order[k]) = w => i < k
      BY <1>2, <1>3, <3>1, SlotsOrdered DEF order
    <3> QED BY <1>6, <2>3, <3>2
  <2> QED BY <2>2, <2>4
<1> HIDE DEF order, pf
<1>8. ASSUME NEW c \in Ready(r), NEW b \in 0..Len(order), NEW j \in 1..KeyCount(c)
      PROVE  ~ b + j <= 0
  OBVIOUS
<1>9. Preferred(order, 0, {}, Ready(r), pf)
  BY <1>4, <1>7, <1>8 DEF Preferred
<1> QED BY <1>4, <1>5, <1>9 DEF order, visits, items, pf

LEMMA SelectFailoverBegins ==
  ASSUME FlowInv, NEW r \in Request, SelectFailover(r)
  PROVE  \E local, pf : Begins(r, local, pf)
<1>1. setting \in Settings /\ InFailover
  BY ThreadIs DEF SelectFailover, InFailover
<1>2. PICK prio \in EffectivePriority :
        /\ Become(r, WithOrder(Slots(FailoverVisits(AvailableItems, prio))))
        /\ prefers' = [prefers EXCEPT ![r] = Preference(prio)]
  BY DEF SelectFailover
<1> DEFINE order == Slots(FailoverVisits(AvailableItems, prio))
           pf == Preference(prio)
           st == Ready(r)
           new == WithOrder(order)
<1>3. /\ order \in Seq(Slot) /\ \A c \in st : SlotFor(c) \in ToSet(order)
      /\ Preferred(order, 0, {}, st, pf)
  BY <1>1, FailoverPrefers
<1>4. st \in SUBSET Candidate
  BY ReadyIs
<1>5. pf \in SUBSET (Candidate \X Candidate)
  BY DEF Preference, Catalog, PoolCandidate
<1>6. InFailover \in BOOLEAN
  BY DEF InFailover
<1>7. Become(r, new) /\ prefers' = [prefers EXCEPT ![r] = pf]
  BY <1>2
<1> HIDE DEF order, pf, st
<1>8. /\ new \in LocalRecord /\ new.pc \in {"scan", "refused"}
      /\ new.pc = "refused" => st = {}
      /\ RequestInv(new, st, {}, pf, InFailover, ClientFormat)
  BY <1>3, <1>4, <1>6, OrderBegins
<1>9. Begins(r, new, pf)
  BY <1>5, <1>7, <1>8 DEF Begins, Working, st
<1> QED BY <1>9

(* In the other modes it has a slot, in one of the two lists.              *)
LEMMA ListedSlot ==
  ASSUME setting \in Settings, NEW items \in Seq(Provider), NEW visits \in Seq(Visit),
         NEW c \in Catalog, Owner[c.key] \in ToSet(items), VisitFor(c) \in ToSet(visits)
  PROVE  SlotFor(c) \in ToSet(Slots(visits))
<1> DEFINE v == VisitFor(c)
           order == Slots(visits)
           names == ModelsOf[v.provider]
<1>1. PICK m \in 1..Len(names) : SlotFor(c) = SlotOfVisit(v, names[m])
  BY CandidateVisit
<1> HIDE DEF v
<1>2. PICK i \in DOMAIN visits : visits[i] = v
  BY DEF ToSet, v
<1>3. DOMAIN visits = 1..Len(visits) /\ Len(visits) \in Nat
  BY LenProperties
<1> DEFINE b0 == i - 1
<1>4. b0 \in Nat /\ \A j \in 1..1 : b0 + j = i
  BY <1>3
<1> HIDE DEF b0
<1>5. \A j \in 1..1 : b0 + j \in 1..Len(visits) /\ visits[b0 + j] = v
  BY <1>2, <1>3, <1>4
<1>6. OrderSetting
  BY SettingIs
<1>7. 1 \in Nat /\ 1 >= 1
  OBVIOUS
<1>8. PICK b \in Nat : \A j \in 1..1 : /\ b + j \in 1..Len(order)
                                       /\ order[b + j] = SlotOfVisit(v, names[m])
  BY <1>4, <1>5, <1>6, <1>7, SlotsBlock
<1>9. order \in Seq(Slot)
  BY <1>6, SlotGroupsAre, FlattenHasLayout
<1> HIDE DEF order
<1>10. b + 1 \in DOMAIN order /\ order[b + 1] = SlotFor(c)
  BY <1>1, <1>8, <1>9, LenProperties
<1> QED BY <1>10 DEF ToSet, order

LEMMA ListsHold ==
  ASSUME setting \in Settings, NEW items \in Seq(Provider)
  PROVE  /\ Weighted(NativePool(items)) \in Seq(Visit)
         /\ Weighted(FallbackPool(items)) \in Seq(Visit)
         /\ \A c \in Catalog : Owner[c.key] \in ToSet(items) =>
              VisitFor(c) \in ToSet(Weighted(IF c.format = ClientFormat THEN NativePool(items)
                                             ELSE FallbackPool(items)))
<1>1. OrderSetting
  BY SettingIs
<1>2. \A flag \in {0, 1} :
        /\ PoolOf(items, flag) \in Seq(Visit)
        /\ ToSet(PoolOf(items, flag)) = {v \in Visits(items) : Speaks(v) /\ NativeFlag(v) = flag}
  BY <1>1, PoolHas
<1>3. \A flag \in {0, 1} :
        /\ Weighted(PoolOf(items, flag)) \in Seq(Visit)
        /\ ToSet(Weighted(PoolOf(items, flag))) = ToSet(PoolOf(items, flag))
  BY <1>1, <1>2, WeightedKeeps
<1>4. ASSUME NEW c \in Catalog, Owner[c.key] \in ToSet(items)
      PROVE  VisitFor(c) \in ToSet(Weighted(IF c.format = ClientFormat THEN NativePool(items)
                                            ELSE FallbackPool(items)))
  <2> DEFINE flag == IF c.format = ClientFormat THEN 0 ELSE 1
  <2>1. VisitFor(c) \in Visits(items) /\ Speaks(VisitFor(c)) /\ NativeFlag(VisitFor(c)) = flag
    BY <1>4, CandidateVisit
  <2>2. flag \in {0, 1}
    OBVIOUS
  <2>3. (IF c.format = ClientFormat THEN NativePool(items) ELSE FallbackPool(items))
          = PoolOf(items, flag)
    BY DEF NativePool, FallbackPool
  <2> HIDE DEF flag
  <2>4. VisitFor(c) \in ToSet(Weighted(PoolOf(items, flag)))
    BY <1>2, <1>3, <2>1, <2>2
  <2> QED BY <2>3, <2>4
<1> QED BY <1>3, <1>4 DEF NativePool, FallbackPool

LEMMA JoinedList ==
  ASSUME NEW first \in Seq(Visit), NEW second \in Seq(Visit)
  PROVE  /\ first \o second \in Seq(Visit)
         /\ ToSet(first) \subseteq ToSet(first \o second)
         /\ ToSet(second) \subseteq ToSet(first \o second)
<1> DEFINE s == first \o second
<1>1. /\ s \in Seq(Visit) /\ Len(s) = Len(first) + Len(second)
      /\ Len(first) \in Nat /\ Len(second) \in Nat
      /\ \A i \in 1..Len(s) : s[i] = IF i <= Len(first) THEN first[i] ELSE second[i - Len(first)]
  BY ConcatProperties, LenProperties
<1> HIDE DEF s
<1>2. /\ DOMAIN s = 1..Len(s) /\ DOMAIN first = 1..Len(first)
      /\ DOMAIN second = 1..Len(second)
  BY <1>1, LenProperties
<1>3. ASSUME NEW i \in 1..Len(first) PROVE i \in 1..Len(s) /\ s[i] = first[i]
  BY <1>1
<1>4. ASSUME NEW i \in 1..Len(second) PROVE Len(first) + i \in 1..Len(s) /\ s[Len(first) + i] = second[i]
  <2>1. Len(first) + i \in 1..Len(s) /\ ~ Len(first) + i <= Len(first)
        /\ Len(first) + i - Len(first) = i
    BY <1>1, Shifted
  <2> QED BY <1>1, <2>1
<1>5. ToSet(first) \subseteq ToSet(s)
  BY <1>2, <1>3 DEF ToSet
<1>6. ToSet(second) \subseteq ToSet(s)
  BY <1>2, <1>4 DEF ToSet
<1> QED BY <1>1, <1>5, <1>6 DEF s

(* Two lists that hold the candidates make an order that does.             *)
LEMMA ListsBegin ==
  ASSUME setting \in Settings, ~InFailover, NEW items \in Seq(Provider),
         NEW st \in SUBSET Catalog, \A c \in st : Owner[c.key] \in ToSet(items), NEW pf, NEW own,
         NEW first \in Seq(Visit), NEW second \in Seq(Visit),
         \A c \in st : VisitFor(c) \in ToSet(first) \cup ToSet(second)
  PROVE  LET new == WithOrder(Slots(first \o second))
         IN  /\ new \in LocalRecord /\ new.pc \in {"scan", "refused"}
             /\ RequestInv(new, st, {}, pf, InFailover, own)
<1> DEFINE visits == first \o second
           order == Slots(visits)
<1>1. visits \in Seq(Visit) /\ \A c \in st : VisitFor(c) \in ToSet(visits)
  BY JoinedList
<1> HIDE DEF visits
<1>2. \A c \in st : SlotFor(c) \in ToSet(order)
  BY <1>1, ListedSlot
<1>3. order \in Seq(Slot)
  BY <1>1, SettingIs, SlotGroupsAre, FlattenHasLayout
<1>4. st \in SUBSET Candidate /\ InFailover \in BOOLEAN
  BY DEF Catalog, InFailover
<1> HIDE DEF order
<1> QED BY <1>2, <1>3, <1>4, OrderBegins DEF order, visits

LEMMA SelectOtherBegins ==
  ASSUME FlowInv, NEW r \in Request, SelectShuffled(r) \/ SelectRotating(r)
  PROVE  \E local, pf : Begins(r, local, pf)
<1> DEFINE st == Ready(r)
           items == AvailableItems
           pf == prefers[r]
<1>1. setting \in Settings /\ ~InFailover /\ pf \in SUBSET (Candidate \X Candidate)
  BY ThreadIs DEF SelectShuffled, SelectRotating, InFailover
<1>2. items \in Seq(Provider) /\ \A c \in st : Owner[c.key] \in ToSet(items)
  BY <1>1, ItemsOffer
<1>3. st \in SUBSET Catalog /\ st \in SUBSET Candidate
  BY ReadyIs
<1>4. prefers' = [prefers EXCEPT ![r] = pf]
  <2>1. prefers' = prefers
    BY DEF SelectShuffled, SelectRotating
  <2> QED BY <2>1 DEF FlowInv, FlowTypes
<1>5. CASE SelectShuffled(r)
  <2>1. PICK native \in Shuffles(Weighted(NativePool(items))),
             fallback \in Shuffles(Weighted(FallbackPool(items))) :
               Become(r, WithOrder(Slots(native \o fallback)))
    BY <1>5 DEF SelectShuffled
  <2> HIDE DEF items, st, pf
  <2>2. /\ Weighted(NativePool(items)) \in Seq(Visit)
        /\ Weighted(FallbackPool(items)) \in Seq(Visit)
        /\ \A c \in Catalog : Owner[c.key] \in ToSet(items) =>
             VisitFor(c) \in ToSet(Weighted(IF c.format = ClientFormat THEN NativePool(items)
                                            ELSE FallbackPool(items)))
    BY <1>1, <1>2, ListsHold
  <2>3. /\ native \in Seq(Visit) /\ ToSet(native) = ToSet(Weighted(NativePool(items)))
        /\ fallback \in Seq(Visit) /\ ToSet(fallback) = ToSet(Weighted(FallbackPool(items)))
    BY <2>2, ShufflesKeep
  <2>4. \A c \in st : VisitFor(c) \in ToSet(native) \cup ToSet(fallback)
    BY <1>2, <1>3, <2>2, <2>3
  <2> DEFINE new == WithOrder(Slots(native \o fallback))
  <2>5. /\ new \in LocalRecord /\ new.pc \in {"scan", "refused"}
        /\ RequestInv(new, st, {}, pf, InFailover, ClientFormat)
    BY <1>1, <1>2, <1>3, <2>3, <2>4, ListsBegin
  <2> HIDE DEF new
  <2>6. Begins(r, new, pf)
    BY <1>1, <1>4, <2>1, <2>5 DEF Begins, Working, st, new
  <2> QED BY <2>6
<1>6. CASE SelectRotating(r)
  <2> DEFINE moved == [Idle EXCEPT !.pc = "native"]
             new == [moved EXCEPT !.items = items]
  <2>1. moved \in LocalRecord /\ moved.pc = "native" /\ moved.seen = {}
    BY IdleIsLocal DEF LocalRecord, Working, Idle
  <2>2. Become(r, new)
    BY <1>6 DEF SelectRotating
  <2> HIDE DEF moved, items, st, pf
  <2>3. new \in LocalRecord /\ new.pc = "native" /\ new.seen = {} /\ new.items = items
    BY <1>2, <2>1 DEF LocalRecord
  <2> HIDE DEF new
  <2>4. ListInv(new, st, ClientFormat)
    BY <1>2, <2>3 DEF ListInv
  <2>5. RequestInv(new, st, {}, pf, InFailover, ClientFormat)
    BY <1>1, <2>3, <2>4 DEF RequestInv, OnOrder
  <2>6. Begins(r, new, pf)
    BY <1>1, <1>4, <2>2, <2>3, <2>5 DEF Begins, Working, st
  <2> QED BY <2>6
<1> QED BY <1>5, <1>6

(* The rotating modes complete their order list by list.                   *)
LEMMA RotatedKeeps ==
  ASSUME FlowInv, NEW list \in {"native", "fallback"}, NEW visits \in Seq(Visit)
  PROVE  /\ Rotated(list, visits) \in Seq(Visit)
         /\ ToSet(Rotated(list, visits)) = ToSet(visits)
         /\ Advanced(list, visits) \in [{"native", "fallback"} -> Nat]
<1>1. rotation \in [{"native", "fallback"} -> Nat] /\ rotation[list] \in Nat
  BY DEF FlowInv, FlowTypes
<1>2. CASE visits = << >>
  BY <1>1, <1>2 DEF Rotated, Advanced
<1>3. CASE visits # << >>
  <2> DEFINE n == Len(visits)
             k == rotation[list] % n
             next == (k + 1) % n
  <2>1. n \in Nat /\ n >= 1
    BY <1>3, EmptySeq, LenProperties
  <2> HIDE DEF n
  <2>2. \A a \in Nat : a % n \in 0..n /\ a % n \in Nat
    BY <2>1
  <2>3. k \in 0..n /\ k \in Nat
    BY <1>1, <2>2
  <2> HIDE DEF k
  <2>4. next \in Nat
    BY <2>2, <2>3
  <2> HIDE DEF next
  <2>5. Rotated(list, visits) = Rotate(visits, k)
    BY <1>3 DEF Rotated, k, n
  <2>6. Advanced(list, visits) = [rotation EXCEPT ![list] = next]
    BY <1>3 DEF Advanced, next, k, n
  <2>7. Rotate(visits, k) \in Seq(Visit) /\ ToSet(Rotate(visits, k)) = ToSet(visits)
    BY <2>3, RotateKeeps DEF n
  <2> QED BY <1>1, <2>4, <2>5, <2>6, <2>7
<1> QED BY <1>2, <1>3

LEMMA RotateGoes ==
  ASSUME FlowInv, NEW r \in Request, RotateNative(r) \/ RotateFallback(r)
  PROVE  \E local : GoesOn(r, local)
<1> DEFINE local == req[r]
           st == steady[r]
           items == local.items
           native == Weighted(NativePool(items))
           fallback == Weighted(FallbackPool(items))
<1>1. /\ local \in LocalRecord /\ local.pc \in {"native", "fallback"} /\ setting \in Settings
      /\ ListInv(local, st, ClientFormat) /\ tried[r] = {} /\ local.seen = {} /\ ~InFailover
  BY ThreadIs DEF RotateNative, RotateFallback, At, RequestInv
<1>2. items \in Seq(Provider)
  BY <1>1, LocalFields
<1>3. st \in SUBSET Catalog
  BY ThreadIs, ReadyIs
<1>4. \A c \in st : Owner[c.key] \in ToSet(items)
  BY <1>1 DEF ListInv
<1> HIDE DEF items
<1>5. /\ native \in Seq(Visit) /\ fallback \in Seq(Visit)
      /\ \A c \in st : c.format = ClientFormat => VisitFor(c) \in ToSet(native)
      /\ \A c \in st : c.format # ClientFormat => VisitFor(c) \in ToSet(fallback)
  <2>1. \A c \in Catalog : Owner[c.key] \in ToSet(items) =>
              VisitFor(c) \in ToSet(Weighted(IF c.format = ClientFormat THEN NativePool(items)
                                             ELSE FallbackPool(items)))
    BY <1>1, <1>2, ListsHold
  <2> QED BY <1>1, <1>2, <1>3, <1>4, <2>1, ListsHold
<1> HIDE DEF native, fallback
<1>6. CASE RotateNative(r)
  <2> DEFINE order == Rotated("native", native)
             moved == [local EXCEPT !.pc = "fallback"]
             new == [moved EXCEPT !.order = order]
  <2>1. order \in Seq(Visit) /\ ToSet(order) = ToSet(native)
    BY <1>5, RotatedKeeps
  <2>2. order \in Seq(Slot \cup Visit)
    BY <2>1
  <2>3. Become(r, new)
    BY <1>6 DEF RotateNative, native, items
  <2> HIDE DEF order
  <2>4. moved \in LocalRecord /\ moved.pc = "fallback" /\ moved.seen = {} /\ moved.items = items
    BY <1>1 DEF LocalRecord, Working, items
  <2> HIDE DEF moved
  <2>5. /\ new \in LocalRecord /\ new.pc = "fallback" /\ new.seen = {} /\ new.items = items
        /\ new.order = order
    BY <2>2, <2>4 DEF LocalRecord
  <2> HIDE DEF new
  <2>6. ListInv(new, st, ClientFormat)
    BY <1>4, <1>5, <2>1, <2>5 DEF ListInv
  <2>7. RequestInv(new, st, tried[r], prefers[r], InFailover, ClientFormat)
    BY <1>1, <2>5, <2>6 DEF RequestInv, OnOrder
  <2>8. GoesOn(r, new)
    BY <2>3, <2>5, <2>7 DEF GoesOn, Goes, Working
  <2> QED BY <2>8
<1>7. CASE RotateFallback(r)
  <2> DEFINE first == local.order
             second == Rotated("fallback", fallback)
             new == WithOrder(Slots(first \o second))
  <2>1. second \in Seq(Visit) /\ ToSet(second) = ToSet(fallback)
    BY <1>5, RotatedKeeps
  <2>2. /\ first \in Seq(Visit)
        /\ \A c \in st : c.format = ClientFormat => VisitFor(c) \in ToSet(first)
    BY <1>1, <1>7 DEF RotateFallback, At, ListInv
  <2>3. Become(r, new)
    BY <1>7 DEF RotateFallback, fallback, items
  <2> HIDE DEF first, second, local, st
  <2>4. \A c \in st : VisitFor(c) \in ToSet(first) \cup ToSet(second)
    BY <1>5, <2>1, <2>2
  <2>5. /\ new \in LocalRecord /\ new.pc \in {"scan", "refused"}
        /\ RequestInv(new, st, {}, prefers[r], InFailover, ClientFormat)
    BY <1>1, <1>2, <1>3, <1>4, <2>1, <2>2, <2>4, ListsBegin
  <2> HIDE DEF new
  <2>6. GoesOn(r, new)
    BY <1>1, <2>3, <2>5 DEF GoesOn, Goes, Working, st
  <2> QED BY <2>6
<1> QED BY <1>6, <1>7

-----------------------------------------------------------------------------
(* What a step of a thread comes to.                                       *)
Kept == tried' = tried /\ prefers' = prefers

ThreadBegins(r) ==
  /\ req[r].pc = "idle" /\ UNCHANGED healthVars /\ tried' = tried
  /\ \E local, pf : Begins(r, local, pf)
ThreadGoesOn(r) == req[r].pc \in Working /\ Kept /\ \E local : GoesOn(r, local)
ThreadAnswers(r) == req[r].pc \in Working /\ Kept /\ \E local : AnswersTo(r, local)
ThreadSends(r) ==
  /\ req[r].pc \in Working /\ prefers' = prefers
  /\ tried' = [tried EXCEPT ![r] = @ \cup {req[r].cand}]
  /\ \E local : SentOn(r, local)
ThreadReturns(r) ==
  /\ req[r].pc \in Ended /\ Become(r, Idle)
  /\ tried' = [tried EXCEPT ![r] = {}] /\ prefers' = [prefers EXCEPT ![r] = {}]

ThreadMoves(r) ==
  ThreadBegins(r) \/ ThreadGoesOn(r) \/ ThreadAnswers(r) \/ ThreadSends(r) \/ ThreadReturns(r)

LEMMA StepMoves ==
  ASSUME FlowInv, NEW r \in Request, Step(r) \/ Return(r)
  PROVE  /\ ThreadMoves(r)
         /\ rotation' \in [{"native", "fallback"} -> Nat] /\ interference' = interference
<1>0. rotation \in [{"native", "fallback"} -> Nat]
  BY DEF FlowInv, FlowTypes
<1>1. CASE SelectFailover(r) \/ SelectShuffled(r) \/ SelectRotating(r)
  <2>1. \E local, pf : Begins(r, local, pf)
    BY <1>1, SelectFailoverBegins, SelectOtherBegins
  <2>2. /\ req[r].pc = "idle" /\ UNCHANGED healthVars /\ tried' = tried
        /\ rotation' = rotation /\ interference' = interference
    BY <1>1 DEF SelectFailover, SelectShuffled, SelectRotating, Starts, At
  <2> QED BY <1>0, <2>1, <2>2 DEF ThreadMoves, ThreadBegins
<1>2. CASE RotateNative(r) \/ RotateFallback(r)
  <2>1. \E local : GoesOn(r, local)
    BY <1>2, RotateGoes
  <2>2. req[r].pc \in Working /\ Kept /\ interference' = interference
    BY <1>2 DEF RotateNative, RotateFallback, At, Working, Kept
  <2>3. req[r].items \in Seq(Provider) /\ setting \in Settings
    BY ThreadIs, LocalFields
  <2>4. /\ Weighted(NativePool(req[r].items)) \in Seq(Visit)
        /\ Weighted(FallbackPool(req[r].items)) \in Seq(Visit)
    BY <2>3, ListsHold
  <2>5. rotation' \in [{"native", "fallback"} -> Nat]
    BY <1>2, <2>4, RotatedKeeps DEF RotateNative, RotateFallback
  <2> QED BY <2>1, <2>2, <2>5 DEF ThreadMoves, ThreadGoesOn
<1>3. CASE SelectKey(r) \/ NoKey(r) \/ Cool(r)
  <2>1. \E local : GoesOn(r, local)
    <3>1. ASSUME NEW local, Goes(r, local, tried[r]), local.pc \in {"nokey", "circuit"}
          PROVE  GoesOn(r, local)
      BY <3>1 DEF GoesOn, Working
    <3> QED BY <1>3, <3>1, SelectKeyGoes, NoKeyGoes
  <2>2. /\ req[r].pc \in Working /\ Kept /\ interference' = interference
        /\ rotation' = rotation
    BY <1>3 DEF SelectKey, NoKey, Cool, At, Working, Kept
  <2> QED BY <1>0, <2>1, <2>2 DEF ThreadMoves, ThreadGoesOn
<1>4. CASE CheckCircuit(r)
  <2>1. /\ req[r].pc \in Working /\ prefers' = prefers /\ interference' = interference
        /\ rotation' = rotation
    BY <1>4 DEF CheckCircuit, At, Working
  <2> QED BY <1>0, <1>4, <2>1, CheckCircuitGoes DEF ThreadMoves, ThreadGoesOn, ThreadSends, Kept
<1>5. CASE Respond(r)
  <2>1. /\ req[r].pc \in Working /\ interference' = interference /\ rotation' = rotation
    BY <1>5 DEF Respond, Serve, AttemptFails, ConversionFails, StartStream, StreamBreaks,
                StreamEndsUnreported, Local, At, Working
  <2> QED BY <1>0, <1>5, <2>1, RespondGoes DEF ThreadMoves, ThreadGoesOn, ThreadAnswers, Kept
<1>6. CASE Return(r)
  <2>1. interference' = interference /\ rotation' = rotation
    BY <1>6 DEF Return
  <2> QED BY <1>0, <1>6, <2>1, ReturnGoes DEF ThreadMoves, ThreadReturns
<1> QED BY <1>1, <1>2, <1>3, <1>4, <1>5, <1>6 DEF Step, ChooseOrder

(* The candidates usable all along become fewer, except for the request    *)
(* that begins.                                                            *)
LEMMA BesideKeeps ==
  ASSUME FlowInv, Beside, req' \in [Request -> LocalRecord]
  PROVE  /\ setting' = setting /\ InFailover' = InFailover /\ ClientFormat' = ClientFormat
         /\ steady' \in [Request -> SUBSET Candidate]
         /\ \A r \in Request :
              /\ steady'[r] \subseteq Ready(r)'
              /\ req'[r].pc = "idle" => steady'[r] = {}
              /\ req[r].pc # "idle" => steady'[r] \subseteq steady[r]
<1>1. setting' = setting
  BY DEF Beside
<1>2. InFailover' = InFailover /\ ClientFormat' = ClientFormat
  BY <1>1 DEF InFailover, Mode, ClientFormat
<1>3. steady' = [r \in Request |->
        CASE req'[r].pc = "idle" -> {}
          [] req[r].pc = "idle" /\ req'[r].pc # "idle" -> Ready(r)'
          [] OTHER -> steady[r] \cap Ready(r)']
  BY DEF Beside
<1>4. ASSUME NEW r \in Request
      PROVE  /\ steady'[r] \in SUBSET Candidate
             /\ steady'[r] \subseteq Ready(r)'
             /\ req'[r].pc = "idle" => steady'[r] = {}
             /\ req[r].pc # "idle" => steady'[r] \subseteq steady[r]
  <2>1. steady[r] \in SUBSET Candidate
    BY ThreadIs
  <2>2. Ready(r)' \in SUBSET Candidate
    BY DEF Ready, Catalog
  <2> DEFINE now == Ready(r)'
  <2>3. steady'[r] =
          CASE req'[r].pc = "idle" -> {}
            [] req[r].pc = "idle" /\ req'[r].pc # "idle" -> now
            [] OTHER -> steady[r] \cap now
    BY <1>3
  <2> HIDE DEF now
  <2>4. CASE req'[r].pc = "idle"
    BY <2>3, <2>4
  <2>5. CASE req'[r].pc # "idle" /\ req[r].pc = "idle"
    BY <2>2, <2>3, <2>5 DEF now
  <2>6. CASE req'[r].pc # "idle" /\ req[r].pc # "idle"
    <3>1. steady'[r] = steady[r] \cap now
      BY <2>3, <2>6
    <3> QED BY <2>1, <2>6, <3>1 DEF now
  <2> QED BY <2>4, <2>5, <2>6
<1>5. steady' \in [Request -> SUBSET Candidate]
  BY <1>3, <1>4
<1> QED BY <1>1, <1>2, <1>4, <1>5

LEMMA ThreadKept ==
  ASSUME FlowInv, Beside, req' \in [Request -> LocalRecord], NEW s \in Request, NEW st,
         RequestInv(req'[s], st, tried'[s], prefers'[s], InFailover, ClientFormat),
         steady'[s] \subseteq st
  PROVE  ThreadInv(s)'
<1>1. /\ InFailover' = InFailover /\ ClientFormat' = ClientFormat
      /\ steady'[s] \subseteq Ready(s)'
  BY BesideKeeps
<1>2. RequestInv(req'[s], steady'[s], tried'[s], prefers'[s], InFailover, ClientFormat)
  BY FewerSteady
<1> QED BY <1>1, <1>2 DEF ThreadInv

LEMMA OneGoesKeeps ==
  ASSUME FlowInv, Beside, NEW r \in Request, NEW local \in LocalRecord, Become(r, local),
         NEW tr \in SUBSET Candidate, NEW pf \in SUBSET (Candidate \X Candidate),
         tried' = [tried EXCEPT ![r] = tr], prefers' = [prefers EXCEPT ![r] = pf],
         NEW st, RequestInv(local, st, tr, pf, InFailover, ClientFormat), steady'[r] \subseteq st,
         rotation' \in [{"native", "fallback"} -> Nat], interference' = interference
  PROVE  FlowInv'
<1>1. /\ req \in [Request -> LocalRecord] /\ tried \in [Request -> SUBSET Candidate]
      /\ prefers \in [Request -> SUBSET (Candidate \X Candidate)]
      /\ setting \in Settings /\ interference \in 0..MaxInterference
  BY DEF FlowInv, FlowTypes
<1>2. req' = [req EXCEPT ![r] = local]
  BY DEF Become
<1>3. req' \in [Request -> LocalRecord]
  BY <1>1, <1>2
<1>4. tried' \in [Request -> SUBSET Candidate]
  BY <1>1
<1>5. prefers' \in [Request -> SUBSET (Candidate \X Candidate)]
  BY <1>1
<1>6. req'[r] = local /\ tried'[r] = tr /\ prefers'[r] = pf
  BY <1>1, <1>2
<1>7. \A s \in Request \ {r} :
        req'[s] = req[s] /\ tried'[s] = tried[s] /\ prefers'[s] = prefers[s]
  BY <1>1, <1>2
<1>8. setting' = setting /\ steady' \in [Request -> SUBSET Candidate]
  BY <1>3, BesideKeeps
<1>9. ThreadInv(r)'
  BY <1>3, <1>6, ThreadKept
<1>10. ASSUME NEW s \in Request \ {r} PROVE ThreadInv(s)'
  <2>1. RequestInv(req'[s], steady[s], tried'[s], prefers'[s], InFailover, ClientFormat)
    BY <1>7, ThreadIs
  <2>2. steady'[s] \subseteq steady[s]
    <3>1. req[s].pc = "idle" => req'[s].pc = "idle"
      BY <1>7
    <3> QED BY <1>3, <3>1, BesideKeeps
  <2> QED BY <1>3, <2>1, <2>2, ThreadKept
<1>11. FlowTypes'
  <2>1. interference' \in 0..MaxInterference /\ MaxInterference' = MaxInterference
    BY <1>1, <1>8 DEF MaxInterference
  <2>2. setting' \in Settings
    BY <1>1, <1>8
  <2> QED BY <1>3, <1>4, <1>5, <1>8, <2>1, <2>2 DEF FlowTypes
<1> QED BY <1>9, <1>10, <1>11 DEF FlowInv

LEMMA NoneGoesKeeps ==
  ASSUME FlowInv, Beside, req' = req, tried' = tried, prefers' = prefers, rotation' = rotation,
         interference' \in 0..MaxInterference
  PROVE  FlowInv'
<1>1. /\ req' \in [Request -> LocalRecord] /\ tried' \in [Request -> SUBSET Candidate]
      /\ prefers' \in [Request -> SUBSET (Candidate \X Candidate)]
      /\ setting \in Settings /\ rotation' \in [{"native", "fallback"} -> Nat]
  BY DEF FlowInv, FlowTypes
<1>2. setting' = setting /\ steady' \in [Request -> SUBSET Candidate]
  BY <1>1, BesideKeeps
<1>3. ASSUME NEW s \in Request PROVE ThreadInv(s)'
  <2>1. RequestInv(req'[s], steady[s], tried'[s], prefers'[s], InFailover, ClientFormat)
    BY ThreadIs
  <2>2. steady'[s] \subseteq steady[s]
    BY <1>1, BesideKeeps
  <2> QED BY <1>1, <2>1, <2>2, ThreadKept
<1>4. FlowTypes'
  <2>1. interference' \in (0..MaxInterference)'
    BY <1>2 DEF MaxInterference
  <2>2. setting' \in Settings
    BY <1>1, <1>2
  <2> QED BY <1>1, <1>2, <2>1, <2>2 DEF FlowTypes
<1> QED BY <1>3, <1>4 DEF FlowInv

LEMMA ThreadMovesKeep ==
  ASSUME FlowInv, Beside, NEW r \in Request, ThreadMoves(r),
         rotation' \in [{"native", "fallback"} -> Nat], interference' = interference
  PROVE  FlowInv'
<1>1. /\ req \in [Request -> LocalRecord] /\ tried \in [Request -> SUBSET Candidate]
      /\ prefers \in [Request -> SUBSET (Candidate \X Candidate)]
  BY DEF FlowInv, FlowTypes
<1>2. \A local : local \in LocalRecord /\ Become(r, local) =>
        req' \in [Request -> LocalRecord] /\ req'[r] = local
  BY <1>1 DEF Become
<1>3. tried = [tried EXCEPT ![r] = tried[r]] /\ prefers = [prefers EXCEPT ![r] = prefers[r]]
  BY <1>1
<1>4. /\ tried[r] \in SUBSET Candidate /\ prefers[r] \in SUBSET (Candidate \X Candidate)
  BY ThreadIs
<1>5. CASE ThreadBegins(r)
  <2>1. PICK local, pf : Begins(r, local, pf)
    BY <1>5 DEF ThreadBegins
  <2>2. /\ local \in LocalRecord /\ Become(r, local) /\ pf \in SUBSET (Candidate \X Candidate)
        /\ prefers' = [prefers EXCEPT ![r] = pf]
        /\ RequestInv(local, Ready(r), {}, pf, InFailover, ClientFormat)
    BY <2>1 DEF Begins
  <2>3. steady'[r] \subseteq Ready(r)
    <3>1. setting' = setting /\ steady'[r] \subseteq Ready(r)'
      BY <1>2, <2>2, BesideKeeps
    <3>2. Ready(r)' = Ready(r)
      BY <1>5, <3>1 DEF ThreadBegins, Ready, Catalog, Items, FormatsOf, ModelsOf, FormatOrder,
                        Supported, KeySupports, healthVars, ProviderAvailable, KeyAvailable,
                        CircuitOpen
    <3> QED BY <3>1, <3>2
  <2>4. tried[r] = {}
    BY <1>5, ThreadIs DEF ThreadBegins, RequestInv
  <2>5. tried' = [tried EXCEPT ![r] = {}]
    BY <1>3, <1>5, <2>4 DEF ThreadBegins
  <2> QED BY <2>2, <2>3, <2>5, OneGoesKeeps
<1>6. ASSUME req[r].pc \in Working, NEW local, NEW tr \in SUBSET Candidate, Goes(r, local, tr),
             tried' = [tried EXCEPT ![r] = tr], prefers' = prefers
      PROVE  FlowInv'
  <2>1. /\ local \in LocalRecord /\ Become(r, local)
        /\ RequestInv(local, steady[r], tr, prefers[r], InFailover, ClientFormat)
    BY <1>6 DEF Goes
  <2>2. steady'[r] \subseteq steady[r]
    BY <1>2, <1>6, <2>1, BesideKeeps DEF Working
  <2>3. prefers' = [prefers EXCEPT ![r] = prefers[r]]
    BY <1>3, <1>6
  <2> QED BY <1>4, <1>6, <2>1, <2>2, <2>3, OneGoesKeeps
<1>7. CASE ThreadGoesOn(r) \/ ThreadAnswers(r)
  <2>1. PICK local : Goes(r, local, tried[r])
    BY <1>7 DEF ThreadGoesOn, ThreadAnswers, GoesOn, AnswersTo
  <2> QED BY <1>3, <1>4, <1>6, <1>7, <2>1 DEF ThreadGoesOn, ThreadAnswers, Kept
<1>8. CASE ThreadSends(r)
  <2> DEFINE c == req[r].cand
  <2>1. PICK local : SentOn(r, local)
    BY <1>8 DEF ThreadSends
  <2>2. Goes(r, local, tried[r] \cup {c}) /\ c \in Candidate
    BY <2>1 DEF SentOn
  <2>3. tried[r] \cup {c} \in SUBSET Candidate
    BY <1>4, <2>2
  <2> QED BY <1>6, <1>8, <2>2, <2>3 DEF ThreadSends
<1>9. CASE ThreadReturns(r)
  <2>1. Idle \in LocalRecord /\ Idle.pc = "idle" /\ Idle.seen = {}
    BY IdleIsLocal DEF Idle
  <2>2. RequestInv(Idle, {}, {}, {}, InFailover, ClientFormat)
    BY <2>1 DEF RequestInv, OnOrder
  <2>3. steady'[r] \subseteq {}
    BY <1>2, <1>9, <2>1, BesideKeeps DEF ThreadReturns
  <2>4. {} \in SUBSET Candidate /\ {} \in SUBSET (Candidate \X Candidate)
    OBVIOUS
  <2> QED BY <1>9, <2>1, <2>2, <2>3, <2>4, OneGoesKeeps DEF ThreadReturns
<1> QED BY <1>5, <1>7, <1>8, <1>9 DEF ThreadMoves

LEMMA FlowInitially == RouterInit => FlowInv
<1> SUFFICES ASSUME RouterInit PROVE FlowInv
  OBVIOUS
<1>1. Idle \in LocalRecord /\ Idle.pc = "idle" /\ Idle.seen = {}
  BY IdleIsLocal DEF Idle
<1>2. setting \in Settings
  BY DEF RouterInit
<1>3. interference \in 0..MaxInterference
  BY <1>2, SettingIs DEF RouterInit
<1>4. FlowTypes
  BY <1>1, <1>2, <1>3 DEF RouterInit, FlowTypes
<1>5. ASSUME NEW r \in Request PROVE ThreadInv(r)
  <2>1. RequestInv(Idle, {}, {}, {}, InFailover, ClientFormat)
    BY <1>1 DEF RequestInv, OnOrder
  <2>2. req[r] = Idle /\ steady[r] = {} /\ tried[r] = {} /\ prefers[r] = {}
    BY DEF RouterInit
  <2> QED BY <2>1, <2>2 DEF ThreadInv
<1> QED BY <1>4, <1>5 DEF FlowInv

(* Whoever else touches the health state leaves the threads where they are.*)
NoThreadMoves ==
  req' = req /\ Kept /\ rotation' = rotation /\ interference' \in 0..MaxInterference

LEMMA NextMoves ==
  ASSUME FlowInv, RouterNext
  PROVE  /\ Beside
         /\ \/ NoThreadMoves
            \/ /\ rotation' \in [{"native", "fallback"} -> Nat] /\ interference' = interference
               /\ \E r \in Request : ThreadMoves(r)
<1>1. Beside
  BY DEF RouterNext
<1>2. ASSUME NEW r \in Request, Step(r) \/ Return(r)
      PROVE  /\ rotation' \in [{"native", "fallback"} -> Nat] /\ interference' = interference
             /\ ThreadMoves(r)
  BY <1>2, StepMoves
<1>3. interference \in 0..MaxInterference /\ MaxInterference \in Nat
  BY SettingIs DEF FlowInv, FlowTypes
<1>4. CASE ClockTick \/ DashboardRead
  BY <1>1, <1>3, <1>4 DEF ClockTick, DashboardRead, requestVars, NoThreadMoves, Kept
<1>5. ASSUME Interfering PROVE NoThreadMoves
  <2>1. interference' \in 0..MaxInterference
    BY <1>3, <1>5 DEF Interfering
  <2> QED BY <1>5, <2>1 DEF Interfering, NoThreadMoves, Kept
<1>6. CASE OperatorActs \/ \E c \in Catalog : ProbeSucceeds(c) \/ ProbeFails(c)
  BY <1>1, <1>5, <1>6 DEF OperatorActs, ProbeSucceeds, ProbeFails
<1> QED BY <1>1, <1>2, <1>4, <1>6 DEF RouterNext

LEMMA FlowKept == FlowInv /\ [RouterNext]_vars => FlowInv'
<1> SUFFICES ASSUME FlowInv, [RouterNext]_vars PROVE FlowInv'
  OBVIOUS
<1>1. CASE RouterNext
  <2>1. CASE NoThreadMoves
    BY <1>1, <2>1, NextMoves, NoneGoesKeeps DEF NoThreadMoves, Kept
  <2>2. ASSUME NEW r \in Request, ThreadMoves(r),
               rotation' \in [{"native", "fallback"} -> Nat], interference' = interference
        PROVE  FlowInv'
    BY <1>1, <2>2, NextMoves, ThreadMovesKeep
  <2> QED BY <1>1, <2>1, <2>2, NextMoves
<1>2. CASE UNCHANGED vars
  <2>1. /\ setting' = setting /\ req' = req /\ rotation' = rotation /\ tried' = tried
        /\ interference' = interference /\ steady' = steady /\ prefers' = prefers
        /\ keyState' = keyState /\ providerState' = providerState /\ circuit' = circuit
    BY <1>2 DEF vars, requestVars, historyVars, healthVars
  <2>2. FlowTypes'
    BY <2>1 DEF FlowInv, FlowTypes, MaxInterference
  <2>3. ASSUME NEW r \in Request PROVE ThreadInv(r)'
    <3>1. InFailover' = InFailover /\ ClientFormat' = ClientFormat
      BY <2>1 DEF InFailover, Mode, ClientFormat
    <3>2. Ready(r)' = Ready(r)
      BY <2>1 DEF Ready, Catalog, Items, FormatsOf, ModelsOf, FormatOrder, Supported,
                  KeySupports, ProviderAvailable, KeyAvailable, CircuitOpen
    <3>3. RequestInv(req'[r], steady'[r], tried'[r], prefers'[r], InFailover, ClientFormat)
      BY <2>1, ThreadIs
    <3>4. steady'[r] \subseteq Ready(r)'
      BY <2>1, <3>2, ThreadIs
    <3> QED BY <3>1, <3>3, <3>4 DEF ThreadInv
  <2> QED BY <2>2, <2>3 DEF FlowInv
<1> QED BY <1>1, <1>2

LEMMA FlowInvariant == RouterSpec => []FlowInv
BY FlowInitially, FlowKept, PTL DEF RouterSpec

(* Type correctness of the driver: in particular no walk ever stands beside*)
(* its order, whatever index it wraps and whichever counter it resets.     *)
THEOREM RouterTypeCorrect == RouterSpec => []RouterTypeOK
<1>1. ASSUME FlowInv, HealthTypeOK PROVE RouterTypeOK
  <2>1. ASSUME NEW r \in Request
        PROVE  /\ req[r].pc \in {"circuit", "sent", "streaming"} => req[r].cand \in Candidate
               /\ req[r].pc \in {"scan", "nokey", "cool"} => req[r].at \in DOMAIN req[r].order
    BY <1>1, ThreadIs DEF RequestInv, OnOrder, WalkInv, WalkShape
  <2> QED BY <1>1, <2>1 DEF RouterTypeOK, FlowInv, FlowTypes
<1>2. RouterSpec => []HealthTypeOK
  BY RouterImplementsHealth, TypeCorrect, PTL DEF RequestsRespectHealth
<1> QED BY <1>1, <1>2, FlowInvariant, PTL

(* In every mode a refused request has looked at a candidate of each       *)
(* provider that could have served it all along: neither the cap on        *)
(* attempts nor the run of empty scans ends a walk before its first round. *)
THEOREM ProvidersAreConsidered == RouterSpec => []EveryProviderConsidered
<1>1. ASSUME FlowInv PROVE EveryProviderConsidered
  BY <1>1, ThreadIs DEF RequestInv, EveryProviderConsidered, At
<1> QED BY <1>1, FlowInvariant, PTL

-----------------------------------------------------------------------------
(* The promise of module Failover, kept step by step.                      *)
PhaseOf == [r \in Request |-> Phase(req[r].pc)]
SteadyOf == [r \in Request |-> IF Mode = "priority_failover" THEN steady[r] ELSE {}]

LEMMA PhaseIs ==
  /\ Phase("idle") = "waiting" /\ Phase("refused") = "refused"
  /\ \A pc \in Answered : Phase(pc) = "answered"
  /\ \A pc \in Working : Phase(pc) = "trying"
<1>1. Phase("idle") = "waiting"
  BY DEF Phase, Ended
<1>2. Phase("refused") = "refused"
  BY DEF Phase, Ended
<1>3. \A pc \in Answered : Phase(pc) = "answered"
  BY DEF Phase, Answered, Ended
<1>4. \A pc \in Working : Phase(pc) = "trying"
  BY DEF Phase, Working, Ended
<1> QED BY <1>1, <1>2, <1>3, <1>4

LEMMA PhaseMoves ==
  ASSUME req \in [Request -> LocalRecord], NEW r \in Request, NEW local, Become(r, local)
  PROVE  /\ PhaseOf' = [PhaseOf EXCEPT ![r] = Phase(local.pc)]
         /\ PhaseOf[r] = Phase(req[r].pc)
<1>1. req' = [req EXCEPT ![r] = local]
  BY DEF Become
<1>2. \A s \in Request : req'[s] = IF s = r THEN local ELSE req[s]
  BY <1>1
<1>3. PhaseOf' = [s \in Request |-> Phase(req'[s].pc)]
  BY DEF PhaseOf, Phase
<1>4. \A s \in Request : Phase(req'[s].pc) = IF s = r THEN Phase(local.pc) ELSE Phase(req[s].pc)
  BY <1>2
<1> QED BY <1>3, <1>4 DEF PhaseOf

LEMMA SteadyShrinks ==
  ASSUME FlowInv, Beside, req' \in [Request -> LocalRecord],
         NEW s \in Request, req[s].pc # "idle" \/ req'[s].pc = "idle"
  PROVE  SteadyOf'[s] \subseteq SteadyOf[s]
<1>1. Mode' = Mode /\ steady'[s] \subseteq steady[s]
  BY BesideKeeps DEF Mode
<1> QED BY <1>1 DEF SteadyOf

LEMMA BeginRefines ==
  ASSUME FlowInv, Beside, NEW r \in Request, ThreadBegins(r)
  PROVE  Promise!Begin(r)
<1>1. PICK local, pf : Begins(r, local, pf)
  BY DEF ThreadBegins
<1>2. /\ local \in LocalRecord /\ Become(r, local) /\ pf \in SUBSET (Candidate \X Candidate)
      /\ prefers' = [prefers EXCEPT ![r] = pf] /\ local.pc \in Working \cup {"refused"}
      /\ InFailover /\ local.pc = "refused" => Ready(r) = {}
  BY <1>1 DEF Begins
<1>3. /\ req \in [Request -> LocalRecord] /\ steady \in [Request -> SUBSET Candidate]
      /\ prefers \in [Request -> SUBSET (Candidate \X Candidate)]
  BY DEF FlowInv, FlowTypes
<1>4. req' \in [Request -> LocalRecord] /\ \A s \in Request \ {r} : req'[s] = req[s]
  BY <1>2, <1>3 DEF Become
<1>5. /\ setting' = setting /\ steady'[r] \subseteq Ready(r)' /\ Mode' = Mode
      /\ steady'[r] \in SUBSET Candidate
  BY <1>4, BesideKeeps DEF Mode
<1>6. Ready(r)' = Ready(r)
  BY <1>5 DEF ThreadBegins, Ready, Catalog, Items, FormatsOf, ModelsOf, FormatOrder,
              Supported, KeySupports, healthVars, ProviderAvailable, KeyAvailable, CircuitOpen
<1>7. PhaseOf[r] = "waiting"
  BY <1>2, <1>3, PhaseIs, PhaseMoves DEF ThreadBegins
<1>8. prefers'[r] = pf
  BY <1>2, <1>3
<1>9. SteadyOf'[r] \subseteq Candidate /\ (local.pc = "refused" => SteadyOf'[r] = {})
  BY <1>2, <1>5, <1>6 DEF SteadyOf, InFailover
<1>10. \/ PhaseOf' = [PhaseOf EXCEPT ![r] = "trying"]
       \/ PhaseOf' = [PhaseOf EXCEPT ![r] = "refused"] /\ SteadyOf'[r] = {}
  <2>1. PhaseOf' = [PhaseOf EXCEPT ![r] = Phase(local.pc)]
    BY <1>2, <1>3, PhaseMoves
  <2> QED BY <1>2, <1>9, <2>1, PhaseIs
<1>11. \A s \in Request \ {r} : SteadyOf'[s] \subseteq SteadyOf[s]
  BY <1>4, SteadyShrinks
<1>12. tried' = tried
  BY DEF ThreadBegins
<1> QED BY <1>2, <1>7, <1>8, <1>9, <1>10, <1>11, <1>12
        DEF Promise!Begin, Promise!Shrinks, PhaseOf, SteadyOf

LEMMA OthersShrink ==
  ASSUME FlowInv, Beside, NEW r \in Request, NEW local \in LocalRecord, Become(r, local),
         req[r].pc # "idle"
  PROVE  \A s \in Request : SteadyOf'[s] \subseteq SteadyOf[s]
<1>1. req \in [Request -> LocalRecord] /\ req' = [req EXCEPT ![r] = local]
  BY DEF FlowInv, FlowTypes, Become
<1>2. req' \in [Request -> LocalRecord] /\ \A s \in Request \ {r} : req'[s] = req[s]
  BY <1>1
<1>3. ASSUME NEW s \in Request PROVE req[s].pc # "idle" \/ req'[s].pc = "idle"
  BY <1>2
<1> QED BY <1>2, <1>3, SteadyShrinks

LEMMA MoveRefines ==
  ASSUME FlowInv, Beside, NEW r \in Request, ThreadMoves(r)
  PROVE  Promise!Next
<1>1. req \in [Request -> LocalRecord]
  BY DEF FlowInv, FlowTypes
<1>2. CASE ThreadBegins(r)
  BY <1>2, BeginRefines DEF Promise!Next
<1>3. ASSUME NEW local, Become(r, local), local \in LocalRecord, req[r].pc \in Working
      PROVE  /\ PhaseOf[r] = "trying" /\ PhaseOf' = [PhaseOf EXCEPT ![r] = Phase(local.pc)]
             /\ \A s \in Request : SteadyOf'[s] \subseteq SteadyOf[s]
             /\ local.pc \in Working => PhaseOf' = PhaseOf
  <2>1. PhaseOf' = [PhaseOf EXCEPT ![r] = Phase(local.pc)] /\ PhaseOf[r] = Phase(req[r].pc)
    BY <1>1, <1>3, PhaseMoves
  <2>2. \A s \in Request : SteadyOf'[s] \subseteq SteadyOf[s]
    BY <1>3, OthersShrink DEF Working
  <2>3. PhaseOf = [PhaseOf EXCEPT ![r] = PhaseOf[r]]
    BY DEF PhaseOf
  <2> QED BY <1>3, <2>1, <2>2, <2>3, PhaseIs
<1>4. CASE ThreadGoesOn(r)
  <2>1. PICK local : GoesOn(r, local)
    BY <1>4 DEF ThreadGoesOn
  <2>2. Become(r, local) /\ local \in LocalRecord /\ req[r].pc \in Working /\ Kept
    BY <1>4, <2>1 DEF ThreadGoesOn, GoesOn, Goes
  <2>3. CASE local.pc \in Working
    <3>1. PhaseOf' = PhaseOf /\ \A s \in Request : SteadyOf'[s] \subseteq SteadyOf[s]
      BY <1>3, <2>2, <2>3
    <3>2. Promise!Drift
      BY <2>2, <3>1 DEF Promise!Drift, Promise!Shrinks, PhaseOf, SteadyOf, Kept
    <3> QED BY <3>2 DEF Promise!Next
  <2>4. CASE local.pc = "refused" /\ (InFailover => steady[r] \subseteq tried[r])
    <3>1. /\ PhaseOf[r] = "trying" /\ PhaseOf' = [PhaseOf EXCEPT ![r] = "refused"]
          /\ \A s \in Request : SteadyOf'[s] \subseteq SteadyOf[s]
      BY <1>3, <2>2, <2>4, PhaseIs
    <3>2. SteadyOf[r] \subseteq tried[r]
      BY <2>4 DEF SteadyOf, InFailover
    <3>3. Promise!Refuse(r)
      BY <2>2, <3>1, <3>2 DEF Promise!Refuse, Promise!Shrinks, PhaseOf, SteadyOf, Kept
    <3> QED BY <3>3 DEF Promise!Next
  <2> QED BY <2>1, <2>3, <2>4 DEF GoesOn
<1>5. CASE ThreadAnswers(r)
  <2>1. PICK local : AnswersTo(r, local)
    BY <1>5 DEF ThreadAnswers
  <2>2. /\ Become(r, local) /\ local \in LocalRecord /\ req[r].pc \in Working /\ Kept
        /\ local.pc \in Answered /\ tried[r] # {}
    BY <1>5, <2>1 DEF ThreadAnswers, AnswersTo, Goes
  <2>3. /\ PhaseOf[r] = "trying" /\ PhaseOf' = [PhaseOf EXCEPT ![r] = "answered"]
        /\ \A s \in Request : SteadyOf'[s] \subseteq SteadyOf[s]
    BY <1>3, <2>2, PhaseIs
  <2>4. Promise!Answer(r)
    BY <2>2, <2>3 DEF Promise!Answer, Promise!Shrinks, PhaseOf, SteadyOf, Kept
  <2> QED BY <2>4 DEF Promise!Next
<1>6. CASE ThreadSends(r)
  <2> DEFINE c == req[r].cand
  <2>1. PICK local : SentOn(r, local)
    BY <1>6 DEF ThreadSends
  <2>2. /\ Become(r, local) /\ local \in LocalRecord /\ req[r].pc \in Working
        /\ local.pc \in Working
    BY <1>6, <2>1 DEF ThreadSends, SentOn, Goes, Working
  <2>3. /\ PhaseOf[r] = "trying" /\ PhaseOf' = PhaseOf
        /\ \A s \in Request : SteadyOf'[s] \subseteq SteadyOf[s]
    BY <1>3, <2>2
  <2>4. /\ tried' = [tried EXCEPT ![r] = @ \cup {c}] /\ prefers' = prefers
        /\ c \in Candidate /\ c \notin tried[r]
    BY <1>6, <2>1 DEF ThreadSends, SentOn
  <2>5. \A d \in SteadyOf[r] : <<d, c>> \in prefers[r] => d \in tried[r]
    BY <2>1 DEF SentOn, SteadyOf, InFailover
  <2> HIDE DEF c
  <2>6. Promise!Superior(r, c) \cap SteadyOf[r] \subseteq tried[r]
    BY <2>5 DEF Promise!Superior
  <2>7. Promise!Try(r, c)
    BY <2>3, <2>4, <2>6 DEF Promise!Try, Promise!Shrinks, PhaseOf, SteadyOf
  <2> QED BY <2>4, <2>7 DEF Promise!Next
<1>7. CASE ThreadReturns(r)
  <2>1. Idle \in LocalRecord /\ Idle.pc = "idle" /\ Become(r, Idle) /\ req[r].pc \in Ended
    BY <1>7, IdleIsLocal DEF Idle, ThreadReturns
  <2>2. PhaseOf' = [PhaseOf EXCEPT ![r] = "waiting"] /\ PhaseOf[r] = Phase(req[r].pc)
    BY <1>1, <2>1, PhaseIs, PhaseMoves
  <2>3. PhaseOf[r] \in {"answered", "refused"}
    BY <2>1, <2>2, PhaseIs DEF Ended, Answered
  <2>4. \A s \in Request : SteadyOf'[s] \subseteq SteadyOf[s]
    BY <2>1, OthersShrink DEF Ended
  <2>5. tried' = [tried EXCEPT ![r] = {}] /\ prefers' = [prefers EXCEPT ![r] = {}]
    BY <1>7 DEF ThreadReturns
  <2>6. Promise!Return(r)
    BY <2>2, <2>3, <2>4, <2>5 DEF Promise!Return, Promise!Shrinks, PhaseOf, SteadyOf
  <2> QED BY <2>6 DEF Promise!Next
<1> QED BY <1>2, <1>4, <1>5, <1>6, <1>7 DEF ThreadMoves

LEMMA NextKeepsPromise ==
  FlowInv /\ [RouterNext]_vars => [Promise!Next]_(Promise!vars)
<1> SUFFICES ASSUME FlowInv, [RouterNext]_vars
             PROVE  Promise!Next \/ UNCHANGED Promise!vars
  OBVIOUS
<1>1. CASE RouterNext
  <2>1. CASE NoThreadMoves
    <3>1. req' = req /\ Kept /\ Beside /\ req \in [Request -> LocalRecord]
      BY <1>1, <2>1, NextMoves DEF NoThreadMoves, FlowInv, FlowTypes
    <3>2. PhaseOf' = PhaseOf
      BY <3>1 DEF PhaseOf, Phase
    <3>3. ASSUME NEW s \in Request PROVE SteadyOf'[s] \subseteq SteadyOf[s]
      BY <3>1, SteadyShrinks
    <3>4. Promise!Drift
      BY <3>1, <3>2, <3>3 DEF Promise!Drift, Promise!Shrinks, PhaseOf, SteadyOf, Kept
    <3> QED BY <3>4 DEF Promise!Next
  <2> QED BY <1>1, <2>1, NextMoves, MoveRefines
<1>2. CASE UNCHANGED vars
  BY <1>2 DEF vars, requestVars, historyVars, Promise!vars, Phase, Mode
<1> QED BY <1>1, <1>2

(* The main result: with any number of requests, providers, keys, formats *)
(* and names, interleaved in any way with probes and operators, the walk   *)
(* over slots with its stalls and two caps implements module Failover.     *)
THEOREM FailoverPromiseKept == RouterSpec => KeepsFailoverPromise
<1>1. RouterInit => Promise!Init
  <2> SUFFICES ASSUME RouterInit PROVE Promise!Init
    OBVIOUS
  <2>1. \A r \in Request : Phase(req[r].pc) = "waiting"
    BY PhaseIs DEF RouterInit, Idle
  <2>2. \A r \in Request : steady[r] = {}
    BY DEF RouterInit
  <2> QED BY <2>1, <2>2 DEF RouterInit, Promise!Init
<1> QED BY <1>1, NextKeepsPromise, FlowInvariant, PTL
        DEF RouterSpec, KeepsFailoverPromise, Promise!Spec
=============================================================================
