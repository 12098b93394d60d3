---------------------------- MODULE ProbesProofs ----------------------------
(***************************************************************************)
(* For any number of triggered rounds and clicks, any providers and keys:  *)
(* one probe at a time, and sweeps that are complete and visit no key      *)
(* twice.  The slot is taken exactly by the actor that probes or is about  *)
(* to, so no way a round or a test ends leaves it taken; the place of a    *)
(* round in its list, and the cursor it leaves behind, divide the keys     *)
(* that are done with from those nobody has visited.                       *)
(***************************************************************************)
EXTENDS Probes, TLAPS

SlotInv == at \in [Actor -> Places] /\ OneProbeAtATime

InSlot == {"holding", "probing"}

(* An actor that stays outside the slot, or inside, leaves it as it was.   *)
LEMMA SlotUntouched ==
  ASSUME SlotInv, NEW a \in Actor, NEW place \in Places, Goes(a, place),
         UNCHANGED holder, at[a] \in InSlot <=> place \in InSlot
  PROVE  SlotInv'
BY DEF SlotInv, Goes, OneProbeAtATime, InSlot

LEMMA SlotTaken ==
  ASSUME SlotInv, NEW a \in Actor, NEW place \in InSlot, Goes(a, place),
         holder = None, holder' = a
  PROVE  SlotInv'
<1>1. None \notin Actor /\ place \in Places
  BY ActorsAssumption DEF InSlot, Places
<1> QED BY <1>1 DEF SlotInv, Goes, OneProbeAtATime, InSlot

LEMMA SlotReleased ==
  ASSUME SlotInv, NEW a \in Actor, NEW place \in Places \ InSlot, Goes(a, place),
         at[a] \in InSlot, holder' = None
  PROVE  SlotInv'
<1>1. None \notin Actor
  BY ActorsAssumption
<1> QED BY <1>1 DEF SlotInv, Goes, OneProbeAtATime, InSlot

(* Where an actor goes when it is done with a key, a model or a provider.  *)
Outside == Places \ InSlot

LEMMA GoesOn ==
  ASSUME NEW a \in Checker, Healthy(a) \/ Unhealthy(a) \/ KeyDone(a) \/ NextProvider(a)
  PROVE  \E place \in Outside: Goes(a, place)
<1>1. NextProvider(a) => \E place \in Outside: Goes(a, place)
  BY DEF NextProvider, Outside, Places, InSlot
<1>2. KeyDone(a) => \E place \in Outside: Goes(a, place)
  BY <1>1 DEF KeyDone, Outside, Places, InSlot
<1>3. RetryModel(a) => \E place \in Outside: Goes(a, place)
  BY DEF RetryModel, Outside, Places, InSlot
<1>4. NextPlanned(a) => \E place \in Outside: Goes(a, place)
  BY DEF NextPlanned, Leaves, Outside, Places, InSlot
<1>5. Healthy(a) => \E place \in Outside: Goes(a, place)
  BY <1>2 DEF Healthy, Leaves, Outside, Places, InSlot
<1> QED BY <1>1, <1>2, <1>3, <1>4, <1>5 DEF Unhealthy

LEMMA SlotKeptByAuto ==
  ASSUME SlotInv, NEW a \in Checker, RunAuto(a)
  PROVE  SlotInv'
<1>0. a \in Actor
  BY DEF Actor
<1>1. CASE TakeAuto(a)
  BY <1>0, <1>1, SlotTaken DEF TakeAuto, InSlot
<1>2. CASE StartAuto(a)
  BY <1>0, <1>2, SlotUntouched DEF StartAuto, InSlot, Places
<1>3. CASE Decline(a)
  <2>1. PICK place \in Outside: Goes(a, place)
    BY <1>3, GoesOn DEF Decline
  <2> QED BY <1>0, <1>3, <2>1, SlotUntouched DEF Decline, InSlot, Outside
<1>4. CASE Cancel(a) \/ EndAuto(a)
  <2>1. PICK place \in Outside: Goes(a, place)
    BY <1>4, GoesOn DEF Cancel, EndAuto
  <2>2. at[a] \in InSlot /\ holder' = None
    BY <1>4 DEF Cancel, EndAuto, Release, InSlot
  <2> QED BY <1>0, <2>1, <2>2, SlotReleased DEF Outside
<1> QED BY <1>1, <1>2, <1>3, <1>4 DEF RunAuto

LEMMA SlotKeptByPatrol ==
  ASSUME SlotInv, NEW a \in Round, Patrol(a)
  PROVE  SlotInv'
<1>0. a \in Actor /\ a \in Checker
  BY DEF Actor, Checker
<1>1. CASE FailRound(a)
  <2>1. Goes(a, "off")
    BY <1>1 DEF FailRound, Leaves
  <2>2. CASE at[a] = "probing"
    BY <1>0, <1>1, <2>1, <2>2, SlotReleased DEF FailRound, Release, InSlot, Places
  <2>3. CASE at[a] # "probing"
    BY <1>0, <1>1, <2>1, <2>3, SlotUntouched DEF FailRound, InSlot, Places
  <2> QED BY <2>2, <2>3
<1>2. CASE SkipKey(a) \/ PassBy(a) \/ Enter(a)
  <2>1. PICK place \in Outside: Goes(a, place)
    BY <1>0, <1>2, GoesOn DEF SkipKey, PassBy, Enter, Outside, Places, InSlot
  <2>2. at[a] \notin InSlot /\ UNCHANGED holder
    BY <1>2 DEF SkipKey, PassBy, Enter, InSlot
  <2> QED BY <1>0, <2>1, <2>2, SlotUntouched DEF Outside
<1>3. CASE BeginRound(a) \/ PlanSweep(a) \/ Proceed(a)
  <2>1. /\ \E place \in Outside: Goes(a, place)
        /\ at[a] \notin InSlot /\ UNCHANGED holder
    BY <1>3 DEF BeginRound, PlanSweep, Proceed, Outside, Places, InSlot
  <2> QED BY <1>0, <2>1, SlotUntouched DEF Outside
<1>4. CASE Postpone(a) \/ NothingToSweep(a) \/ Interrupt(a) \/ CompleteSweep(a)
  <2>1. Goes(a, "off") /\ at[a] \notin InSlot /\ UNCHANGED holder
    BY <1>4 DEF Postpone, NothingToSweep, Interrupt, CompleteSweep, Leaves, InSlot
  <2> QED BY <1>0, <2>1, SlotUntouched DEF Places, InSlot
<1> QED BY <1>1, <1>2, <1>3, <1>4 DEF Patrol

LEMMA SlotKeptByClicks ==
  ASSUME SlotInv, NEW c \in Click, ClickKey(c) \/ TakeManual(c) \/ Test(c) \/ GiveUp(c)
  PROVE  SlotInv'
<1>0. c \in Actor
  BY DEF Actor
<1>1. CASE TakeManual(c)
  BY <1>0, <1>1, SlotTaken DEF TakeManual, InSlot
<1>2. CASE EndManual(c)
  BY <1>0, <1>2, SlotReleased DEF EndManual, InSlot, Places
<1>3. CASE ClickKey(c) \/ Withdraw(c) \/ Follow(c) \/ GiveUp(c)
  <2>1. /\ \E place \in Outside: Goes(c, place)
        /\ at[c] \notin InSlot /\ UNCHANGED holder
    BY <1>3 DEF ClickKey, Withdraw, Follow, GiveUp, Outside, Places, InSlot
  <2> QED BY <1>0, <2>1, SlotUntouched DEF Outside
<1> QED BY <1>1, <1>2, <1>3 DEF Test

LEMMA SlotInitially == ProbesInit => SlotInv
BY ActorsAssumption DEF ProbesInit, SlotInv, OneProbeAtATime, Places

LEMMA SlotKept == SlotInv /\ [Next]_vars => SlotInv'
<1> SUFFICES ASSUME SlotInv, [Next]_vars PROVE SlotInv'
  OBVIOUS
<1>1. ASSUME NEW h \in ByHand, Trigger(h) PROVE SlotInv'
  <2>1. h \in Actor
    BY DEF Actor, Checker, Round
  <2> QED BY <1>1, <2>1, SlotUntouched DEF Trigger, InSlot, Places
<1>2. CASE BeginIdle
  <2>1. Idle \in Actor
    BY DEF Actor, Checker
  <2> QED BY <1>2, <2>1, SlotUntouched DEF BeginIdle, InSlot, Places
<1>3. CASE NoteRequest \/ CountRequests \/ Reprioritise \/ (\E p \in Provider: RemoveProvider(p))
           \/ UNCHANGED vars
  <2>1. UNCHANGED <<at, holder>>
    BY <1>3 DEF NoteRequest, CountRequests, Reprioritise, RemoveProvider, vars
  <2> QED BY <2>1 DEF SlotInv, OneProbeAtATime
<1> QED BY <1>1, <1>2, <1>3, SlotKeptByAuto, SlotKeptByPatrol, SlotKeptByClicks DEF Next

(* Upstreams see one probe of ours at a time, and no path leaves the slot  *)
(* taken.                                                                  *)
THEOREM ProbesExclude == Spec => []OneProbeAtATime
BY SlotInitially, SlotKept, PTL DEF Spec, SlotInv

-----------------------------------------------------------------------------
(* Sweeps.  Where a round is in its list of providers, and what it makes   *)
(* of the cursor, the keys swept and the providers passed by.              *)
InHand  == {"checking", "taking", "holding", "probing"}
Planned == InHand \cup {"entering", "swept"}
Active(a) == at[a] \notin {"off", "triggered"}

PlaceOK(a) ==
  /\ at[a] \in InHand \cup {"entering"} => here[a][1] \in DOMAIN list[a]
  /\ at[a] \in InHand => here[a][2] < KeyCount[CurrentProvider(a)]
  /\ at[a] = "swept" => here[a][1] = Len(list[a]) + 1
  /\ at[a] \in Planned => IsInjective(list[a])

(* The keys that come, in l, before key n of the i-th provider.            *)
Before(l, i, n, key) ==
  \E j \in DOMAIN l: l[j] = key[1] /\ (j < i \/ (j = i /\ key[2] < n))

(* s names nothing that l does not, and in the order of l.                 *)
Within(s, l) ==
  /\ \A i \in DOMAIN s: \E k \in DOMAIN l: l[k] = s[i]
  /\ \A i, j \in DOMAIN s, k, m \in DOMAIN l:
       l[k] = s[i] /\ l[m] = s[j] /\ k < m => i < j

(* Everything before this place is swept or passed by, and nothing at or   *)
(* after it is swept.                                                      *)
Divides(l, i, n, sw, ps) ==
  \A key \in Key:
    /\ Before(l, i, n, key) => key \in sw \/ key[1] \in ps
    /\ key \in sw /\ key[1] \in ToSet(l) => Before(l, i, n, key)

AloneOK(a) == Active(a) => running /\ Others(a) = {}
SweepOK(a) ==
  at[a] \in Planned => /\ Within(order, list[a])
                        /\ Divides(list[a], here[a][1], here[a][2], swept, passed)
CursorOK ==
  cursor # None =>
    \A i \in DOMAIN order: order[i] = cursor[1] => Divides(order, i, cursor[2], swept, passed)

SweepInv ==
  /\ IsInjective(order)
  /\ \A a \in Round: PlaceOK(a)
  /\ ~disturbed => CursorOK /\ \A a \in Round: AloneOK(a) /\ SweepOK(a)

-----------------------------------------------------------------------------
(* Types.                                                                  *)
LEMMA TypesInitially == ProbesInit => ProbesTypeOK
<1> SUFFICES ASSUME ProbesInit PROVE ProbesTypeOK
  OBVIOUS
<1> USE DEF ProbesInit
<1>1. setting \in Settings /\ changes \in 0..setting.maxChanges
  BY SettingsAssumption
<1>2. at \in [Actor -> Places] /\ order \in Seq(Provider)
  BY OrderAssumption DEF Places
<1>3. list \in [Checker -> Seq(Provider)] /\ here \in [Checker -> Nat \X Nat]
  OBVIOUS
<1> QED BY <1>1, <1>2, <1>3 DEF ProbesTypeOK

(* A round's place is a place in its list.                                 *)
LEMMA PlaceTyped ==
  ASSUME ProbesTypeOK, NEW a \in Round, PlaceOK(a)
  PROVE  /\ a \in Checker /\ a \in Actor
         /\ list[a] \in Seq(Provider)
         /\ here[a] = <<here[a][1], here[a][2]>>
         /\ here[a][1] \in Nat /\ here[a][2] \in Nat
         /\ at[a] \in InHand \cup {"entering"} =>
              here[a][1] \in 1..Len(list[a]) /\ CurrentProvider(a) \in Provider
         /\ at[a] \in InHand => CurrentKey(a) \in Key
<1>1. a \in Checker /\ a \in Actor
  BY DEF Checker, Actor
<1>2. list[a] \in Seq(Provider) /\ here[a] \in Nat \X Nat
  BY <1>1 DEF ProbesTypeOK
<1>3. ASSUME at[a] \in InHand \cup {"entering"}
      PROVE  here[a][1] \in 1..Len(list[a]) /\ CurrentProvider(a) \in Provider
  BY <1>2, <1>3 DEF PlaceOK, CurrentProvider
<1>4. ASSUME at[a] \in InHand PROVE CurrentKey(a) \in Key
  <2>1. CurrentProvider(a) \in Provider /\ here[a][2] < KeyCount[CurrentProvider(a)]
    BY <1>3, <1>4 DEF PlaceOK
  <2>2. here[a][2] \in 0..(KeyCount[CurrentProvider(a)] - 1)
    BY <1>2, <2>1, KeysAssumption
  <2> QED BY <2>1, <2>2 DEF CurrentKey, Key
<1> QED BY <1>1, <1>2, <1>3, <1>4

MovesOn(a) == /\ Goes(a, "checking") \/ Goes(a, "entering") \/ Goes(a, "swept")
              /\ here' \in [Checker -> Nat \X Nat]

LEMMA NextProviderTyped ==
  ASSUME ProbesTypeOK, NEW a \in Round, PlaceOK(a), NextProvider(a)
  PROVE  MovesOn(a)
<1>1. a \in Checker /\ here[a][1] \in Nat /\ here \in [Checker -> Nat \X Nat]
  BY PlaceTyped DEF ProbesTypeOK
<1>2. here' = [here EXCEPT ![a] = <<here[a][1] + 1, 0>>]
  BY DEF NextProvider
<1>3. here' \in [Checker -> Nat \X Nat]
  BY <1>1, <1>2
<1> QED BY <1>3 DEF NextProvider, MovesOn

LEMMA KeyDoneTyped ==
  ASSUME ProbesTypeOK, NEW a \in Round, PlaceOK(a), at[a] \in InHand, KeyDone(a)
  PROVE  /\ MovesOn(a)
         /\ cursor'[1] \in Provider /\ cursor'[2] \in 0..KeyCount[cursor'[1]]
         /\ swept' \in SUBSET Key
<1>1. /\ a \in Checker /\ here[a] = <<here[a][1], here[a][2]>>
      /\ here[a][1] \in Nat /\ here[a][2] \in Nat /\ here \in [Checker -> Nat \X Nat]
      /\ CurrentProvider(a) \in Provider /\ CurrentKey(a) \in Key
      /\ here[a][2] < KeyCount[CurrentProvider(a)]
  BY PlaceTyped DEF ProbesTypeOK, PlaceOK
<1>2. swept' \in SUBSET Key
  BY <1>1 DEF KeyDone, ProbesTypeOK
<1>3. cursor'[1] \in Provider /\ cursor'[2] \in 0..KeyCount[cursor'[1]]
  BY <1>1, KeysAssumption DEF KeyDone
<1>4. CASE here[a][2] + 1 < KeyCount[CurrentProvider(a)]
  <2>1. here' = [here EXCEPT ![a] = [here[a] EXCEPT ![2] = here[a][2] + 1]]
    BY <1>4 DEF KeyDone
  <2>2. [here[a] EXCEPT ![2] = here[a][2] + 1] \in Nat \X Nat
    BY <1>1
  <2>3. here' \in [Checker -> Nat \X Nat]
    BY <1>1, <2>1, <2>2
  <2> QED BY <1>2, <1>3, <1>4, <2>3 DEF KeyDone, MovesOn
<1>5. CASE ~(here[a][2] + 1 < KeyCount[CurrentProvider(a)])
  BY <1>2, <1>3, <1>5, NextProviderTyped DEF KeyDone
<1> QED BY <1>4, <1>5

(* Where a checker goes, its round goes on or is forgotten.                *)
Moved(a) ==
  /\ \E place \in Places: Goes(a, place)
  /\ list' \in [Checker -> Seq(Provider)] /\ here' \in [Checker -> Nat \X Nat]

LEMMA MovedTyped ==
  ASSUME ProbesTypeOK, NEW a \in Checker, Moved(a)
  PROVE  /\ at' \in [Actor -> Places]
         /\ list' \in [Checker -> Seq(Provider)] /\ here' \in [Checker -> Nat \X Nat]
BY DEF ProbesTypeOK, Moved, Goes

LEMMA LeavesTyped ==
  ASSUME ProbesTypeOK, NEW a \in Checker, Leaves(a)
  PROVE  Moved(a)
<1>1. << >> \in Seq(Provider) /\ <<0, 0>> \in Nat \X Nat
  OBVIOUS
<1> QED BY <1>1 DEF ProbesTypeOK, Leaves, Moved, Places

(* What a round or the readiness checker does after a probe keeps types.   *)
ProbeSeen(a) ==
  /\ Moved(a) /\ swept' \in SUBSET Key
  /\ cursor' = None \/ (cursor'[1] \in Provider /\ cursor'[2] \in 0..KeyCount[cursor'[1]])
  /\ UNCHANGED <<traffic, order, running, clicks, passed, disturbed, bounds>>

LEMMA KeyDoneSeen ==
  ASSUME ProbesTypeOK, NEW a \in Round, PlaceOK(a), at[a] \in InHand, KeyDone(a)
  PROVE  ProbeSeen(a)
<1>1. /\ MovesOn(a)
      /\ cursor'[1] \in Provider /\ cursor'[2] \in 0..KeyCount[cursor'[1]]
      /\ swept' \in SUBSET Key
  BY KeyDoneTyped
<1>2. UNCHANGED <<traffic, order, running, list, clicks, passed, disturbed, bounds>>
  BY DEF KeyDone
<1>3. Moved(a)
  BY <1>1, <1>2 DEF MovesOn, Moved, Places, ProbesTypeOK
<1> QED BY <1>1, <1>2, <1>3 DEF ProbeSeen

LEMMA RestSeen ==
  ASSUME ProbesTypeOK, NEW a \in Checker,
         RetryModel(a) \/ NextPlanned(a)
           \/ (Leaves(a) /\ UNCHANGED <<traffic, order, schedule, clicks, history, bounds>>)
  PROVE  ProbeSeen(a)
<1> DEFINE quiet == UNCHANGED <<traffic, order, schedule, clicks, history, bounds>>
<1>1. ASSUME quiet, Moved(a) PROVE ProbeSeen(a)
  BY <1>1 DEF ProbeSeen, schedule, history, ProbesTypeOK
<1>2. CASE Leaves(a) /\ quiet
  BY <1>1, <1>2, LeavesTyped
<1>3. CASE RetryModel(a)
  <2>1. quiet /\ Goes(a, "taking") /\ UNCHANGED <<list, here>>
    BY <1>3 DEF RetryModel, schedule
  <2> QED BY <1>1, <2>1 DEF Moved, Places, ProbesTypeOK
<1>4. CASE NextPlanned(a)
  <2>1. quiet
    BY <1>4 DEF NextPlanned
  <2>2. CASE here[a][1] < Len(list[a])
    <3>1. Goes(a, "taking") /\ UNCHANGED list
      BY <1>4, <2>2 DEF NextPlanned
    <3>2. here' = [here EXCEPT ![a] = [here[a] EXCEPT ![1] = here[a][1] + 1]]
      BY <1>4, <2>2 DEF NextPlanned
    <3>3. here[a] \in Nat \X Nat /\ here \in [Checker -> Nat \X Nat]
      BY DEF ProbesTypeOK
    <3>4. [here[a] EXCEPT ![1] = here[a][1] + 1] \in Nat \X Nat
      BY <3>3
    <3>5. here' \in [Checker -> Nat \X Nat]
      BY <3>2, <3>3, <3>4
    <3> QED BY <1>1, <2>1, <3>1, <3>5 DEF Moved, Places, ProbesTypeOK
  <2>3. CASE ~(here[a][1] < Len(list[a]))
    BY <1>1, <1>4, <2>1, <2>3, LeavesTyped DEF NextPlanned
  <2> QED BY <2>2, <2>3
<1> QED BY <1>2, <1>3, <1>4

LEMMA SeenKeepsTypes ==
  ASSUME ProbesTypeOK, NEW a \in Checker, ProbeSeen(a),
         holder' \in Actor \cup {None}, noted' \in [Checker -> BOOLEAN]
  PROVE  ProbesTypeOK'
<1>1. UNCHANGED <<traffic, order, running, future, awaits, passed, disturbed, setting, changes>>
  BY DEF ProbeSeen, clicks, bounds
<1>2. /\ at' \in [Actor -> Places]
      /\ list' \in [Checker -> Seq(Provider)] /\ here' \in [Checker -> Nat \X Nat]
  BY MovedTyped DEF ProbeSeen
<1>3. /\ cursor' = None \/ (cursor'[1] \in Provider /\ cursor'[2] \in 0..KeyCount[cursor'[1]])
      /\ swept' \in SUBSET Key
  BY DEF ProbeSeen
<1> QED BY <1>1, <1>2, <1>3 DEF ProbesTypeOK

LEMMA AutoTyped ==
  ASSUME ProbesTypeOK, NEW a \in Checker, a \in Round => PlaceOK(a), RunAuto(a)
  PROVE  ProbesTypeOK'
<1> DEFINE unmoved == UNCHANGED <<traffic, order, schedule, list, here, clicks, history, bounds>>
<1>0. a \in Actor
  BY DEF Actor
<1>1. ASSUME unmoved, NEW place \in Places, Goes(a, place) PROVE ProbeSeen(a)
  BY <1>1 DEF ProbeSeen, Moved, schedule, history, ProbesTypeOK
<1>2. ASSUME at[a] \in InHand, Unhealthy(a) \/ Healthy(a) PROVE ProbeSeen(a)
  BY <1>2, KeyDoneSeen, RestSeen DEF Unhealthy, Healthy
<1>3. CASE TakeAuto(a)
  <2>1. ProbeSeen(a)
    BY <1>1, <1>3 DEF TakeAuto, Places
  <2>2. holder' \in Actor \cup {None} /\ noted' \in [Checker -> BOOLEAN]
    BY <1>0, <1>3 DEF TakeAuto, ProbesTypeOK
  <2> QED BY <2>1, <2>2, SeenKeepsTypes
<1>4. CASE StartAuto(a)
  <2>1. ProbeSeen(a)
    BY <1>1, <1>4 DEF StartAuto, Places
  <2>2. holder' \in Actor \cup {None} /\ noted' \in [Checker -> BOOLEAN]
    BY <1>4 DEF StartAuto, ProbesTypeOK
  <2> QED BY <2>1, <2>2, SeenKeepsTypes
<1>5. CASE Decline(a) \/ Cancel(a) \/ EndAuto(a)
  <2>1. at[a] \in InHand /\ (Unhealthy(a) \/ Healthy(a))
    BY <1>5 DEF Decline, Cancel, EndAuto, InHand
  <2>2. holder' \in Actor \cup {None} /\ noted' \in [Checker -> BOOLEAN]
    BY <1>5 DEF Decline, Cancel, EndAuto, Release, ProbesTypeOK
  <2> QED BY <1>2, <2>1, <2>2, SeenKeepsTypes
<1> QED BY <1>3, <1>4, <1>5 DEF RunAuto

LEMMA PatrolTyped ==
  ASSUME ProbesTypeOK, NEW a \in Round, PlaceOK(a), Patrol(a)
  PROVE  ProbesTypeOK'
<1>0. a \in Actor /\ a \in Checker
  BY DEF Actor, Checker
<1>1. CASE SkipKey(a)
  <2>1. ProbeSeen(a)
    BY <1>1, KeyDoneSeen DEF SkipKey, InHand
  <2>2. UNCHANGED <<holder, noted>>
    BY <1>1 DEF SkipKey
  <2> QED BY <1>0, <2>1, <2>2, SeenKeepsTypes DEF ProbesTypeOK
<1>2. CASE Postpone(a) \/ NothingToSweep(a) \/ CompleteSweep(a) \/ FailRound(a) \/ Interrupt(a)
  <2>1. Moved(a)
    BY <1>0, <1>2, LeavesTyped
       DEF Postpone, NothingToSweep, CompleteSweep, FailRound, Interrupt
  <2>2. /\ at' \in [Actor -> Places]
        /\ list' \in [Checker -> Seq(Provider)] /\ here' \in [Checker -> Nat \X Nat]
    BY <1>0, <2>1, MovedTyped
  <2>3. /\ holder' \in Actor \cup {None} /\ noted' \in [Checker -> BOOLEAN]
        /\ running' \in BOOLEAN /\ disturbed' \in BOOLEAN
        /\ swept' \in SUBSET Key /\ passed' \in SUBSET Provider
    BY <1>2 DEF Postpone, NothingToSweep, CompleteSweep, FailRound, Interrupt, Release,
                schedule, history, ProbesTypeOK
  <2>4. UNCHANGED <<traffic, order, future, awaits, setting, changes>>
    BY <1>2 DEF Postpone, NothingToSweep, CompleteSweep, FailRound, Interrupt, clicks, bounds
  <2>5. cursor' = None \/ (cursor'[1] \in Provider /\ cursor'[2] \in 0..KeyCount[cursor'[1]])
    <3>1. CASE Interrupt(a)
      <4>1. CurrentProvider(a) \in Provider /\ here[a][2] \in Nat
            /\ here[a][2] < KeyCount[CurrentProvider(a)]
        BY <3>1, PlaceTyped DEF Interrupt, InHand, PlaceOK
      <4>2. cursor' = <<CurrentProvider(a), here[a][2]>>
        BY <3>1 DEF Interrupt, CurrentKey
      <4> QED BY <4>1, <4>2, KeysAssumption
    <3>2. CASE ~Interrupt(a)
      BY <1>2, <3>2 DEF Postpone, NothingToSweep, CompleteSweep, FailRound, schedule, ProbesTypeOK
    <3> QED BY <3>1, <3>2
  <2> QED BY <2>2, <2>3, <2>4, <2>5 DEF ProbesTypeOK
<1>3. CASE BeginRound(a) \/ Enter(a) \/ Proceed(a) \/ PassBy(a) \/ PlanSweep(a)
  <2>1. UNCHANGED <<holder, noted, traffic, order, cursor, future, awaits, setting, changes>>
    BY <1>3 DEF BeginRound, Enter, Proceed, PassBy, PlanSweep, schedule, clicks, bounds
  <2>2. /\ running' \in BOOLEAN /\ disturbed' \in BOOLEAN
        /\ swept' \in SUBSET Key
    BY <1>3 DEF BeginRound, Enter, Proceed, PassBy, PlanSweep, schedule, history, ProbesTypeOK
  <2>3. passed' \in SUBSET Provider
    <3>1. CASE PassBy(a)
      BY <3>1, PlaceTyped DEF PassBy, InHand, ProbesTypeOK
    <3>2. CASE ~PassBy(a)
      BY <1>3, <3>2 DEF BeginRound, Enter, Proceed, PlanSweep, history, ProbesTypeOK
    <3> QED BY <3>1, <3>2
  <2>4. /\ at' \in [Actor -> Places]
        /\ list' \in [Checker -> Seq(Provider)] /\ here' \in [Checker -> Nat \X Nat]
    <3>1. CASE BeginRound(a) \/ Proceed(a)
      BY <3>1 DEF BeginRound, Proceed, Goes, Places, ProbesTypeOK
    <3>2. CASE PlanSweep(a)
      <4> DEFINE i == CHOOSE i \in DOMAIN order: order[i] = cursor[1]
                 place == IF Resumes(order) THEN <<i, cursor[2]>> ELSE <<1, 0>>
      <4>1. place \in Nat \X Nat
        <5>1. CASE Resumes(order)
          <6>1. i \in DOMAIN order /\ DOMAIN order = 1..Len(order) /\ Len(order) \in Nat
            BY <5>1 DEF Resumes, ToSet, ProbesTypeOK
          <6>2. cursor[2] \in Nat
            BY <5>1, KeysAssumption DEF Resumes, ProbesTypeOK
          <6>3. place = <<i, cursor[2]>>
            BY <5>1
          <6> HIDE DEF i, place
          <6> QED BY <6>1, <6>2, <6>3
        <5>2. CASE ~Resumes(order)
          BY <5>2
        <5> QED BY <5>1, <5>2
      <4>2. here' = [here EXCEPT ![a] = place]
        BY <3>2 DEF PlanSweep
      <4> HIDE DEF place
      <4>3. here' \in [Checker -> Nat \X Nat]
        BY <4>1, <4>2 DEF ProbesTypeOK
      <4> QED BY <3>2, <4>3 DEF PlanSweep, Goes, Places, ProbesTypeOK
    <3>3. CASE Enter(a) \/ PassBy(a)
      <4>1. CASE NextProvider(a)
        BY <3>3, <4>1, NextProviderTyped DEF Enter, PassBy, MovesOn, Goes, Places, ProbesTypeOK
      <4>2. CASE ~NextProvider(a)
        BY <3>3, <4>2 DEF Enter, PassBy, Goes, Places, ProbesTypeOK
      <4> QED BY <4>1, <4>2
    <3> QED BY <1>3, <3>1, <3>2, <3>3
  <2> QED BY <2>1, <2>2, <2>3, <2>4 DEF ProbesTypeOK
<1> QED BY <1>1, <1>2, <1>3 DEF Patrol

LEMMA ClicksTyped ==
  ASSUME ProbesTypeOK, NEW c \in Click, ClickKey(c) \/ TakeManual(c) \/ Test(c) \/ GiveUp(c)
  PROVE  ProbesTypeOK'
<1>0. c \in Actor
  BY DEF Actor
<1>1. UNCHANGED <<noted, traffic, order, running, cursor, list, here, swept, passed, disturbed,
                  setting, changes>>
  BY DEF ClickKey, TakeManual, Test, EndManual, Withdraw, Follow, GiveUp, clickUnchanged,
         schedule, history, bounds
<1>2. \E place \in Places: Goes(c, place)
  BY DEF ClickKey, TakeManual, Test, EndManual, Withdraw, Follow, GiveUp, Places
<1>3. at' \in [Actor -> Places]
  BY <1>2 DEF Goes, ProbesTypeOK
<1>4. holder' \in Actor \cup {None}
  BY <1>0 DEF ClickKey, TakeManual, Test, EndManual, Withdraw, Follow, GiveUp, ProbesTypeOK
<1>5. future' \in Click \cup {None} /\ awaits' \in [Click -> Click \cup {None}]
  BY DEF ClickKey, TakeManual, Test, EndManual, Withdraw, Follow, GiveUp, clicks, ProbesTypeOK
<1> QED BY <1>1, <1>3, <1>4, <1>5 DEF ProbesTypeOK

LEMMA IdleTyped == ASSUME ProbesTypeOK, BeginIdle PROVE ProbesTypeOK'
<1>0. Idle \in Actor /\ Idle \in Checker
  BY DEF Actor, Checker
<1>1. UNCHANGED <<holder, noted, traffic, order, running, cursor, future, awaits, swept, passed,
                  disturbed, setting, changes>>
  BY DEF BeginIdle, schedule, clicks, history, bounds
<1>2. PICK n \in 1..Len(order): list' = [list EXCEPT ![Idle] = SubSeq(order, 1, n)]
  BY DEF BeginIdle
<1>3. order \in Seq(Provider) /\ SubSeq(order, 1, n) \in Seq(Provider)
  BY DEF ProbesTypeOK
<1>4. list' \in [Checker -> Seq(Provider)]
  BY <1>2, <1>3 DEF ProbesTypeOK
<1>5. <<1, 0>> \in Nat \X Nat
  OBVIOUS
<1>6. here' \in [Checker -> Nat \X Nat] /\ at' \in [Actor -> Places]
  BY <1>5 DEF BeginIdle, Goes, Places, ProbesTypeOK
<1> QED BY <1>1, <1>4, <1>6 DEF ProbesTypeOK

(* A provider that is removed leaves the others where they were.           *)
LEMMA RemovalWithin ==
  ASSUME NEW S, NEW s \in Seq(S), IsInjective(s), NEW i \in DOMAIN s
  PROVE  /\ RemoveAt(s, i) \in Seq(S) /\ IsInjective(RemoveAt(s, i))
         /\ Within(RemoveAt(s, i), s)
<1>1. i \in 1..Len(s) /\ Len(s) \in Nat
  OBVIOUS
<1> DEFINE u == SubSeq(s, 1, i - 1)
           v == SubSeq(s, i + 1, Len(s))
           t == RemoveAt(s, i)
           from(k) == IF k < i THEN k ELSE k + 1
<1>2. u \in Seq(S) /\ Len(u) = i - 1 /\ \A k \in 1..(i - 1): u[k] = s[k]
  BY <1>1
<1>3. v \in Seq(S) /\ Len(v) = Len(s) - i /\ \A k \in 1..(Len(s) - i): v[k] = s[i + k]
  BY <1>1
<1>4. t = u \o v
  BY DEF RemoveAt
<1> HIDE DEF u, v, t
<1>5. t \in Seq(S) /\ Len(t) = Len(s) - 1 /\ DOMAIN t = 1..(Len(s) - 1)
  BY <1>1, <1>2, <1>3, <1>4
<1>6. \A k \in 1..(Len(s) - 1): t[k] = s[from(k)] /\ from(k) \in 1..Len(s)
  BY <1>1, <1>2, <1>3, <1>4
<1>7. \A k, m \in 1..(Len(s) - 1): (k < m => from(k) < from(m)) /\ (from(k) < from(m) => k < m)
  BY <1>1
<1> HIDE DEF from
<1>8. \A k, m \in 1..Len(s): s[k] = s[m] => k = m
  BY <1>1 DEF IsInjective
<1>9. \A k, m \in 1..(Len(s) - 1): t[k] = t[m] => from(k) = from(m)
  BY <1>6, <1>8
<1>10. \A k, m \in 1..(Len(s) - 1): t[k] = t[m] => k = m
  <2> TAKE k, m \in 1..(Len(s) - 1)
  <2>1. (k < m => from(k) < from(m)) /\ (m < k => from(m) < from(k))
    BY <1>7
  <2>2. from(k) \in Int /\ from(m) \in Int
    BY <1>6
  <2> QED BY <1>1, <1>9, <2>1, <2>2
<1>11. Within(t, s)
  <2>1. \A k \in DOMAIN t: \E m \in DOMAIN s: s[m] = t[k]
    BY <1>5, <1>6
  <2>2. ASSUME NEW j \in DOMAIN t, NEW jj \in DOMAIN t, NEW k \in DOMAIN s, NEW m \in DOMAIN s,
               s[k] = t[j], s[m] = t[jj], k < m
        PROVE  j < jj
    <3>1. j \in 1..(Len(s) - 1) /\ jj \in 1..(Len(s) - 1) /\ k \in 1..Len(s) /\ m \in 1..Len(s)
      BY <1>5
    <3>2. /\ s[from(j)] = t[j] /\ from(j) \in 1..Len(s)
          /\ s[from(jj)] = t[jj] /\ from(jj) \in 1..Len(s)
      BY <1>6, <3>1
    <3>3. k = from(j) /\ m = from(jj)
      BY <1>8, <2>2, <3>1, <3>2
    <3> QED BY <1>7, <2>2, <3>1, <3>3
  <2> QED BY <2>1, <2>2 DEF Within
<1> QED BY <1>5, <1>10, <1>11 DEF IsInjective, t

LEMMA ReverseInjective ==
  ASSUME NEW S, NEW s \in Seq(S), IsInjective(s)
  PROVE  Reverse(s) \in Seq(S) /\ IsInjective(Reverse(s))
<1>1. Len(s) \in Nat /\ DOMAIN s = 1..Len(s) /\ \A i \in 1..Len(s): s[i] \in S
  OBVIOUS
<1>2. Reverse(s) = [i \in 1..Len(s) |-> s[(Len(s) - i) + 1]]
  BY DEF Reverse
<1>3. Reverse(s) \in Seq(S)
  BY <1>1, <1>2
<1>4. \A i, j \in 1..Len(s): s[(Len(s) - i) + 1] = s[(Len(s) - j) + 1] => i = j
  <2> TAKE i, j \in 1..Len(s)
  <2>1. (Len(s) - i) + 1 \in 1..Len(s) /\ (Len(s) - j) + 1 \in 1..Len(s)
    BY <1>1
  <2>2. s[(Len(s) - i) + 1] = s[(Len(s) - j) + 1] => (Len(s) - i) + 1 = (Len(s) - j) + 1
    BY <1>1, <2>1 DEF IsInjective
  <2> QED BY <1>1, <2>2
<1> QED BY <1>2, <1>3, <1>4 DEF IsInjective

LEMMA ChangesTyped ==
  ASSUME ProbesTypeOK, IsInjective(order),
         Reprioritise \/ (\E p \in Provider: RemoveProvider(p))
  PROVE  ProbesTypeOK'
<1>1. order' \in Seq(Provider)
  BY RemovalWithin, ReverseInjective DEF Reprioritise, RemoveProvider, ProbesTypeOK
<1>2. setting' = setting /\ changes' \in 0..setting.maxChanges
  BY SettingsAssumption DEF Reprioritise, RemoveProvider, Change, ProbesTypeOK
<1>3. UNCHANGED <<holder, noted, traffic, running, cursor, at, list, here, future, awaits,
                  swept, passed>> /\ disturbed' \in BOOLEAN
  BY DEF Reprioritise, RemoveProvider, schedule, clicks, history, ProbesTypeOK
<1> QED BY <1>1, <1>2, <1>3 DEF ProbesTypeOK

LEMMA TypesKept ==
  ASSUME ProbesTypeOK, SweepInv, [Next]_vars
  PROVE  ProbesTypeOK'
<1>0. IsInjective(order) /\ \A a \in Round: PlaceOK(a)
  BY DEF SweepInv
<1>1. ASSUME NEW h \in ByHand, Trigger(h) PROVE ProbesTypeOK'
  <2>1. h \in Actor
    BY DEF Actor, Checker, Round
  <2> QED BY <1>1, <2>1 DEF Trigger, Goes, clicks, history, bounds, Places, ProbesTypeOK
<1>2. CASE NoteRequest \/ CountRequests \/ UNCHANGED vars
  BY <1>2 DEF NoteRequest, CountRequests, vars, schedule, clicks, history, bounds, ProbesTypeOK
<1> QED BY <1>0, <1>1, <1>2, AutoTyped, PatrolTyped, ClicksTyped, IdleTyped, ChangesTyped DEF Next

-----------------------------------------------------------------------------
(* Rounds.  A step that moves no round to another stage of its sweep.      *)
LEMMA SweepRests ==
  ASSUME ProbesTypeOK, SweepInv,
         NEW a \in Actor, NEW place, Goes(a, place),
         a \in Round => at[a] \in InHand /\ place \in InHand,
         \A b \in Round: list'[b] = list[b] /\ here'[b] = here[b],
         UNCHANGED <<order, running, cursor, swept, passed, disturbed>>
  PROVE  SweepInv'
<1>1. \A b \in Round: b \in Actor
  BY DEF Actor, Checker
<1>2. \A b \in Round: at'[b] = at[b] \/ (at[b] \in InHand /\ at'[b] \in InHand)
  BY <1>1 DEF Goes, ProbesTypeOK
<1>3. \A b \in Round: PlaceOK(b) => PlaceOK(b)'
  BY <1>2 DEF PlaceOK, CurrentProvider, Planned, InHand
<1>4. \A b \in Round: Others(b)' = Others(b) /\ (Active(b)' <=> Active(b))
  BY <1>2 DEF Others, Active, InHand
<1>5. \A b \in Round: AloneOK(b) => AloneOK(b)'
  BY <1>4 DEF AloneOK
<1>7. \A b \in Round: SweepOK(b) => SweepOK(b)'
  BY <1>2 DEF SweepOK, Planned, InHand
<1>8. CursorOK => CursorOK'
  BY DEF CursorOK
<1> QED BY <1>3, <1>5, <1>7, <1>8 DEF SweepInv

(* While a sweep is undisturbed, a round that has begun is the only one.   *)
LEMMA NobodyElse ==
  ASSUME SweepInv, ~disturbed, NEW a \in Round, Active(a)
  PROVE  running /\ \A b \in Round \ {a}: at[b] = "off"
BY DEF SweepInv, AloneOK, Others

(* A step of a round that has begun, for what it leaves true of itself.    *)
LEMMA RoundMoves ==
  ASSUME ProbesTypeOK, SweepInv,
         NEW a \in Round, NEW place, Goes(a, place), Active(a),
         \A b \in Round \ {a}: list'[b] = list[b] /\ here'[b] = here[b],
         UNCHANGED <<order, disturbed>>, running' = running \/ place = "off",
         PlaceOK(a)',
         ~disturbed => CursorOK' /\ SweepOK(a)'
  PROVE  SweepInv'
<1>1. a \in Actor /\ \A b \in Round: b \in Actor
  BY DEF Actor, Checker
<1>2. at'[a] = place /\ \A b \in Round \ {a}: at'[b] = at[b]
  BY <1>1 DEF Goes, ProbesTypeOK
<1>3. \A b \in Round \ {a}: PlaceOK(b) => PlaceOK(b)'
  BY <1>2 DEF PlaceOK, CurrentProvider
<1>4. ASSUME ~disturbed, NEW b \in Round PROVE AloneOK(b)' /\ SweepOK(b)'
  <2>1. running /\ \A c \in Round \ {a}: at'[c] = "off"
    BY <1>2, <1>4, NobodyElse
  <2>2. CASE b = a
    <3>1. Others(a)' = {}
      BY <2>1 DEF Others
    <3>2. Active(a)' => running'
      BY <1>2, <2>1 DEF Active
    <3> QED BY <1>4, <2>2, <3>1, <3>2 DEF AloneOK
  <2>3. CASE b # a
    <3>1. at'[b] = "off"
      BY <2>1, <2>3
    <3> QED BY <3>1 DEF AloneOK, SweepOK, Active, Planned, InHand
  <2> QED BY <2>2, <2>3
<1> QED BY <1>3, <1>4 DEF SweepInv

(* A round that is over, for what it leaves true of the cursor.            *)
LEMMA RoundEnds ==
  ASSUME ProbesTypeOK, SweepInv,
         NEW a \in Round, Leaves(a), Active(a),
         UNCHANGED <<order, disturbed>>,
         ~disturbed => CursorOK'
  PROVE  SweepInv'
<1>1. a \in Actor /\ \A b \in Round: b \in Checker /\ b \in Actor
  BY DEF Actor, Checker
<1>2. Goes(a, "off") /\ at'[a] = "off"
  BY <1>1 DEF Leaves, Goes, ProbesTypeOK
<1>3. \A b \in Round \ {a}: list'[b] = list[b] /\ here'[b] = here[b]
  BY <1>1 DEF Leaves, ProbesTypeOK
<1>4. PlaceOK(a)' /\ SweepOK(a)'
  BY <1>2 DEF PlaceOK, SweepOK, Planned, InHand
<1> QED BY <1>2, <1>3, <1>4, RoundMoves

(* What is divided stays divided while nothing is swept or passed by.      *)
LEMMA CursorStays ==
  ASSUME CursorOK, UNCHANGED <<order, cursor, swept, passed>>
  PROVE  CursorOK'
BY DEF CursorOK

LEMMA RoundsThatLeave ==
  ASSUME ProbesTypeOK, SweepInv, NEW a \in Round,
         Postpone(a) \/ NothingToSweep(a) \/ FailRound(a)
  PROVE  SweepInv'
<1>1. Leaves(a) /\ Active(a)
  BY DEF Postpone, NothingToSweep, FailRound, Active
<1>2. UNCHANGED <<order, cursor, swept, passed, disturbed>>
  BY DEF Postpone, NothingToSweep, FailRound, schedule, history
<1>3. ~disturbed => CursorOK'
  BY <1>2, CursorStays DEF SweepInv
<1> QED BY <1>1, <1>2, <1>3, RoundEnds

(* A place in the list a round sweeps is the same place in what is left of *)
(* the order.                                                              *)
LEMMA SamePlace ==
  ASSUME NEW S, NEW s \in Seq(S), NEW l \in Seq(S), IsInjective(s), IsInjective(l), Within(s, l),
         NEW i \in DOMAIN s, NEW k \in DOMAIN l, s[i] = l[k], NEW n \in Nat,
         NEW key \in Key
  PROVE  /\ Before(s, i, n, key) => Before(l, k, n, key)
         /\ Before(l, k, n, key) /\ key[1] \in ToSet(s) => Before(s, i, n, key)
<1>0. DOMAIN s = 1..Len(s) /\ DOMAIN l = 1..Len(l) /\ Len(s) \in Nat /\ Len(l) \in Nat
  OBVIOUS
<1>1. ASSUME NEW j \in DOMAIN s, NEW m \in DOMAIN l, s[j] = l[m]
      PROVE  (j < i <=> m < k) /\ (j = i <=> m = k)
  <2>1. j = i <=> m = k
    BY <1>1 DEF IsInjective
  <2>2. (m < k => j < i) /\ (k < m => i < j)
    BY <1>1 DEF Within
  <2> QED BY <1>0, <2>1, <2>2
<1>2. ASSUME Before(s, i, n, key) PROVE Before(l, k, n, key)
  <2>1. PICK j \in DOMAIN s: s[j] = key[1] /\ (j < i \/ (j = i /\ key[2] < n))
    BY <1>2 DEF Before
  <2>2. PICK m \in DOMAIN l: l[m] = s[j]
    BY DEF Within
  <2> QED BY <1>1, <2>1, <2>2 DEF Before
<1>3. ASSUME Before(l, k, n, key), key[1] \in ToSet(s) PROVE Before(s, i, n, key)
  <2>1. PICK m \in DOMAIN l: l[m] = key[1] /\ (m < k \/ (m = k /\ key[2] < n))
    BY <1>3 DEF Before
  <2>2. PICK j \in DOMAIN s: s[j] = key[1]
    BY <1>3 DEF ToSet
  <2> QED BY <1>1, <2>1, <2>2 DEF Before
<1> QED BY <1>2, <1>3

LEMMA SameDivision ==
  ASSUME NEW S, NEW s \in Seq(S), NEW l \in Seq(S), IsInjective(s), IsInjective(l), Within(s, l),
         NEW i \in DOMAIN s, NEW k \in DOMAIN l, s[i] = l[k], NEW n \in Nat,
         NEW sw, NEW ps, Divides(l, k, n, sw, ps)
  PROVE  Divides(s, i, n, sw, ps)
<1> SUFFICES ASSUME NEW key \in Key
             PROVE  /\ Before(s, i, n, key) => key \in sw \/ key[1] \in ps
                    /\ key \in sw /\ key[1] \in ToSet(s) => Before(s, i, n, key)
  BY DEF Divides
<1>1. /\ Before(s, i, n, key) => Before(l, k, n, key)
      /\ Before(l, k, n, key) /\ key[1] \in ToSet(s) => Before(s, i, n, key)
  BY SamePlace
<1>2. key[1] \in ToSet(s) => key[1] \in ToSet(l)
  BY DEF ToSet, Within
<1> QED BY <1>1, <1>2 DEF Divides

LEMMA KeysTyped ==
  ASSUME NEW key \in Key
  PROVE  /\ key = <<key[1], key[2]>> /\ key[1] \in Provider /\ key[2] \in Nat
         /\ key[2] < KeyCount[key[1]]
<1>1. PICK p \in Provider: key \in {p} \X (0..(KeyCount[p] - 1))
  BY DEF Key
<1>2. KeyCount[p] \in Nat \ {0}
  BY KeysAssumption
<1> QED BY <1>1, <1>2

(* Past the last key of a provider is before the next one.                 *)
LEMMA ProviderDone ==
  ASSUME NEW l \in Seq(Provider), IsInjective(l), NEW k \in 1..Len(l), NEW n \in Nat,
         NEW sw, NEW ps, Divides(l, k, n, sw, ps),
         n >= KeyCount[l[k]]
  PROVE  Divides(l, k + 1, 0, sw, ps)
<1> SUFFICES ASSUME NEW key \in Key
             PROVE  Before(l, k, n, key) <=> Before(l, k + 1, 0, key)
  BY DEF Divides
<1>1. key[2] \in Nat /\ key[2] < KeyCount[key[1]] /\ key[1] \in Provider
  BY KeysTyped
<1>2. KeyCount[key[1]] \in Nat /\ DOMAIN l = 1..Len(l) /\ Len(l) \in Nat
  BY <1>1, KeysAssumption
<1>3. ASSUME NEW j \in DOMAIN l, l[j] = key[1]
      PROVE  (j < k \/ (j = k /\ key[2] < n)) <=> (j < k + 1 \/ (j = k + 1 /\ key[2] < 0))
  <2>1. j = k => key[2] < n
    BY <1>1, <1>2, <1>3
  <2>2. j \in Int /\ k \in Int /\ ~(key[2] < 0)
    BY <1>1, <1>2
  <2> QED BY <2>1, <2>2
<1> QED BY <1>3 DEF Before

(* A provider that is passed by is done with.                              *)
LEMMA ProviderPassed ==
  ASSUME NEW l \in Seq(Provider), IsInjective(l), NEW k \in 1..Len(l), NEW n \in Nat,
         NEW sw, NEW ps, Divides(l, k, n, sw, ps)
  PROVE  Divides(l, k + 1, 0, sw, ps \cup {l[k]})
<1> SUFFICES ASSUME NEW key \in Key
             PROVE  /\ Before(l, k + 1, 0, key) => Before(l, k, n, key) \/ key[1] = l[k]
                    /\ Before(l, k, n, key) => Before(l, k + 1, 0, key)
  BY DEF Divides
<1>1. key[2] \in Nat /\ DOMAIN l = 1..Len(l) /\ Len(l) \in Nat
  BY KeysTyped
<1>2. ASSUME NEW j \in DOMAIN l
      PROVE  /\ (j < k \/ (j = k /\ key[2] < n)) => (j < k + 1 \/ (j = k + 1 /\ key[2] < 0))
             /\ (j < k + 1 \/ (j = k + 1 /\ key[2] < 0)) => j < k \/ j = k
  BY <1>1
<1> QED BY <1>2 DEF Before

(* A key that is swept is behind.                                          *)
LEMMA KeySwept ==
  ASSUME NEW l \in Seq(Provider), IsInjective(l), NEW k \in 1..Len(l), NEW n \in Nat,
         NEW sw, NEW ps, Divides(l, k, n, sw, ps)
  PROVE  Divides(l, k, n + 1, sw \cup {<<l[k], n>>}, ps)
<1> SUFFICES ASSUME NEW key \in Key
             PROVE  /\ Before(l, k, n + 1, key) => Before(l, k, n, key) \/ key = <<l[k], n>>
                    /\ Before(l, k, n, key) => Before(l, k, n + 1, key)
                    /\ key = <<l[k], n>> => Before(l, k, n + 1, key)
  BY DEF Divides
<1>1. key = <<key[1], key[2]>> /\ key[2] \in Nat /\ DOMAIN l = 1..Len(l) /\ Len(l) \in Nat
  BY KeysTyped
<1>2. ASSUME Before(l, k, n + 1, key) PROVE Before(l, k, n, key) \/ key = <<l[k], n>>
  <2>1. PICK j \in DOMAIN l: l[j] = key[1] /\ (j < k \/ (j = k /\ key[2] < n + 1))
    BY <1>2 DEF Before
  <2>2. CASE j < k \/ key[2] < n
    BY <1>1, <2>1, <2>2 DEF Before
  <2>3. CASE ~(j < k \/ key[2] < n)
    <3>1. key[2] = n /\ key[1] = l[k]
      BY <1>1, <2>1, <2>3
    <3> QED BY <1>1, <3>1
  <2> QED BY <2>2, <2>3
<1>3. Before(l, k, n, key) => Before(l, k, n + 1, key)
  BY <1>1 DEF Before
<1>4. ASSUME key = <<l[k], n>> PROVE Before(l, k, n + 1, key)
  <2>1. l[k] = key[1] /\ key[2] = n /\ n < n + 1 /\ k \in DOMAIN l
    BY <1>4
  <2> QED BY <2>1 DEF Before
<1> QED BY <1>2, <1>3, <1>4

(* What is known of a round in its list.                                   *)
LEMMA InList ==
  ASSUME ProbesTypeOK, SweepInv, NEW a \in Round, at[a] \in InHand \cup {"entering"}
  PROVE  /\ a \in Checker /\ a \in Actor /\ Active(a)
         /\ list[a] \in Seq(Provider) /\ IsInjective(list[a])
         /\ here[a][1] \in 1..Len(list[a]) /\ here[a][2] \in Nat
         /\ list[a][here[a][1]] \in Provider /\ CurrentProvider(a) = list[a][here[a][1]]
         /\ ~disturbed =>
              Within(order, list[a]) /\ Divides(list[a], here[a][1], here[a][2], swept, passed)
<1>1. PlaceOK(a) /\ (~disturbed => SweepOK(a))
  BY DEF SweepInv
<1>2. /\ IsInjective(list[a])
      /\ ~disturbed =>
           Within(order, list[a]) /\ Divides(list[a], here[a][1], here[a][2], swept, passed)
  BY <1>1 DEF PlaceOK, SweepOK, Planned
<1>3. Active(a)
  BY DEF Active, InHand
<1> QED BY <1>1, <1>2, <1>3, PlaceTyped DEF CurrentProvider

LEMMA CursorFollows ==
  ASSUME ProbesTypeOK, IsInjective(order), NEW l \in Seq(Provider), IsInjective(l),
         Within(order, l), NEW k \in 1..Len(l), NEW n \in Nat, NEW sw, NEW ps,
         Divides(l, k, n, sw, ps)
  PROVE  \A i \in DOMAIN order: order[i] = l[k] => Divides(order, i, n, sw, ps)
<1>1. order \in Seq(Provider)
  BY DEF ProbesTypeOK
<1> TAKE i \in DOMAIN order
<1> HAVE order[i] = l[k]
<1> QED BY <1>1, SameDivision

LEMMA InterruptKeepsSweep ==
  ASSUME ProbesTypeOK, SweepInv, NEW a \in Round, Interrupt(a)
  PROVE  SweepInv'
<1>1. at[a] \in InHand /\ Leaves(a) /\ UNCHANGED <<order, swept, passed, disturbed>>
  BY DEF Interrupt, InHand, history
<1>2. cursor' = <<list[a][here[a][1]], here[a][2]>>
  BY DEF Interrupt, CurrentKey, CurrentProvider
<1>3. ASSUME ~disturbed PROVE CursorOK'
  <2>1. \A i \in DOMAIN order: order[i] = list[a][here[a][1]] =>
          Divides(order, i, here[a][2], swept, passed)
    BY <1>1, <1>3, InList, CursorFollows DEF SweepInv
  <2> QED BY <1>1, <1>2, <2>1 DEF CursorOK
<1> QED BY <1>1, <1>3, InList, RoundEnds

(* The round goes on to the next provider, with what is divided there.     *)
LEMMA OnToNextProvider ==
  ASSUME ProbesTypeOK, SweepInv, NEW a \in Round, at[a] \in InHand \cup {"entering"},
         NextProvider(a), UNCHANGED <<list, order, running, disturbed>>,
         ~disturbed =>
           CursorOK' /\ Divides(list[a], here[a][1] + 1, 0, swept', passed')
  PROVE  SweepInv'
<1> DEFINE k == here[a][1]
           place == IF k < Len(list[a]) THEN "entering" ELSE "swept"
<1>1. /\ a \in Checker /\ a \in Actor /\ Active(a) /\ list[a] \in Seq(Provider)
      /\ IsInjective(list[a]) /\ k \in 1..Len(list[a])
  BY InList
<1>2. Goes(a, place) /\ here' = [here EXCEPT ![a] = <<k + 1, 0>>]
  BY DEF NextProvider
<1>3. at'[a] = place /\ here'[a] = <<k + 1, 0>> /\ list'[a] = list[a]
      /\ \A b \in Round \ {a}: list'[b] = list[b] /\ here'[b] = here[b]
  <2>1. \A b \in Round: b \in Checker
    BY DEF Checker
  <2> QED BY <1>1, <1>2, <2>1 DEF Goes, ProbesTypeOK
<1>4. place \in {"entering", "swept"}
      /\ (place = "entering" => k + 1 \in 1..Len(list[a]))
      /\ (place = "swept" => k + 1 = Len(list[a]) + 1)
  BY <1>1
<1> HIDE DEF k, place
<1>5. PlaceOK(a)'
  <2>1. DOMAIN list[a] = 1..Len(list[a])
    BY <1>1
  <2>2. here'[a][1] = k + 1
    BY <1>3
  <2> QED BY <1>1, <1>3, <1>4, <2>1, <2>2 DEF PlaceOK, InHand, Planned
<1>6. ASSUME ~disturbed PROVE CursorOK' /\ SweepOK(a)'
  <2>1. Within(order', list'[a])
    BY <1>3, <1>6, InList
  <2>2. Divides(list'[a], here'[a][1], here'[a][2], swept', passed')
    BY <1>3, <1>6 DEF k
  <2> QED BY <1>6, <2>1, <2>2 DEF SweepOK
<1> QED BY <1>1, <1>2, <1>3, <1>5, <1>6, RoundMoves

LEMMA PassByKeepsSweep ==
  ASSUME ProbesTypeOK, SweepInv, NEW a \in Round, PassBy(a)
  PROVE  SweepInv'
<1>1. /\ at[a] = "entering" /\ NextProvider(a)
      /\ UNCHANGED <<list, order, running, cursor, swept, disturbed>>
      /\ passed' = passed \cup {CurrentProvider(a)}
  BY DEF PassBy, schedule
<1>2. ASSUME ~disturbed PROVE CursorOK'
  <2>1. CursorOK /\ passed \subseteq passed'
    BY <1>1, <1>2 DEF SweepInv
  <2>2. \A l, i, n: Divides(l, i, n, swept, passed) => Divides(l, i, n, swept, passed')
    BY <2>1 DEF Divides
  <2> QED BY <1>1, <2>1, <2>2 DEF CursorOK
<1>3. ASSUME ~disturbed PROVE Divides(list[a], here[a][1] + 1, 0, swept', passed')
  BY <1>1, <1>3, InList, ProviderPassed
<1> QED BY <1>1, <1>2, <1>3, OnToNextProvider

(* The round stays with its provider, at the key it is at or the next.     *)
LEMMA OnToKey ==
  ASSUME ProbesTypeOK, SweepInv, NEW a \in Round, at[a] \in InHand \cup {"entering"},
         Goes(a, "checking"), UNCHANGED <<list, order, running, disturbed>>,
         NEW n \in Nat, here' = [here EXCEPT ![a] = <<here[a][1], n>>],
         n < KeyCount[CurrentProvider(a)],
         ~disturbed => CursorOK' /\ Divides(list[a], here[a][1], n, swept', passed')
  PROVE  SweepInv'
<1>1. /\ a \in Checker /\ a \in Actor /\ Active(a) /\ list[a] \in Seq(Provider)
      /\ IsInjective(list[a]) /\ here[a][1] \in 1..Len(list[a])
  BY InList
<1>2. at'[a] = "checking" /\ here'[a] = <<here[a][1], n>> /\ list'[a] = list[a]
      /\ \A b \in Round \ {a}: list'[b] = list[b] /\ here'[b] = here[b]
  <2>1. \A b \in Round: b \in Checker
    BY DEF Checker
  <2> QED BY <1>1, <2>1 DEF Goes, ProbesTypeOK
<1>3. here'[a][1] = here[a][1] /\ here'[a][2] = n
  BY <1>2
<1>4. PlaceOK(a)'
  BY <1>1, <1>2, <1>3 DEF PlaceOK, CurrentProvider, InHand, Planned
<1>5. ASSUME ~disturbed PROVE CursorOK' /\ SweepOK(a)'
  <2>1. Within(order', list'[a])
    BY <1>2, <1>5, InList
  <2>2. Divides(list'[a], here'[a][1], here'[a][2], swept', passed')
    BY <1>2, <1>3, <1>5
  <2> QED BY <1>5, <2>1, <2>2 DEF SweepOK
<1> QED BY <1>1, <1>2, <1>4, <1>5, RoundMoves

LEMMA EnterKeepsSweep ==
  ASSUME ProbesTypeOK, SweepInv, NEW a \in Round, Enter(a)
  PROVE  SweepInv'
<1>1. at[a] = "entering" /\ UNCHANGED <<list, order, running, cursor, swept, passed, disturbed>>
  BY DEF Enter, schedule, history
<1>2. /\ a \in Checker /\ here[a] = <<here[a][1], here[a][2]>> /\ here[a][2] \in Nat
      /\ KeyCount[list[a][here[a][1]]] \in Nat
  BY <1>1, InList, PlaceTyped, KeysAssumption DEF SweepInv
<1>3. ~disturbed => CursorOK'
  BY <1>1, CursorStays DEF SweepInv
<1>4. CASE here[a][2] < KeyCount[CurrentProvider(a)]
  <2>1. Goes(a, "checking") /\ here' = here
    BY <1>4 DEF Enter
  <2>2. here' = [here EXCEPT ![a] = <<here[a][1], here[a][2]>>]
    BY <1>2, <2>1 DEF ProbesTypeOK
  <2>3. ~disturbed => Divides(list[a], here[a][1], here[a][2], swept', passed')
    BY <1>1, InList
  <2> QED BY <1>1, <1>2, <1>3, <1>4, <2>1, <2>2, <2>3, OnToKey
<1>5. CASE ~(here[a][2] < KeyCount[CurrentProvider(a)])
  <2>1. NextProvider(a)
    BY <1>5 DEF Enter
  <2>2. here[a][2] >= KeyCount[list[a][here[a][1]]]
    BY <1>2, <1>5 DEF CurrentProvider
  <2>3. ~disturbed => Divides(list[a], here[a][1] + 1, 0, swept', passed')
    BY <1>1, <2>2, InList, ProviderDone
  <2> QED BY <1>1, <1>3, <2>1, <2>3, OnToNextProvider
<1> QED BY <1>4, <1>5

LEMMA KeyDoneKeepsSweep ==
  ASSUME ProbesTypeOK, SweepInv, NEW a \in Round, at[a] \in InHand, KeyDone(a)
  PROVE  SweepInv'
<1> DEFINE l == list[a]
           k == here[a][1]
           n == here[a][2]
<1>1. /\ UNCHANGED <<list, order, running, passed, disturbed>>
      /\ cursor' = <<l[k], n + 1>> /\ swept' = swept \cup {<<l[k], n>>}
  BY DEF KeyDone, CurrentProvider, CurrentKey
<1>2. /\ a \in Checker /\ l \in Seq(Provider) /\ IsInjective(l) /\ k \in 1..Len(l) /\ n \in Nat
      /\ here[a] = <<k, n>> /\ KeyCount[l[k]] \in Nat /\ CurrentProvider(a) = l[k]
      /\ ~disturbed => Within(order, l) /\ Divides(l, k, n, swept, passed)
  BY InList, PlaceTyped, KeysAssumption DEF SweepInv
<1>3. KeyDone(a) =>
        IF n + 1 < KeyCount[l[k]]
        THEN here' = [here EXCEPT ![a] = [here[a] EXCEPT ![2] = n + 1]] /\ Goes(a, "checking")
        ELSE NextProvider(a)
  BY <1>2 DEF KeyDone
<1> HIDE DEF l, k, n
<1>4. ~disturbed => Divides(l, k, n + 1, swept', passed')
  BY <1>1, <1>2, KeySwept
<1>5. ASSUME ~disturbed PROVE CursorOK'
  <2>1. n + 1 \in Nat
    BY <1>2
  <2>2. \A i \in DOMAIN order: order[i] = l[k] => Divides(order, i, n + 1, swept', passed')
    BY <1>2, <1>4, <1>5, <2>1, CursorFollows DEF SweepInv
  <2> QED BY <1>1, <2>2 DEF CursorOK
<1>6. CASE n + 1 < KeyCount[l[k]]
  <2>1. Goes(a, "checking") /\ here' = [here EXCEPT ![a] = [here[a] EXCEPT ![2] = n + 1]]
    BY <1>3, <1>6
  <2>2. [here[a] EXCEPT ![2] = n + 1] = <<k, n + 1>>
    BY <1>2
  <2>3. here' = [here EXCEPT ![a] = <<k, n + 1>>]
    BY <2>1, <2>2
  <2>4. n + 1 \in Nat /\ n + 1 < KeyCount[CurrentProvider(a)]
    BY <1>2, <1>6
  <2> QED BY <1>1, <1>4, <1>5, <2>1, <2>3, <2>4, OnToKey DEF l, k
<1>7. CASE ~(n + 1 < KeyCount[l[k]])
  <2>1. NextProvider(a)
    BY <1>3, <1>7
  <2>2. n + 1 \in Nat /\ n + 1 >= KeyCount[l[k]]
    BY <1>2, <1>7
  <2>3. ~disturbed => Divides(l, k + 1, 0, swept', passed')
    BY <1>2, <1>4, <2>2, ProviderDone
  <2> QED BY <1>1, <1>5, <2>1, <2>3, OnToNextProvider DEF l, k
<1> QED BY <1>6, <1>7

LEMMA PlanKeepsSweep ==
  ASSUME ProbesTypeOK, SweepInv, NEW a \in Round, PlanSweep(a)
  PROVE  SweepInv'
<1> DEFINE j == CHOOSE i \in DOMAIN order: order[i] = cursor[1]
           k == IF Resumes(order) THEN j ELSE 1
           n == IF Resumes(order) THEN cursor[2] ELSE 0
<1>1. /\ a \in Checker /\ a \in Actor /\ \A b \in Round: b \in Checker
      /\ order \in Seq(Provider) /\ DOMAIN order = 1..Len(order) /\ Len(order) \in Nat
      /\ IsInjective(order)
  BY DEF Checker, Actor, ProbesTypeOK, SweepInv
<1>2. /\ Active(a) /\ Goes(a, "entering") /\ UNCHANGED <<order, running, cursor, disturbed>>
      /\ list' = [list EXCEPT ![a] = order] /\ order # << >>
      /\ IF Resumes(order) \/ Others(a) # {} THEN UNCHANGED <<swept, passed>>
         ELSE swept' = {} /\ passed' = {}
  BY DEF PlanSweep, Active, schedule
<1>3. here' = [here EXCEPT ![a] = <<k, n>>]
  <2>1. CASE Resumes(order)
    BY <2>1 DEF PlanSweep
  <2>2. CASE ~Resumes(order)
    BY <2>2 DEF PlanSweep
  <2> QED BY <2>1, <2>2
<1>4. Resumes(order) => j \in DOMAIN order /\ order[j] = cursor[1]
  BY DEF Resumes, ToSet
<1>5. k \in 1..Len(order)
  <2>1. Len(order) # 0
    BY <1>1, <1>2
  <2> QED BY <1>1, <1>4, <2>1
<1> HIDE DEF j, k, n
<1>6. /\ at'[a] = "entering" /\ list'[a] = order /\ here'[a] = <<k, n>>
      /\ \A b \in Round \ {a}: list'[b] = list[b] /\ here'[b] = here[b]
  BY <1>1, <1>2, <1>3 DEF Goes, ProbesTypeOK
<1>7. PlaceOK(a)'
  BY <1>1, <1>5, <1>6 DEF PlaceOK, InHand, Planned
<1>8. ASSUME ~disturbed PROVE CursorOK' /\ SweepOK(a)'
  <2>1. Others(a) = {} /\ CursorOK
    BY <1>2, <1>8 DEF SweepInv, AloneOK
  <2>2. Within(order, order)
    BY <1>1 DEF Within, IsInjective
  <2>3. CursorOK' /\ Divides(order, k, n, swept', passed')
    <3>1. CASE Resumes(order)
      <4>1. k = j /\ n = cursor[2] /\ UNCHANGED <<swept, passed>>
        BY <1>2, <3>1 DEF k, n
      <4>2. Divides(order, k, n, swept, passed)
        BY <1>4, <2>1, <3>1, <4>1 DEF CursorOK, Resumes
      <4> QED BY <1>2, <2>1, <4>1, <4>2, CursorStays
    <3>2. CASE ~Resumes(order)
      <4>1. k = 1 /\ n = 0 /\ swept' = {}
        BY <1>2, <2>1, <3>2 DEF k, n
      <4>2. \A key \in Key: ~Before(order, 1, 0, key)
        <5> TAKE key \in Key
        <5>1. key[2] \in Nat
          BY KeysTyped
        <5>2. \A i \in 1..Len(order): ~(i < 1) /\ ~(key[2] < 0)
          BY <5>1
        <5> QED BY <1>1, <5>2 DEF Before
      <4>3. CursorOK'
        BY <1>2, <3>2 DEF CursorOK, Resumes, ToSet
      <4> QED BY <4>1, <4>2, <4>3 DEF Divides
    <3> QED BY <3>1, <3>2
  <2>4. Within(order', list'[a]) /\ Divides(list'[a], here'[a][1], here'[a][2], swept', passed')
    BY <1>2, <1>6, <2>2, <2>3
  <2> QED BY <2>3, <2>4 DEF SweepOK
<1> QED BY <1>1, <1>2, <1>6, <1>7, <1>8, RoundMoves

(* A sweep that is complete leaves nothing to resume.                      *)
LEMMA CompletionKeepsSweep ==
  ASSUME ProbesTypeOK, SweepInv, NEW a \in Round, CompleteSweep(a)
  PROVE  SweepInv'
<1>1. a \in Actor /\ a \in Checker /\ \A b \in Round: b \in Checker /\ b \in Actor
  BY DEF Actor, Checker
<1>2. /\ Leaves(a) /\ Goes(a, "off") /\ cursor' = None /\ order' = order
      /\ disturbed' = (Others(a) # {})
  BY DEF CompleteSweep, Leaves
<1>3. at'[a] = "off" /\ \A b \in Round \ {a}: at'[b] = at[b] /\ list'[b] = list[b] /\ here'[b] = here[b]
  BY <1>1, <1>2 DEF Leaves, Goes, ProbesTypeOK
<1>4. ASSUME NEW b \in Round PROVE PlaceOK(b)'
  BY <1>3 DEF SweepInv, PlaceOK, CurrentProvider, InHand, Planned
<1>5. ASSUME ~disturbed', NEW b \in Round PROVE AloneOK(b)' /\ SweepOK(b)'
  <2>1. at'[b] = "off"
    BY <1>2, <1>3, <1>5 DEF Others
  <2> QED BY <2>1 DEF AloneOK, SweepOK, Active, Planned, InHand
<1>6. CursorOK' /\ IsInjective(order')
  BY <1>2 DEF CursorOK, SweepInv
<1> QED BY <1>4, <1>5, <1>6 DEF SweepInv

(* A round that begins beside another disturbs the sweep.                  *)
LEMMA BeginningKeepsSweep ==
  ASSUME ProbesTypeOK, SweepInv, NEW a \in Round, BeginRound(a)
  PROVE  SweepInv'
<1>1. a \in Actor /\ \A b \in Round: b \in Actor
  BY DEF Actor, Checker
<1>2. /\ Goes(a, "begun") /\ at[a] \in {"off", "triggered"} /\ running' = TRUE
      /\ disturbed' = (disturbed \/ Others(a) # {})
      /\ UNCHANGED <<order, cursor, list, here, swept, passed>>
  BY DEF BeginRound
<1>3. at'[a] = "begun" /\ \A b \in Round \ {a}: at'[b] = at[b]
  BY <1>1, <1>2 DEF Goes, ProbesTypeOK
<1>4. ASSUME NEW b \in Round PROVE PlaceOK(b)'
  BY <1>2, <1>3 DEF SweepInv, PlaceOK, CurrentProvider, InHand, Planned
<1>5. ASSUME ~disturbed' PROVE CursorOK' /\ \A b \in Round: AloneOK(b)' /\ SweepOK(b)'
  <2>1. ~disturbed /\ Others(a) = {}
    BY <1>2, <1>5
  <2>2. CursorOK'
    BY <1>2, <2>1, CursorStays DEF SweepInv
  <2>3. \A b \in Round \ {a}: at'[b] = "off"
    BY <1>3, <2>1 DEF Others
  <2>4. \A b \in Round: SweepOK(b)'
    BY <1>3, <2>3 DEF SweepOK, Planned, InHand
  <2>5. \A b \in Round: AloneOK(b)'
    BY <1>2, <1>3, <2>3 DEF AloneOK, Active, Others
  <2> QED BY <2>2, <2>4, <2>5
<1>6. IsInjective(order')
  BY <1>2 DEF SweepInv
<1> QED BY <1>4, <1>5, <1>6 DEF SweepInv

(* A trigger starts a thread only while no round is running.               *)
LEMMA TriggerKeepsSweep ==
  ASSUME ProbesTypeOK, SweepInv, NEW h \in ByHand, Trigger(h)
  PROVE  SweepInv'
<1>1. h \in Round /\ h \in Actor /\ \A b \in Round: b \in Actor
  BY DEF Actor, Checker, Round
<1>2. /\ Goes(h, "triggered") /\ at[h] = "off" /\ ~running
      /\ UNCHANGED <<order, cursor, list, here, swept, passed, disturbed>>
  BY DEF Trigger, history
<1>3. at'[h] = "triggered" /\ \A b \in Round \ {h}: at'[b] = at[b]
  BY <1>1, <1>2 DEF Goes, ProbesTypeOK
<1>4. ASSUME NEW b \in Round PROVE PlaceOK(b)'
  BY <1>2, <1>3 DEF SweepInv, PlaceOK, CurrentProvider, InHand, Planned
<1>5. ASSUME ~disturbed PROVE CursorOK' /\ \A b \in Round: AloneOK(b)' /\ SweepOK(b)'
  <2>1. \A b \in Round: ~Active(b)
    BY <1>2, <1>5 DEF SweepInv, AloneOK
  <2>2. \A b \in Round: at'[b] \in {"off", "triggered"}
    BY <1>3, <2>1 DEF Active
  <2>3. CursorOK'
    BY <1>2, <1>5, CursorStays DEF SweepInv
  <2> QED BY <2>2, <2>3 DEF AloneOK, SweepOK, Active, Planned, InHand
<1>6. IsInjective(order')
  BY <1>2 DEF SweepInv
<1> QED BY <1>2, <1>4, <1>5, <1>6 DEF SweepInv

LEMMA WithinIsTransitive ==
  ASSUME NEW r, NEW s, NEW l, Within(r, s), Within(s, l)
  PROVE  Within(r, l)
<1>1. ASSUME NEW i \in DOMAIN r PROVE \E k \in DOMAIN l: l[k] = r[i]
  BY DEF Within
<1>2. ASSUME NEW i \in DOMAIN r, NEW j \in DOMAIN r, NEW k \in DOMAIN l, NEW m \in DOMAIN l,
             l[k] = r[i], l[m] = r[j], k < m
      PROVE  i < j
  <2>1. PICK ii \in DOMAIN s, jj \in DOMAIN s: s[ii] = r[i] /\ s[jj] = r[j]
    BY DEF Within
  <2>2. ii < jj
    BY <1>2, <2>1 DEF Within
  <2> QED BY <2>1, <2>2 DEF Within
<1> QED BY <1>1, <1>2 DEF Within

(* Without one of its providers, the order keeps its place under a sweep.  *)
LEMMA RemovalKeepsSweep ==
  ASSUME ProbesTypeOK, SweepInv, NEW p \in Provider, RemoveProvider(p)
  PROVE  SweepInv'
<1>1. /\ UNCHANGED <<at, list, here, running, cursor, swept, passed, disturbed>>
      /\ order \in Seq(Provider) /\ IsInjective(order)
  BY DEF RemoveProvider, schedule, history, ProbesTypeOK, SweepInv
<1>2. order' \in Seq(Provider) /\ IsInjective(order') /\ Within(order', order)
  BY <1>1, RemovalWithin DEF RemoveProvider
<1>3. ASSUME NEW a \in Round
      PROVE  /\ PlaceOK(a)'
             /\ AloneOK(a) => AloneOK(a)'
             /\ SweepOK(a) => SweepOK(a)'
  BY <1>1, <1>2, WithinIsTransitive
     DEF SweepInv, PlaceOK, CurrentProvider, AloneOK, Active, Others, SweepOK
<1>4. ASSUME CursorOK PROVE CursorOK'
  <2> SUFFICES ASSUME cursor # None, NEW i \in DOMAIN order', order'[i] = cursor[1]
               PROVE  Divides(order', i, cursor[2], swept, passed)
    BY <1>1 DEF CursorOK
  <2>1. PICK k \in DOMAIN order: order[k] = order'[i]
    BY <1>2 DEF Within
  <2>2. Divides(order, k, cursor[2], swept, passed)
    BY <1>4, <2>1 DEF CursorOK
  <2>3. cursor[2] \in Nat
    BY KeysAssumption DEF ProbesTypeOK
  <2> QED BY <1>1, <1>2, <2>1, <2>2, <2>3, SameDivision
<1> QED BY <1>1, <1>2, <1>3, <1>4 DEF SweepInv

LEMMA ReorderingKeepsSweep ==
  ASSUME ProbesTypeOK, SweepInv, Reprioritise
  PROVE  SweepInv'
<1>1. /\ UNCHANGED <<at, list, here>> /\ disturbed' = TRUE
      /\ order' = Reverse(order) /\ order \in Seq(Provider) /\ IsInjective(order)
  BY DEF Reprioritise, ProbesTypeOK, SweepInv
<1>2. IsInjective(order')
  BY <1>1, ReverseInjective
<1>3. \A a \in Round: PlaceOK(a)'
  BY <1>1 DEF SweepInv, PlaceOK, CurrentProvider
<1> QED BY <1>1, <1>2, <1>3 DEF SweepInv

(* What the readiness checker does to its own plan is nothing to a round.  *)
LEMMA AutoKeepsSweep ==
  ASSUME ProbesTypeOK, SweepInv, NEW a \in Checker, RunAuto(a)
  PROVE  SweepInv'
<1> DEFINE still == UNCHANGED <<order, running, cursor, swept, passed, disturbed>>
<1>0. a \in Actor /\ \A b \in Round: b \in Checker
  BY DEF Actor, Checker
<1>1. ASSUME still, UNCHANGED <<list, here>>, NEW place, Goes(a, place),
             a \in Round => at[a] \in InHand /\ place \in InHand
      PROVE  SweepInv'
  BY <1>0, <1>1, SweepRests
<1>2. CASE TakeAuto(a) \/ StartAuto(a)
  <2>1. still /\ UNCHANGED <<list, here>> /\ at[a] \in InHand
    BY <1>2 DEF TakeAuto, StartAuto, schedule, history, InHand
  <2>2. PICK place \in InHand: Goes(a, place)
    BY <1>2 DEF TakeAuto, StartAuto, InHand
  <2> QED BY <1>1, <2>1, <2>2
<1>3. CASE Decline(a) \/ Cancel(a) \/ EndAuto(a)
  <2>1. at[a] \in InHand /\ (Unhealthy(a) \/ Healthy(a))
    BY <1>3 DEF Decline, Cancel, EndAuto, InHand
  <2>2. CASE a \in Round /\ KeyDone(a)
    BY <2>1, <2>2, KeyDoneKeepsSweep
  <2>3. CASE RetryModel(a)
    <3>1. still /\ UNCHANGED <<list, here>> /\ Goes(a, "taking") /\ "taking" \in InHand
      BY <2>3 DEF RetryModel, schedule, history, InHand
    <3> QED BY <1>1, <2>1, <3>1
  <2>4. CASE a \notin Round /\ (NextPlanned(a) \/ Leaves(a)) /\ still
    <3>1. PICK place \in Places: Goes(a, place)
      BY <2>4 DEF NextPlanned, Leaves, Places
    <3>2. \A b \in Round: list'[b] = list[b] /\ here'[b] = here[b]
      BY <1>0, <2>4 DEF NextPlanned, Leaves, ProbesTypeOK
    <3> QED BY <1>0, <2>4, <3>1, <3>2, SweepRests
  <2>5. (NextPlanned(a) \/ (Healthy(a) /\ a \notin Round)) =>
          a \notin Round /\ (NextPlanned(a) \/ Leaves(a)) /\ still
    BY ActorsAssumption DEF NextPlanned, Healthy, schedule, history
  <2> QED BY <2>1, <2>2, <2>3, <2>4, <2>5 DEF Unhealthy, Healthy
<1> QED BY <1>2, <1>3 DEF RunAuto

LEMMA PatrolKeepsSweep ==
  ASSUME ProbesTypeOK, SweepInv, NEW a \in Round, Patrol(a)
  PROVE  SweepInv'
<1>1. CASE Proceed(a)
  <2>1. a \in Actor /\ at[a] \in InHand /\ Goes(a, "taking") /\ "taking" \in InHand
    BY <1>1 DEF Proceed, Actor, Checker, InHand
  <2>2. UNCHANGED <<order, running, cursor, swept, passed, disturbed, list, here>>
    BY <1>1 DEF Proceed, schedule, history
  <2> QED BY <2>1, <2>2, SweepRests
<1>2. CASE SkipKey(a)
  BY <1>2, KeyDoneKeepsSweep DEF SkipKey, InHand
<1> QED BY <1>1, <1>2, BeginningKeepsSweep, RoundsThatLeave, PlanKeepsSweep, PassByKeepsSweep,
           EnterKeepsSweep, InterruptKeepsSweep, CompletionKeepsSweep DEF Patrol

LEMMA ClicksKeepSweep ==
  ASSUME ProbesTypeOK, SweepInv, NEW c \in Click,
         ClickKey(c) \/ TakeManual(c) \/ Test(c) \/ GiveUp(c)
  PROVE  SweepInv'
<1>1. c \in Actor /\ c \notin Round
  BY ActorsAssumption DEF Actor, Checker
<1>2. UNCHANGED <<order, running, cursor, swept, passed, disturbed, list, here>>
  BY DEF ClickKey, TakeManual, Test, EndManual, Withdraw, Follow, GiveUp, clickUnchanged,
         schedule, history
<1>3. PICK place: Goes(c, place)
  BY DEF ClickKey, TakeManual, Test, EndManual, Withdraw, Follow, GiveUp
<1> QED BY <1>1, <1>2, <1>3, SweepRests

LEMMA SweepKept ==
  ASSUME ProbesTypeOK, SweepInv, [Next]_vars
  PROVE  SweepInv'
<1>1. CASE BeginIdle
  <2>1. Idle \in Actor /\ Idle \notin Round /\ \A b \in Round: b \in Checker
    BY ActorsAssumption DEF Actor, Checker
  <2>2. Goes(Idle, "taking") /\ UNCHANGED <<order, running, cursor, swept, passed, disturbed>>
    BY <1>1 DEF BeginIdle, schedule, history
  <2>3. \A b \in Round: list'[b] = list[b] /\ here'[b] = here[b]
    BY <1>1, <2>1 DEF BeginIdle, ProbesTypeOK
  <2> QED BY <2>1, <2>2, <2>3, SweepRests
<1>2. CASE NoteRequest \/ CountRequests \/ UNCHANGED vars
  <2>1. UNCHANGED <<order, running, cursor, at, list, here, swept, passed, disturbed>>
    BY <1>2 DEF NoteRequest, CountRequests, vars, schedule, history
  <2> QED BY <2>1 DEF SweepInv, PlaceOK, CurrentProvider, CursorOK, AloneOK, Active, Others, SweepOK
<1> QED BY <1>1, <1>2, TriggerKeepsSweep, PatrolKeepsSweep, AutoKeepsSweep, ClicksKeepSweep,
           RemovalKeepsSweep, ReorderingKeepsSweep DEF Next

LEMMA SweepInitially == ProbesInit => SweepInv
BY OrderAssumption, ActorsAssumption
   DEF ProbesInit, SweepInv, PlaceOK, CursorOK, AloneOK, SweepOK, Active, Planned, InHand,
       Actor, Checker

(* The state of the probes keeps its types: no round is ever at a provider *)
(* or a key that its list does not have, and no cursor is left past the    *)
(* keys of its provider.                                                   *)
THEOREM ProbesTypeCorrect == Spec => []ProbesTypeOK
<1>1. ProbesTypeOK /\ SweepInv /\ [Next]_vars => ProbesTypeOK' /\ SweepInv'
  BY TypesKept, SweepKept
<1> QED BY TypesInitially, SweepInitially, <1>1, PTL DEF Spec

(* A round whose sweep ends has its whole list behind it.                  *)
LEMMA CompleteAtTheEnd ==
  ASSUME ProbesTypeOK, SweepInv, NEW a \in Round, at[a] = "swept", ~disturbed,
         NEW key \in Key, key[1] \in ToSet(order)
  PROVE  key \in swept \/ key[1] \in passed
<1>1. /\ a \in Checker /\ list[a] \in Seq(Provider) /\ here[a][1] = Len(list[a]) + 1
      /\ Within(order, list[a]) /\ Divides(list[a], here[a][1], here[a][2], swept, passed)
  BY PlaceTyped DEF SweepInv, PlaceOK, SweepOK, Planned
<1>2. PICK k \in DOMAIN list[a]: list[a][k] = key[1]
  BY <1>1 DEF ToSet, Within
<1>3. k < here[a][1]
  BY <1>1
<1>4. Before(list[a], here[a][1], here[a][2], key)
  BY <1>2, <1>3 DEF Before
<1> QED BY <1>1, <1>4 DEF Divides

(* A round that ends what it does for a key has not swept it before.       *)
LEMMA FreshAtHand ==
  ASSUME ProbesTypeOK, SweepInv, NEW a \in Round, at[a] \in InHand, ~disturbed
  PROVE  CurrentKey(a) \notin swept
<1>1. /\ list[a] \in Seq(Provider) /\ IsInjective(list[a])
      /\ here[a][1] \in 1..Len(list[a]) /\ here[a][2] \in Nat
      /\ CurrentProvider(a) = list[a][here[a][1]] /\ CurrentKey(a) \in Key
      /\ Divides(list[a], here[a][1], here[a][2], swept, passed)
  BY InList, PlaceTyped DEF SweepInv
<1>2. CurrentKey(a)[1] = list[a][here[a][1]] /\ CurrentKey(a)[2] = here[a][2]
  BY <1>1 DEF CurrentKey
<1>3. ~Before(list[a], here[a][1], here[a][2], CurrentKey(a))
  BY <1>1, <1>2 DEF Before, IsInjective
<1>4. CurrentKey(a)[1] \in ToSet(list[a])
  BY <1>1, <1>2 DEF ToSet
<1> QED BY <1>1, <1>3, <1>4 DEF Divides

(* However many rounds there are and wherever they are interrupted, fail   *)
(* or lose a provider: a sweep that ends undisturbed has visited or passed *)
(* by every key of every provider that is still there.                     *)
THEOREM SweepsVisitEveryKey == Spec => SweepsAreComplete
<1>1. ProbesTypeOK /\ SweepInv /\ [Next]_vars => ProbesTypeOK' /\ SweepInv'
  BY TypesKept, SweepKept
<1>2. ProbesTypeOK /\ SweepInv /\ [Next]_vars =>
        [\A a \in Round:
           at[a] = "swept" /\ at'[a] = "off" /\ ~disturbed =>
             \A key \in Key: key[1] \in ToSet(order) => key \in swept \/ key[1] \in passed]_vars
  BY CompleteAtTheEnd
<1> QED BY TypesInitially, SweepInitially, <1>1, <1>2, PTL DEF Spec, SweepsAreComplete

(* Under the same conditions no sweep visits a key again, whatever cursor  *)
(* it was resumed from.                                                    *)
THEOREM NoKeySweptTwice == Spec => NothingSweptTwice
<1>1. ProbesTypeOK /\ SweepInv /\ [Next]_vars => ProbesTypeOK' /\ SweepInv'
  BY TypesKept, SweepKept
<1>2. ProbesTypeOK /\ SweepInv /\ [Next]_vars =>
        [\A a \in Round: Probed(a) /\ ~disturbed => CurrentKey(a) \notin swept]_vars
  BY FreshAtHand DEF Probed, InHand
<1> QED BY TypesInitially, SweepInitially, <1>1, <1>2, PTL DEF Spec, NothingSweptTwice
=============================================================================
