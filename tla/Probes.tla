------------------------------- MODULE Probes -------------------------------
(***************************************************************************)
(* Who probes upstream keys, and when: the readiness checker (idle), the   *)
(* patrol that sweeps every key, by itself or on request, and the          *)
(* dashboard's tests of one key.  All of them share the single slot of     *)
(* ProbeCoordinator (probe_coordinator.py); patrol rounds share a schedule *)
(* with a cursor, from which an interrupted sweep is resumed.  When rounds *)
(* fall due and what a probe finds is left open.                           *)
(***************************************************************************)
EXTENDS Naturals, Sequences, FiniteSets, SequencesExt

CONSTANTS
  Provider, KeyCount,  \* the providers, and how many keys each has
  InitialOrder,        \* the providers by priority at the start
  Loop, ByHand,        \* patrol rounds: the checker's, those of triggers
  Idle,                \* the readiness checker
  Click,               \* dashboard clicks, all on the same key and model
  None,
  Settings             \* who is there (cast) and how often the order changes

ASSUME KeysAssumption == KeyCount \in [Provider -> Nat \ {0}]

(* The providers are the keys of a dictionary: none is listed twice.       *)
ASSUME OrderAssumption == InitialOrder \in Seq(Provider) /\ IsInjective(InitialOrder)

ASSUME SettingsAssumption == \A s \in Settings: s.maxChanges \in Nat

VARIABLES
  holder,   \* ProbeCoordinator._active
  noted,    \* a real request was noted since this actor took the slot
  traffic,  \* "quiet", "noted", or "inFlight": requests_in_flight > 0
  order,    \* the enabled providers by current priority
  running, cursor,   \* _patrol_probe_schedule
  at, list, here,    \* where an actor is; its providers; its provider and key
  future,   \* _KEY_PROBE_INFLIGHT of the clicked key: the click that owns it
  awaits,   \* the future a click waits for
  swept, passed,  \* history: keys visited and providers passed by since the
                  \* last sweep was complete
  disturbed,\* history: rounds overlapped or priorities changed in this sweep
  setting, changes

Round == {Loop} \cup ByHand
Checker == Round \cup {Idle}
Actor == Checker \cup Click
Key == UNION {{p} \X (0..(KeyCount[p] - 1)): p \in Provider}

ASSUME ActorsAssumption ==
  /\ None \notin Actor /\ Loop \notin ByHand
  /\ Idle \notin Round /\ Checker \cap Click = {}

schedule == <<running, cursor>>
bounds == <<setting, changes>>
history == <<swept, passed, disturbed>>
clicks == <<future, awaits>>
vars == <<holder, noted, traffic, order, schedule, at, list, here, clicks, history,
          bounds>>

ProbesInit ==
  /\ holder = None /\ noted = [a \in Checker |-> FALSE] /\ traffic = "quiet"
  /\ order = InitialOrder
  /\ running = FALSE /\ cursor = None
  /\ at = [a \in Actor |-> "off"]
  /\ list = [a \in Checker |-> << >>] /\ here = [a \in Checker |-> <<0, 0>>]
  /\ future = None /\ awaits = [c \in Click |-> None]
  /\ swept = {} /\ passed = {} /\ disturbed = FALSE
  /\ setting \in Settings /\ changes = 0

Goes(a, place) == at' = [at EXCEPT ![a] = place]
(* What is left of an actor's round is forgotten when the round is over.   *)
Leaves(a) ==
  /\ Goes(a, "off")
  /\ list' = [list EXCEPT ![a] = << >>] /\ here' = [here EXCEPT ![a] = <<0, 0>>]
Others(a) == {b \in Round \ {a}: at[b] # "off"}
CurrentProvider(a) == list[a][here[a][1]]
CurrentKey(a) == <<CurrentProvider(a), here[a][2]>>

-----------------------------------------------------------------------------
(* The patrol.  A trigger starts a thread unless a round is running; the   *)
(* checker does not look whether one is.                                   *)
Trigger(h) ==
  /\ at[h] = "off" /\ ~running
  /\ running' = TRUE /\ Goes(h, "triggered")
  /\ UNCHANGED <<holder, noted, traffic, order, cursor, list, here, clicks, history, bounds>>

BeginRound(a) ==
  /\ at[a] = IF a = Loop THEN "off" ELSE "triggered"
  /\ running' = TRUE /\ Goes(a, "begun")
  /\ disturbed' = (disturbed \/ Others(a) # {})
  /\ UNCHANGED <<holder, noted, traffic, order, cursor, list, here, clicks, swept, passed, bounds>>

(* Postponed by traffic; without providers the round just returns.         *)
Postpone(a) ==
  /\ at[a] = "begun" /\ traffic = "inFlight"
  /\ running' = FALSE /\ Leaves(a)
  /\ UNCHANGED <<holder, noted, traffic, order, cursor, clicks, history, bounds>>

NothingToSweep(a) ==
  /\ at[a] = "begun" /\ traffic # "inFlight" /\ order = << >>
  /\ Leaves(a)
  /\ UNCHANGED <<holder, noted, traffic, order, schedule, clicks, history, bounds>>

(* A cursor whose provider is gone is ignored: the sweep starts again.     *)
Resumes(providers) == cursor # None /\ cursor[1] \in ToSet(providers)

PlanSweep(a) ==
  /\ at[a] = "begun" /\ traffic # "inFlight" /\ order # << >>
  /\ list' = [list EXCEPT ![a] = order]
  /\ here' = [here EXCEPT ![a] =
       IF Resumes(order)
       THEN <<CHOOSE i \in DOMAIN order: order[i] = cursor[1], cursor[2]>> ELSE <<1, 0>>]
  /\ IF Resumes(order) \/ Others(a) # {} THEN UNCHANGED <<swept, passed>>
     ELSE swept' = {} /\ passed' = {}
  /\ Goes(a, "entering")
  /\ UNCHANGED <<holder, noted, traffic, order, schedule, clicks, disturbed, bounds>>

(* On to the next key or provider of the list, if there is one.            *)
NextProvider(a) ==
  /\ here' = [here EXCEPT ![a] = <<@[1] + 1, 0>>]
  /\ Goes(a, IF here[a][1] < Len(list[a]) THEN "entering" ELSE "swept")

(* A provider that is exempt, or whose models nobody knows, is passed by.  *)
PassBy(a) ==
  /\ at[a] = "entering"
  /\ passed' = passed \cup {CurrentProvider(a)}
  /\ NextProvider(a)
  /\ UNCHANGED <<holder, noted, traffic, order, schedule, list, clicks, swept, disturbed, bounds>>

Enter(a) ==
  /\ at[a] = "entering"
  /\ IF here[a][2] < KeyCount[CurrentProvider(a)]
     THEN Goes(a, "checking") /\ UNCHANGED here ELSE NextProvider(a)
  /\ UNCHANGED <<holder, noted, traffic, order, schedule, list, clicks, history, bounds>>

(* Mutant: the interrupted key counts as done.                             *)
InterruptPast(a) ==
  /\ at[a] = "checking" /\ traffic = "inFlight"
  /\ running' = FALSE /\ cursor' = <<CurrentProvider(a), here[a][2] + 1>> /\ Leaves(a)
  /\ UNCHANGED <<holder, noted, traffic, order, clicks, history, bounds>>

Interrupt(a) ==
  /\ at[a] = "checking" /\ traffic = "inFlight"
  /\ running' = FALSE /\ cursor' = CurrentKey(a) /\ Leaves(a)
  /\ UNCHANGED <<holder, noted, traffic, order, clicks, history, bounds>>

(* The check is followed by a pause of some seconds and the probe.         *)
Proceed(a) ==
  /\ at[a] = "checking" /\ traffic # "inFlight"
  /\ Goes(a, "taking")
  /\ UNCHANGED <<holder, noted, traffic, order, schedule, list, here, clicks, history, bounds>>

(* Mutants: the last key is passed over; the cursor stays on the key done. *)
KeyDoneBeyond(a) ==
  /\ cursor' = <<CurrentProvider(a), here[a][2] + 1>>
  /\ swept' = swept \cup {CurrentKey(a)}
  /\ IF here[a][2] + 1 <= KeyCount[CurrentProvider(a)]
     THEN here' = [here EXCEPT ![a][2] = @ + 1] /\ Goes(a, "checking")
     ELSE NextProvider(a)
  /\ UNCHANGED <<traffic, order, running, list, clicks, passed, disturbed, bounds>>

KeyDoneInPlace(a) ==
  /\ cursor' = CurrentKey(a)
  /\ swept' = swept \cup {CurrentKey(a)}
  /\ IF here[a][2] + 1 < KeyCount[CurrentProvider(a)]
     THEN here' = [here EXCEPT ![a][2] = @ + 1] /\ Goes(a, "checking")
     ELSE NextProvider(a)
  /\ UNCHANGED <<traffic, order, running, list, clicks, passed, disturbed, bounds>>

(* A key is done with, probed or skipped: the cursor moves past it.        *)
KeyDone(a) ==
  /\ cursor' = <<CurrentProvider(a), here[a][2] + 1>>
  /\ swept' = swept \cup {CurrentKey(a)}
  /\ IF here[a][2] + 1 < KeyCount[CurrentProvider(a)]
     THEN here' = [here EXCEPT ![a][2] = @ + 1] /\ Goes(a, "checking")
     ELSE NextProvider(a)
  /\ UNCHANGED <<traffic, order, running, list, clicks, passed, disturbed, bounds>>

(* A key without a candidate model is passed by.                           *)
SkipKey(a) == at[a] = "taking" /\ KeyDone(a) /\ UNCHANGED <<holder, noted>>

CompleteSweep(a) ==
  /\ at[a] = "swept"
  /\ running' = FALSE /\ cursor' = None /\ Leaves(a)
  /\ swept' = {} /\ passed' = {} /\ disturbed' = (Others(a) # {})
  /\ UNCHANGED <<holder, noted, traffic, order, clicks, bounds>>

-----------------------------------------------------------------------------
(* run_auto: the slot is taken if it is free and the key had no recent     *)
(* success; a request noted before the second look cancels the probe.      *)
TakeAuto(a) ==
  /\ at[a] = "taking" /\ holder = None
  /\ holder' = a /\ noted' = [noted EXCEPT ![a] = FALSE]
  /\ Goes(a, "holding")
  /\ UNCHANGED <<traffic, order, schedule, list, here, clicks, history, bounds>>

StartAuto(a) ==
  /\ at[a] = "holding" /\ ~noted[a]
  /\ Goes(a, "probing")
  /\ UNCHANGED <<holder, noted, traffic, order, schedule, list, here, clicks, history, bounds>>

(* What follows a probe that found no healthy key, or that was not made:   *)
(* the patrol tries another model or is done with the key, the readiness   *)
(* checker goes on to the next provider of its plan.                       *)
RetryModel(a) ==
  /\ a \in Round /\ Goes(a, "taking")
  /\ UNCHANGED <<traffic, order, schedule, list, here, clicks, history, bounds>>

NextPlanned(a) ==
  /\ a = Idle
  /\ IF here[a][1] < Len(list[a])
     THEN /\ here' = [here EXCEPT ![a][1] = @ + 1] /\ Goes(a, "taking")
          /\ UNCHANGED list
     ELSE Leaves(a)
  /\ UNCHANGED <<traffic, order, schedule, clicks, history, bounds>>

Unhealthy(a) == RetryModel(a) \/ (a \in Round /\ KeyDone(a)) \/ NextPlanned(a)

Healthy(a) ==
  IF a \in Round THEN KeyDone(a)
  ELSE Leaves(a) /\ UNCHANGED <<traffic, order, schedule, clicks, history, bounds>>

(* The slot is busy, or the key had a success of late.                     *)
Decline(a) == at[a] = "taking" /\ Unhealthy(a) /\ UNCHANGED <<holder, noted>>

Release == holder' = None /\ UNCHANGED noted

(* Mutant: a cancelled probe keeps the slot.                               *)
CancelHolding(a) ==
  at[a] = "holding" /\ noted[a] /\ Unhealthy(a) /\ UNCHANGED <<holder, noted>>

Cancel(a) == at[a] = "holding" /\ noted[a] /\ Release /\ Unhealthy(a)

EndAuto(a) == at[a] = "probing" /\ Release /\ (Healthy(a) \/ Unhealthy(a))

(* An exception ends the round, wherever it is raised.                     *)
FailRound(a) ==
  /\ at[a] \in {"entering", "taking", "probing"}
  /\ IF at[a] = "probing" THEN Release ELSE UNCHANGED <<holder, noted>>
  /\ running' = FALSE /\ Leaves(a)
  /\ UNCHANGED <<traffic, order, cursor, clicks, history, bounds>>

(* The readiness checker looks at the traffic once, then probes the first  *)
(* providers by priority, as many as the idle tier allows.                 *)
BeginIdle ==
  /\ at[Idle] = "off" /\ traffic # "inFlight"
  /\ \E n \in 1..Len(order): list' = [list EXCEPT ![Idle] = SubSeq(order, 1, n)]
  /\ here' = [here EXCEPT ![Idle] = <<1, 0>>] /\ Goes(Idle, "taking")
  /\ UNCHANGED <<holder, noted, traffic, order, schedule, clicks, history, bounds>>

-----------------------------------------------------------------------------
(* A dashboard test of a key: the first click owns the probe, clicks that  *)
(* come while it is in flight share its answer or give up after 20 s.      *)
clickUnchanged == <<noted, traffic, order, schedule, list, here, history, bounds>>

ClickKey(c) ==
  /\ at[c] = "off"
  /\ IF future = None
     THEN future' = c /\ Goes(c, "waiting") /\ UNCHANGED awaits
     ELSE awaits' = [awaits EXCEPT ![c] = future] /\ Goes(c, "following") /\ UNCHANGED future
  /\ UNCHANGED <<holder, clickUnchanged>>

(* Mutant: a manual probe does not wait for the slot.                      *)
TakeManualAtOnce(c) ==
  /\ at[c] = "waiting"
  /\ holder' = c /\ Goes(c, "probing")
  /\ UNCHANGED <<clicks, clickUnchanged>>

TakeManual(c) ==
  /\ at[c] = "waiting" /\ holder = None
  /\ holder' = c /\ Goes(c, "probing")
  /\ UNCHANGED <<clicks, clickUnchanged>>

EndManual(c) ==
  /\ at[c] = "probing"
  /\ holder' = None /\ Goes(c, "resolved")
  /\ UNCHANGED <<clicks, clickUnchanged>>

Withdraw(c) ==
  /\ at[c] = "resolved"
  /\ future' = IF future = c THEN None ELSE future
  /\ Goes(c, "answered")
  /\ UNCHANGED <<holder, awaits, clickUnchanged>>

(* The shared answer, or a timeout.                                        *)
Follow(c) ==
  /\ at[c] = "following" /\ at[awaits[c]] \in {"resolved", "answered"}
  /\ Goes(c, "answered")
  /\ UNCHANGED <<holder, clicks, clickUnchanged>>

GiveUp(c) ==
  /\ at[c] = "following" /\ Goes(c, "answered")
  /\ UNCHANGED <<holder, clicks, clickUnchanged>>

-----------------------------------------------------------------------------
(* Real requests: noted first, counted as in flight a moment later.        *)
NoteRequest ==
  /\ noted' = [a \in Checker |-> TRUE]
  /\ traffic' = IF traffic = "quiet" THEN "noted" ELSE traffic
  /\ UNCHANGED <<holder, order, schedule, at, list, here, clicks, history, bounds>>

CountRequests ==
  /\ \/ traffic = "noted" /\ traffic' = "inFlight"
     \/ traffic = "inFlight" /\ traffic' = "quiet"
  /\ UNCHANGED <<holder, noted, order, schedule, at, list, here, clicks, history, bounds>>

(* A provider is removed, or priorities change: by hand, or with the       *)
(* health scores in auto mode.                                             *)
Change == changes < setting.maxChanges /\ changes' = changes + 1 /\ UNCHANGED setting

RemoveProvider(p) ==
  /\ Change
  /\ \E i \in DOMAIN order: order[i] = p /\ order' = RemoveAt(order, i)
  /\ UNCHANGED <<holder, noted, traffic, schedule, at, list, here, clicks, history>>

Reprioritise ==
  /\ Change /\ order' = Reverse(order)
  /\ disturbed' = TRUE
  /\ UNCHANGED <<holder, noted, traffic, schedule, at, list, here, clicks, swept, passed>>

RunAuto(a) == TakeAuto(a) \/ StartAuto(a) \/ Decline(a) \/ Cancel(a) \/ EndAuto(a)

Patrol(a) ==
  \/ BeginRound(a) \/ Postpone(a) \/ NothingToSweep(a) \/ PlanSweep(a) \/ PassBy(a)
  \/ Enter(a) \/ Interrupt(a) \/ Proceed(a) \/ SkipKey(a) \/ CompleteSweep(a)
  \/ FailRound(a)

Test(c) == EndManual(c) \/ Withdraw(c) \/ Follow(c)

Next ==
  \/ \E h \in ByHand \cap setting.cast: Trigger(h)
  \/ \E a \in Round \cap setting.cast: Patrol(a)
  \/ \E a \in Checker: RunAuto(a)
  \/ Idle \in setting.cast /\ BeginIdle
  \/ \E c \in Click \cap setting.cast:
       ClickKey(c) \/ TakeManual(c) \/ Test(c) \/ GiveUp(c)
  \/ NoteRequest \/ CountRequests \/ Reprioritise
  \/ \E p \in Provider: RemoveProvider(p)

Spec == ProbesInit /\ [][Next]_vars

(* Probes end.  A waiting test looks at the slot four times a second and   *)
(* is woken when it is freed, while the checkers sleep between probes: it  *)
(* does not find the slot taken every time.                                *)
FairSpec ==
  /\ Spec
  /\ \A a \in Checker: WF_vars(RunAuto(a))
  /\ \A c \in Click: WF_vars(Test(c)) /\ SF_vars(TakeManual(c))

-----------------------------------------------------------------------------
Places == {"off", "triggered", "begun", "entering", "checking", "taking", "holding",
           "probing", "swept", "waiting", "following", "resolved", "answered"}

ProbesTypeOK ==
  /\ holder \in Actor \cup {None} /\ noted \in [Checker -> BOOLEAN]
  /\ traffic \in {"quiet", "noted", "inFlight"}
  /\ order \in Seq(Provider) /\ running \in BOOLEAN
  /\ cursor = None \/ (cursor[1] \in Provider /\ cursor[2] \in 0..KeyCount[cursor[1]])
  /\ at \in [Actor -> Places] /\ list \in [Checker -> Seq(Provider)]
  /\ here \in [Checker -> Nat \X Nat]
  /\ future \in Click \cup {None} /\ awaits \in [Click -> Click \cup {None}]
  /\ swept \in SUBSET Key /\ passed \in SUBSET Provider /\ disturbed \in BOOLEAN
  /\ setting \in Settings /\ changes \in 0..setting.maxChanges

(* Upstreams see one probe of ours at a time, and the slot is taken only   *)
(* by the actor that probes or is about to: no path leaves it taken.       *)
OneProbeAtATime ==
  \A a \in Actor: (at[a] \in {"holding", "probing"}) <=> (holder = a)

(* A sweep that ends has visited every key of every provider that is still *)
(* configured, however often it was interrupted and resumed, unless rounds *)
(* overlapped or priorities changed in between.                            *)
SweepsAreComplete ==
  [][\A a \in Round:
       at[a] = "swept" /\ at'[a] = "off" /\ ~disturbed =>
         \A key \in Key: key[1] \in ToSet(order) => key \in swept \/ key[1] \in passed]_vars

(* The round ends what it does for the key it is at.                       *)
Probed(a) ==
  /\ at[a] \in {"taking", "holding", "probing"}
  /\ at'[a] \in {"checking", "entering", "swept"}

(* A resumed sweep does not visit a key again, under the same conditions.  *)
NothingSweptTwice ==
  [][\A a \in Round:
       Probed(a) /\ ~disturbed => CurrentKey(a) \notin swept]_vars

(* Every click on a key's test is answered, by a probe of its own or by    *)
(* the one it shares.                                                      *)
EveryClickAnswered ==
  \A c \in Click: (at[c] \in {"waiting", "following"}) ~> (at[c] = "answered")

(* Two patrol rounds never run at the same time.                           *)
RoundsDoNotOverlap ==
  \A a, b \in Round: a # b => at[a] \in {"off", "triggered"} \/ at[b] \in {"off", "triggered"}
=============================================================================
