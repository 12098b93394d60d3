--------------------------- MODULE DiscoveryQueue ---------------------------
(***************************************************************************)
(* The background queue that fetches the model catalogues of providers     *)
(* (model_discovery_queue.py) and its callers in sse2json.py: start-up,    *)
(* reloads, edits of a provider and the dashboard's refresh.  Points in    *)
(* time are modelled by the time left until them; the workers' wake event  *)
(* and pauses are left out, for a worker looks again after 30 s at most.   *)
(***************************************************************************)
EXTENDS Integers, Sequences, SequencesExt

CONSTANTS
  Provider, Worker,
  OkTtl, RetryInterval,      \* trust in a snapshot, pause after a failure
  DeferInterval, MaxDefer,   \* pause of a fetch that yields, cap on yielding
  MaxCalls,                  \* bound on administrative calls and restarts
  NoProvider                 \* what an idle worker is at

ASSUME NoProviderAssumption == NoProvider \notin Provider

ASSUME TimesAssumption ==
  /\ OkTtl \in Nat \ {0} /\ RetryInterval \in Nat \ {0}
  /\ DeferInterval \in Nat \ {0} /\ MaxDefer \in Nat /\ MaxCalls \in Nat

VARIABLES
  configured,  \* the enabled providers of the published configuration
  snapshot,    \* what the capability snapshot of a provider says of it
  left,        \* time until an ok or error snapshot falls due again
  queue,       \* _queue; _queued is the set of its elements
  cooldown,    \* time until _next_eligible, NotSet if there is no entry
  active, urgent,
  deferredFor, \* time since _deferred_since, NotSet if there is no entry
  at, job,     \* where each worker is, and with which provider
  outdated,    \* whether its provider changed since a worker took the config
  owed,        \* enqueue calls that a running call has still to make
  asked,       \* forced since the last fetch began (history, read by no one)
  calls

NotSet == -1
Waits == {"idle", "popped", "weighing", "deferring", "starting", "fetching",
          "fetched", "succeeded", "failed", "finishing", "yielded"}

configVars == <<configured, snapshot, left, outdated>>
queueVars == <<queue, cooldown, active, urgent, deferredFor>>
vars == <<configVars, queueVars, at, job, owed, asked, calls>>

Queued == ToSet(queue)

(* How long a snapshot keeps its provider from being fetched.              *)
Trust(status) ==
  CASE status = "ok" -> OkTtl [] status = "error" -> RetryInterval [] OTHER -> 0

Trusts == 0..OkTtl \cup 0..RetryInterval

DiscoveryInit ==
  /\ configured = Provider
  /\ snapshot \in [Provider -> {"none", "pending", "ok", "error"}]
  /\ left \in [Provider -> Trusts]
  /\ \A p \in Provider: left[p] <= Trust(snapshot[p])
  /\ queue = << >> /\ active = {} /\ urgent = {}
  /\ cooldown = [p \in Provider |-> NotSet]
  /\ deferredFor = [p \in Provider |-> NotSet]
  /\ at = [w \in Worker |-> "idle"]
  /\ job = [w \in Worker |-> NoProvider]
  /\ outdated = [w \in Worker |-> FALSE]
  /\ owed = [p \in Provider |-> "plain"]
  /\ asked = [p \in Provider |-> FALSE]
  /\ calls = 0

-----------------------------------------------------------------------------
(* enqueue, for one provider.  A forced call clears the cooldown and moves *)
(* the provider to the front; a plain one keeps the cooldown it finds and  *)
(* consults the snapshot only where there is none.                         *)
CooldownNone(p) == NotSet   \* mutant: the saved snapshot is not consulted

CooldownFromSnapshot(p) ==
  IF snapshot[p] \in {"ok", "error"} THEN left[p] ELSE NotSet

WithoutNot(p) == queue   \* mutant: the provider keeps its old place as well

(* No provider is queued twice, so there is one place to give up.          *)
Without(p) ==
  IF p \in Queued THEN RemoveAt(queue, CHOOSE i \in DOMAIN queue: queue[i] = p)
  ELSE queue

EnqueueForced(p) ==
  /\ owed[p] = "forced"
  /\ urgent' = urgent \cup {p}
  /\ deferredFor' = [deferredFor EXCEPT ![p] = NotSet]
  /\ cooldown' = [cooldown EXCEPT ![p] = NotSet]
  /\ queue' = <<p>> \o Without(p)
  /\ asked' = [asked EXCEPT ![p] = TRUE]
  /\ owed' = [owed EXCEPT ![p] = "none"]
  /\ UNCHANGED <<configVars, active, at, job, calls>>

EnqueuePlain(p) ==
  /\ owed[p] = "plain"
  /\ cooldown' = IF cooldown[p] = NotSet
                   THEN [cooldown EXCEPT ![p] = CooldownFromSnapshot(p)]
                   ELSE cooldown
  /\ queue' = IF p \in Queued THEN queue ELSE Append(queue, p)
  /\ owed' = [owed EXCEPT ![p] = "none"]
  /\ UNCHANGED <<configVars, active, urgent, deferredFor, at, job, asked, calls>>

-----------------------------------------------------------------------------
(* A worker.  Each step is one section under the queue's lock, or one read *)
(* or call outside it.                                                     *)
DueTwice(p) == cooldown[p] <= 0   \* mutant: _active is not consulted

Due(p) == p \notin active /\ cooldown[p] <= 0

PopDue(w) ==
  /\ at[w] = "idle"
  /\ \E i \in DOMAIN queue:
       /\ Due(queue[i]) /\ \A j \in 1..(i - 1): ~Due(queue[j])
       /\ queue' = RemoveAt(queue, i)
       /\ active' = active \cup {queue[i]}
       /\ job' = [job EXCEPT ![w] = queue[i]]
  /\ at' = [at EXCEPT ![w] = "popped"]
  /\ UNCHANGED <<configVars, cooldown, urgent, deferredFor, owed, asked, calls>>

(* _should_defer looks at _urgent before it takes the lock.                *)
LookUrgent(w) ==
  /\ at[w] = "popped"
  /\ at' = [at EXCEPT ![w] =
              IF MaxDefer = 0 \/ job[w] \in urgent THEN "starting" ELSE "weighing"]
  /\ UNCHANGED <<configVars, queueVars, job, owed, asked, calls>>

(* Mutant: every deferral starts the clock of the starvation cap anew.     *)
WeighAnew(w) ==
  /\ at[w] = "weighing"
  /\ \E busy \in BOOLEAN:
       LET p == job[w]
           yields == busy /\ (deferredFor[p] = NotSet \/ deferredFor[p] < MaxDefer)
       IN
       /\ deferredFor' = [deferredFor EXCEPT ![p] = IF yields THEN 0 ELSE NotSet]
       /\ at' = [at EXCEPT ![w] = IF yields THEN "deferring" ELSE "starting"]
  /\ UNCHANGED <<configVars, queue, cooldown, active, urgent, job, owed, asked, calls>>

(* Whether real requests own the network is up to them.                    *)
Weigh(w) ==
  /\ at[w] = "weighing"
  /\ \E busy \in BOOLEAN:
       LET p == job[w]
           yields == busy /\ (deferredFor[p] = NotSet \/ deferredFor[p] < MaxDefer)
       IN
       /\ deferredFor' = [deferredFor EXCEPT ![p] =
                             IF ~yields THEN NotSet ELSE IF @ = NotSet THEN 0 ELSE @]
       /\ at' = [at EXCEPT ![w] = IF yields THEN "deferring" ELSE "starting"]
  /\ UNCHANGED <<configVars, queue, cooldown, active, urgent, job, owed, asked, calls>>

(* Mutant: the cooldown is set, the provider is not queued.                *)
RequeueNot(p, pause) ==
  /\ cooldown' = [cooldown EXCEPT ![p] = pause]
  /\ UNCHANGED <<configVars, queue, active, urgent, deferredFor, job, owed, asked, calls>>

(* _requeue_deferred and _schedule_retry put the provider back.            *)
Requeue(p, pause) ==
  /\ cooldown' = [cooldown EXCEPT ![p] = pause]
  /\ queue' = IF p \in Queued THEN queue ELSE Append(queue, p)
  /\ UNCHANGED <<configVars, active, urgent, deferredFor, job, owed, asked, calls>>

RequeueDeferred(w) ==
  /\ at[w] = "deferring" /\ Requeue(job[w], DeferInterval)
  /\ at' = [at EXCEPT ![w] = "yielded"]

(* _discovery_fetch_provider takes the published configuration and marks   *)
(* the snapshot; for a provider that is gone the registry raises.          *)
StartFetch(w) ==
  /\ at[w] = "starting"
  /\ snapshot' = [snapshot EXCEPT ![job[w]] = "pending"]
  /\ left' = [left EXCEPT ![job[w]] = 0]
  /\ asked' = [asked EXCEPT ![job[w]] = FALSE]
  /\ at' = [at EXCEPT ![w] = IF job[w] \in configured THEN "fetching" ELSE "failed"]
  /\ UNCHANGED <<configured, outdated, queueVars, job, owed, calls>>

(* The answer is published unless the provider changed under the fetch.    *)
EndFetch(w) ==
  /\ at[w] = "fetching"
  /\ \E answer \in {"ok", "error"}:
       LET p == job[w] IN
       IF outdated[w] THEN UNCHANGED <<snapshot, left>>
       ELSE /\ snapshot' = [snapshot EXCEPT ![p] = answer]
            /\ left' = [left EXCEPT ![p] = Trust(answer)]
  /\ outdated' = [outdated EXCEPT ![w] = FALSE]
  /\ at' = [at EXCEPT ![w] = "fetched"]
  /\ UNCHANGED <<configured, queueVars, job, owed, asked, calls>>

ReadOutcome(w) ==
  /\ at[w] = "fetched"
  /\ at' = [at EXCEPT ![w] = IF snapshot[job[w]] = "ok" THEN "succeeded" ELSE "failed"]
  /\ UNCHANGED <<configVars, queueVars, job, owed, asked, calls>>

ScheduleOk(w) ==
  /\ at[w] = "succeeded"
  /\ cooldown' = [cooldown EXCEPT ![job[w]] = OkTtl]
  /\ at' = [at EXCEPT ![w] = "finishing"]
  /\ UNCHANGED <<configVars, queue, active, urgent, deferredFor, job, owed, asked, calls>>

ScheduleRetry(w) ==
  /\ at[w] = "failed" /\ Requeue(job[w], RetryInterval)
  /\ at' = [at EXCEPT ![w] = "finishing"]

Finish(w) ==
  /\ at[w] \in {"finishing", "yielded"}
  /\ active' = active \ {job[w]}
  /\ IF at[w] = "yielded" THEN UNCHANGED <<urgent, deferredFor>>
     ELSE /\ urgent' = urgent \ {job[w]}
          /\ deferredFor' = [deferredFor EXCEPT ![job[w]] = NotSet]
  /\ at' = [at EXCEPT ![w] = "idle"]
  /\ job' = [job EXCEPT ![w] = NoProvider]
  /\ UNCHANGED <<configVars, queue, cooldown, owed, asked, calls>>

Work(w) ==
  \/ PopDue(w) \/ LookUrgent(w) \/ Weigh(w) \/ RequeueDeferred(w) \/ StartFetch(w)
  \/ EndFetch(w) \/ ReadOutcome(w) \/ ScheduleOk(w) \/ ScheduleRetry(w) \/ Finish(w)

-----------------------------------------------------------------------------
(* The surroundings: administrative calls, traffic, time, a restart.       *)
Call == calls < MaxCalls /\ calls' = calls + 1

Overtaken(changed) ==
  [w \in Worker |-> outdated[w] \/ (at[w] = "fetching" /\ job[w] \in changed)]

(* No other call is between publishing and enqueueing.                     *)
NothingOwed == \A p \in Provider: owed[p] = "none"

(* _apply_runtime_config: providers come, go or change; all are enqueued.  *)
Reload ==
  /\ Call /\ NothingOwed
  /\ \E new \in SUBSET Provider: \E changed \in SUBSET new:
       LET stale == {p \in changed: snapshot[p] # "none"} IN
       /\ configured' = new
       /\ snapshot' = [p \in Provider |-> IF p \in stale THEN "stale" ELSE snapshot[p]]
       /\ left' = [p \in Provider |-> IF p \in stale THEN 0 ELSE left[p]]
       /\ outdated' = Overtaken(changed \cup (Provider \ new))
       /\ owed' = [p \in Provider |-> IF p \in new THEN "plain" ELSE "none"]
  /\ UNCHANGED <<queueVars, at, job, asked>>

(* An edit of a provider publishes, marks its snapshot and forces it; a    *)
(* refresh marks and forces without publishing.                            *)
EditProvider(p) ==
  /\ Call /\ NothingOwed
  /\ configured' = configured \cup {p}
  /\ snapshot' = [snapshot EXCEPT ![p] = "pending"]
  /\ left' = [left EXCEPT ![p] = 0]
  /\ outdated' = Overtaken({p})
  /\ owed' = [q \in Provider |->
       IF q = p THEN "forced" ELSE IF q \in configured THEN "plain" ELSE "none"]
  /\ UNCHANGED <<queueVars, at, job, asked>>

Refresh ==
  /\ Call /\ NothingOwed
  /\ snapshot' = [p \in Provider |-> IF p \in configured THEN "pending" ELSE snapshot[p]]
  /\ left' = [p \in Provider |-> IF p \in configured THEN 0 ELSE left[p]]
  /\ owed' = [p \in Provider |-> IF p \in configured THEN "forced" ELSE "none"]
  /\ UNCHANGED <<configured, outdated, queueVars, at, job, asked>>

(* A restart keeps the saved snapshots; start() enqueues what is enabled.  *)
Restart ==
  /\ Call
  /\ queue' = << >> /\ active' = {} /\ urgent' = {}
  /\ cooldown' = [p \in Provider |-> NotSet]
  /\ deferredFor' = [p \in Provider |-> NotSet]
  /\ at' = [w \in Worker |-> "idle"]
  /\ job' = [w \in Worker |-> NoProvider]
  /\ outdated' = [w \in Worker |-> FALSE]
  /\ owed' = [p \in Provider |-> IF p \in configured THEN "plain" ELSE "none"]
  /\ asked' = [p \in Provider |-> FALSE]
  /\ UNCHANGED <<configured, snapshot, left>>

Tick ==
  /\ left' = [p \in Provider |-> IF left[p] > 0 THEN left[p] - 1 ELSE 0]
  /\ cooldown' = [p \in Provider |-> IF cooldown[p] > 0 THEN cooldown[p] - 1 ELSE cooldown[p]]
  /\ deferredFor' = [p \in Provider |->
       IF deferredFor[p] \in 0..(MaxDefer - 1) THEN deferredFor[p] + 1 ELSE deferredFor[p]]
  /\ UNCHANGED <<configured, snapshot, outdated, queue, active, urgent, at, job, owed,
                 asked, calls>>

Enqueue(p) == EnqueueForced(p) \/ EnqueuePlain(p)

Next ==
  \/ \E w \in Worker: Work(w)
  \/ \E p \in Provider: Enqueue(p) \/ EditProvider(p)
  \/ Reload \/ Refresh \/ Restart \/ Tick

Spec == DiscoveryInit /\ [][Next]_vars

(* Threads run, calls finish, the clock runs; traffic may never pause.     *)
Fairness ==
  /\ \A w \in Worker: WF_vars(Work(w))
  /\ \A p \in Provider: WF_vars(Enqueue(p))
  /\ WF_vars(Tick)

FairSpec == Spec /\ Fairness

-----------------------------------------------------------------------------
Times == {NotSet} \cup Trusts \cup 0..DeferInterval

(* The queue is typed and holds no provider twice.                         *)
DiscoveryTypeOK ==
  /\ configured \in SUBSET Provider
  /\ snapshot \in [Provider -> {"none", "pending", "ok", "error", "stale"}]
  /\ left \in [Provider -> Trusts]
  /\ queue \in Seq(Provider) /\ IsInjective(queue)
  /\ active \in SUBSET Provider /\ urgent \in SUBSET Provider
  /\ cooldown \in [Provider -> Times]
  /\ deferredFor \in [Provider -> {NotSet} \cup 0..MaxDefer]
  /\ at \in [Worker -> Waits] /\ job \in [Worker -> Provider \cup {NoProvider}]
  /\ outdated \in [Worker -> BOOLEAN]
  /\ owed \in [Provider -> {"none", "plain", "forced"}]
  /\ asked \in [Provider -> BOOLEAN] /\ calls \in 0..MaxCalls

(* Two workers never fetch the same provider at the same time, whatever is *)
(* enqueued while one of them is at it.                                    *)
NeverFetchedTwice ==
  \A v, w \in Worker:
    v # w /\ at[v] # "idle" /\ at[w] # "idle" => job[v] # job[w]

(* No provider is forgotten: one whose catalogue is not known for certain  *)
(* is queued, at a worker, or about to be enqueued by a running call.      *)
NeverForgotten ==
  \A p \in configured:
    snapshot[p] = "ok" \/ p \in Queued \/ p \in active \/ owed[p] # "none"

(* A catalogue that is still trusted is fetched again only if somebody     *)
(* asked for it since the last fetch; restarts and reloads do not count.   *)
TrustedIsNotRefetched ==
  [][\A w \in Worker:
       at[w] = "starting" /\ at'[w] # "starting" /\ at'[w] # "idle" =>
         LET p == job[w] IN snapshot[p] = "ok" /\ left[p] > 0 => asked[p]]_vars

Fetches(p) == \E w \in Worker: at[w] = "fetching" /\ job[w] = p

(* Traffic that never pauses does not starve discovery: a provider whose   *)
(* catalogue is missing, failed or outdated is eventually fetched.         *)
NeverStarved ==
  \A p \in Provider:
    (p \in configured /\ snapshot[p] # "ok") ~> (p \notin configured \/ Fetches(p))

(* A catalogue whose trust ran out is eventually fetched again: the module *)
(* says of expired snapshots that they are queued again by themselves.     *)
ExpiredIsRefetched ==
  \A p \in Provider:
    (p \in configured /\ snapshot[p] = "ok" /\ left[p] = 0)
      ~> (p \notin configured \/ Fetches(p))
=============================================================================
