------------------------ MODULE DiscoveryQueueProofs ------------------------
(***************************************************************************)
(* For any number of providers and workers and any times: the queue keeps  *)
(* its types and holds nobody twice, no provider is fetched twice at once, *)
(* none is forgotten, and a catalogue that is trusted is left alone.       *)
(***************************************************************************)
EXTENDS DiscoveryQueue, SequenceTheorems, TLAPS

(* A worker that is not idle is at an active provider.                     *)
AtActive == \A w \in Worker: at[w] # "idle" => job[w] \in active

(* What is to be said of a provider before a worker may let go of it.      *)
Remembered(p) == p \in configured => snapshot[p] = "ok" \/ p \in Queued \/ owed[p] # "none"

LeavesRemembered ==
  \A w \in Worker:
    at[w] \in {"succeeded", "finishing", "yielded"} => Remembered(job[w])

QueueInv == DiscoveryTypeOK /\ AtActive /\ NeverFetchedTwice

MemoryInv == QueueInv /\ LeavesRemembered /\ NeverForgotten

-----------------------------------------------------------------------------
(* The three ways in which the queue changes.                              *)
LEMMA AppendedQueue ==
  ASSUME NEW q \in Seq(Provider), IsInjective(q), NEW p \in Provider, p \notin ToSet(q)
  PROVE  /\ Append(q, p) \in Seq(Provider) /\ IsInjective(Append(q, p))
         /\ ToSet(Append(q, p)) = ToSet(q) \cup {p}
BY AppendProperties DEF IsInjective, ToSet

LEMMA PushedQueue ==
  ASSUME NEW q \in Seq(Provider), IsInjective(q), NEW p \in Provider, p \notin ToSet(q)
  PROVE  /\ <<p>> \o q \in Seq(Provider) /\ IsInjective(<<p>> \o q)
         /\ ToSet(<<p>> \o q) = ToSet(q) \cup {p}
<1> DEFINE r == <<p>> \o q
<1>1. /\ r \in Seq(Provider) /\ Len(r) = Len(q) + 1 /\ Len(q) \in Nat
      /\ r[1] = p /\ \A i \in 2..Len(r): r[i] = q[i - 1]
  BY ConcatProperties
<1>2. DOMAIN r = 1..Len(r) /\ DOMAIN q = 1..Len(q)
  BY <1>1
<1> HIDE DEF r
<1>3. IsInjective(r)
  <2> SUFFICES ASSUME NEW i \in 1..Len(r), NEW j \in 1..Len(r), r[i] = r[j] PROVE i = j
    BY <1>2 DEF IsInjective
  <2>1. \A k \in 2..Len(r): k - 1 \in DOMAIN q /\ r[k] # p
    BY <1>1, <1>2 DEF ToSet
  <2>2. CASE i = 1 \/ j = 1
    BY <1>1, <2>1, <2>2
  <2>3. CASE i # 1 /\ j # 1
    BY <1>1, <2>1, <2>3 DEF IsInjective
  <2> QED BY <2>2, <2>3
<1>4. ToSet(r) \subseteq ToSet(q) \cup {p}
  BY <1>1, <1>2 DEF ToSet
<1>5. ASSUME NEW i \in DOMAIN q PROVE q[i] \in ToSet(r)
  <2>1. i + 1 \in 2..Len(r) /\ r[i + 1] = q[i]
    BY <1>1, <1>2
  <2> QED BY <2>1, <1>1, <1>2 DEF ToSet
<1>6. p \in ToSet(r)
  BY <1>1, <1>2 DEF ToSet
<1> QED BY <1>1, <1>3, <1>4, <1>5, <1>6 DEF ToSet, r

LEMMA ShortenedQueue ==
  ASSUME NEW q \in Seq(Provider), IsInjective(q), NEW i \in DOMAIN q
  PROVE  /\ RemoveAt(q, i) \in Seq(Provider) /\ IsInjective(RemoveAt(q, i))
         /\ ToSet(RemoveAt(q, i)) = ToSet(q) \ {q[i]}
<1> DEFINE r == RemoveAt(q, i)
<1>1. /\ Len(q) \in Nat /\ DOMAIN q = 1..Len(q) /\ i \in 1..Len(q)
      /\ \A j \in 1..Len(q): q[j] \in Provider
  BY ElementOfSeq
<1> DEFINE front == SubSeq(q, 1, i - 1)
           rest == SubSeq(q, i + 1, Len(q))
<1>2. /\ front \in Seq(Provider) /\ Len(front) = i - 1
      /\ \A j \in 1..(i - 1): front[j] = q[j]
  BY <1>1, SubSeqProperties
<1>3. /\ rest \in Seq(Provider) /\ Len(rest) = Len(q) - i
      /\ \A j \in 1..(Len(q) - i): rest[j] = q[i + j]
  BY <1>1, SubSeqProperties
<1>4. r = front \o rest
  BY DEF RemoveAt
<1> HIDE DEF r, front, rest
<1>5. /\ r \in Seq(Provider) /\ Len(r) = Len(front) + Len(rest)
      /\ \A j \in 1..(Len(front) + Len(rest)):
           r[j] = IF j <= Len(front) THEN front[j] ELSE rest[j - Len(front)]
  BY <1>2, <1>3, <1>4, ConcatProperties
<1>6. /\ r \in Seq(Provider) /\ Len(r) = Len(q) - 1
      /\ \A j \in 1..Len(r): r[j] = q[IF j < i THEN j ELSE j + 1]
  <2>1. Len(front) + Len(rest) = Len(q) - 1
    BY <1>1, <1>2, <1>3
  <2>2. ASSUME NEW j \in 1..Len(r) PROVE r[j] = q[IF j < i THEN j ELSE j + 1]
    <3>1. CASE j < i
      BY <1>1, <1>2, <1>5, <2>1, <3>1
    <3>2. CASE ~(j < i)
      <4>1. /\ j - Len(front) \in 1..(Len(q) - i) /\ i + (j - Len(front)) = j + 1
            /\ ~(j <= Len(front))
        BY <1>1, <1>2, <1>5, <2>1, <3>2
      <4> QED BY <1>3, <1>5, <2>1, <3>2, <4>1
    <3> QED BY <3>1, <3>2
  <2> QED BY <1>5, <2>1, <2>2
<1>7. DOMAIN r = 1..Len(r)
  BY <1>6
<1>8. IsInjective(r)
  <2> SUFFICES ASSUME NEW j \in 1..Len(r), NEW k \in 1..Len(r), r[j] = r[k] PROVE j = k
    BY <1>7 DEF IsInjective
  <2> DEFINE old(n) == IF n < i THEN n ELSE n + 1
  <2>1. old(j) \in 1..Len(q) /\ old(k) \in 1..Len(q) /\ q[old(j)] = q[old(k)]
    <3>1. /\ j < i => r[j] = q[j]
          /\ j >= i => r[j] = q[j + 1]
      BY <1>1, <1>6
    <3>2. /\ k < i => r[k] = q[k]
          /\ k >= i => r[k] = q[k + 1]
      BY <1>1, <1>6
    <3> QED BY <1>1, <1>6, <3>1, <3>2
  <2>2. old(j) = old(k)
    BY <1>1, <2>1 DEF IsInjective
  <2> QED BY <1>1, <1>6, <2>2
<1>9. ToSet(r) \subseteq ToSet(q) \ {q[i]}
  BY <1>1, <1>6, <1>7 DEF IsInjective, ToSet
<1>10. ASSUME NEW j \in DOMAIN q, j # i PROVE q[j] \in ToSet(r)
  <2> DEFINE k == IF j < i THEN j ELSE j - 1
  <2>1. k \in 1..Len(r) /\ r[k] = q[j]
    BY <1>1, <1>6, <1>10
  <2> QED BY <2>1, <1>7 DEF ToSet
<1> QED BY <1>6, <1>8, <1>9, <1>10 DEF ToSet, r

(* A forced provider is in one place of the queue, a plain one in some.    *)
LEMMA WithoutProvider ==
  ASSUME DiscoveryTypeOK, NEW p \in Provider
  PROVE  /\ Without(p) \in Seq(Provider) /\ IsInjective(Without(p))
         /\ ToSet(Without(p)) = Queued \ {p}
<1>1. CASE p \in Queued
  <2> DEFINE i == CHOOSE j \in DOMAIN queue: queue[j] = p
  <2>1. i \in DOMAIN queue /\ queue[i] = p
    BY <1>1 DEF Queued, ToSet
  <2> QED BY <1>1, <2>1, ShortenedQueue DEF Without, DiscoveryTypeOK, Queued
<1>2. CASE p \notin Queued
  BY <1>2 DEF Without, DiscoveryTypeOK, Queued
<1> QED BY <1>1, <1>2

LEMMA QueuedProvider ==
  ASSUME DiscoveryTypeOK, NEW p \in Provider,
         queue' = IF p \in Queued THEN queue ELSE Append(queue, p)
  PROVE  /\ queue' \in Seq(Provider) /\ IsInjective(queue')
         /\ Queued' = Queued \cup {p}
<1>1. CASE p \in Queued
  BY <1>1 DEF DiscoveryTypeOK, Queued
<1>2. CASE p \notin Queued
  BY <1>2, AppendedQueue DEF DiscoveryTypeOK, Queued
<1> QED BY <1>1, <1>2

LEMMA ForcedProvider ==
  ASSUME DiscoveryTypeOK, NEW p \in Provider, queue' = <<p>> \o Without(p)
  PROVE  /\ queue' \in Seq(Provider) /\ IsInjective(queue')
         /\ Queued' = Queued \cup {p}
BY WithoutProvider, PushedQueue DEF Queued

-----------------------------------------------------------------------------
(* Types, and who is at what.                                              *)
LEMMA QueueInvInitially == DiscoveryInit => QueueInv
<1> SUFFICES ASSUME DiscoveryInit PROVE QueueInv
  OBVIOUS
<1>1. queue \in Seq(Provider) /\ IsInjective(queue)
  BY DEF DiscoveryInit, IsInjective
<1>2. DiscoveryTypeOK
  BY <1>1, TimesAssumption DEF DiscoveryInit, DiscoveryTypeOK, Waits, Times, NotSet, Trusts
<1> QED BY <1>2 DEF DiscoveryInit, QueueInv, AtActive, NeverFetchedTwice

LEMMA TypesKeptByWorkers ==
  ASSUME QueueInv, NEW w \in Worker, Work(w)
  PROVE  DiscoveryTypeOK'
<1> USE TimesAssumption DEF DiscoveryTypeOK, Waits, Times, NotSet, Trusts
<1>1. at[w] # "idle" => job[w] \in Provider
  BY DEF QueueInv, AtActive
<1>2. CASE PopDue(w)
  <2>1. PICK i \in DOMAIN queue:
          queue' = RemoveAt(queue, i) /\ active' = active \cup {queue[i]}
          /\ job' = [job EXCEPT ![w] = queue[i]]
    BY <1>2 DEF PopDue
  <2>2. queue' \in Seq(Provider) /\ IsInjective(queue') /\ queue[i] \in Provider
    BY <2>1, ShortenedQueue, ElementOfSeq DEF QueueInv
  <2> QED BY <1>2, <2>1, <2>2 DEF PopDue, configVars, QueueInv
<1>3. CASE LookUrgent(w)
  BY <1>3 DEF LookUrgent, configVars, queueVars, QueueInv
<1>4. CASE Weigh(w)
  BY <1>1, <1>4 DEF Weigh, configVars, QueueInv
<1>5. CASE RequeueDeferred(w)
  BY <1>1, <1>5, QueuedProvider DEF RequeueDeferred, Requeue, configVars, QueueInv
<1>6. CASE StartFetch(w)
  BY <1>1, <1>6 DEF StartFetch, queueVars, QueueInv
<1>7. CASE EndFetch(w)
  <2>1. \A answer \in {"ok", "error"}: Trust(answer) \in Trusts
    BY DEF Trust
  <2>2. PICK answer \in {"ok", "error"}:
          \/ UNCHANGED <<snapshot, left>>
          \/ /\ snapshot' = [snapshot EXCEPT ![job[w]] = answer]
             /\ left' = [left EXCEPT ![job[w]] = Trust(answer)]
    BY <1>7 DEF EndFetch
  <2>3. snapshot' \in [Provider -> {"none", "pending", "ok", "error", "stale"}]
        /\ left' \in [Provider -> Trusts]
    BY <2>1, <2>2 DEF QueueInv
  <2> QED BY <1>1, <1>7, <2>3 DEF EndFetch, queueVars, QueueInv
<1>8. CASE ReadOutcome(w)
  BY <1>1, <1>8 DEF ReadOutcome, configVars, queueVars, QueueInv
<1>9. CASE ScheduleOk(w)
  BY <1>1, <1>9 DEF ScheduleOk, configVars, QueueInv
<1>10. CASE ScheduleRetry(w)
  BY <1>1, <1>10, QueuedProvider DEF ScheduleRetry, Requeue, configVars, QueueInv
<1>11. CASE Finish(w)
  BY <1>1, <1>11 DEF Finish, configVars, QueueInv
<1> QED BY <1>2, <1>3, <1>4, <1>5, <1>6, <1>7, <1>8, <1>9, <1>10, <1>11 DEF Work

LEMMA TypesKeptBySurroundings ==
  ASSUME QueueInv,
         Reload \/ Refresh \/ Restart \/ Tick \/ \E p \in Provider: Enqueue(p) \/ EditProvider(p)
  PROVE  DiscoveryTypeOK'
<1> USE TimesAssumption DEF DiscoveryTypeOK, Waits, Times, NotSet, Trusts
<1>1. CASE Reload
  BY <1>1 DEF Reload, Call, Overtaken, queueVars, QueueInv
<1>2. CASE Refresh
  BY <1>2 DEF Refresh, Call, queueVars, QueueInv
<1>3. CASE Restart
  <2>1. queue' \in Seq(Provider) /\ IsInjective(queue')
    BY <1>3 DEF Restart, IsInjective
  <2> QED BY <1>3, <2>1 DEF Restart, Call, QueueInv
<1>4. CASE Tick
  <2>1. left' \in [Provider -> Trusts]
    <3>1. \A p \in Provider: (IF left[p] > 0 THEN left[p] - 1 ELSE 0) \in Trusts
      BY DEF QueueInv
    <3> QED BY <1>4, <3>1 DEF Tick
  <2>2. cooldown' \in [Provider -> Times]
    <3>1. \A p \in Provider:
            (IF cooldown[p] > 0 THEN cooldown[p] - 1 ELSE cooldown[p]) \in Times
      BY DEF QueueInv
    <3> QED BY <1>4, <3>1 DEF Tick
  <2>3. deferredFor' \in [Provider -> {NotSet} \cup 0..MaxDefer]
    <3>1. \A p \in Provider:
            (IF deferredFor[p] \in 0..(MaxDefer - 1) THEN deferredFor[p] + 1 ELSE deferredFor[p])
              \in {NotSet} \cup 0..MaxDefer
      BY DEF QueueInv
    <3> QED BY <1>4, <3>1 DEF Tick
  <2> QED BY <1>4, <2>1, <2>2, <2>3 DEF Tick, QueueInv
<1>5. ASSUME NEW p \in Provider, EnqueueForced(p) PROVE DiscoveryTypeOK'
  BY <1>5, ForcedProvider DEF EnqueueForced, configVars, QueueInv
<1>6. ASSUME NEW p \in Provider, EnqueuePlain(p) PROVE DiscoveryTypeOK'
  <2>1. CooldownFromSnapshot(p) \in Times
    BY DEF CooldownFromSnapshot, QueueInv
  <2> QED BY <1>6, <2>1, QueuedProvider DEF EnqueuePlain, configVars, QueueInv
<1>7. ASSUME NEW p \in Provider, EditProvider(p) PROVE DiscoveryTypeOK'
  BY <1>7 DEF EditProvider, Call, Overtaken, queueVars, QueueInv
<1> QED BY <1>1, <1>2, <1>3, <1>4, <1>5, <1>6, <1>7 DEF Enqueue

(* Only PopDue gives a worker a provider, one that nobody is at; only      *)
(* Finish takes one from the active, that of its own worker.               *)
LEMMA ExclusionKept ==
  ASSUME QueueInv, [Next]_vars
  PROVE  AtActive' /\ NeverFetchedTwice'
<1> USE DEF AtActive, NeverFetchedTwice
<1>1. job \in [Worker -> Provider \cup {NoProvider}] /\ at \in [Worker -> Waits]
  BY DEF QueueInv, DiscoveryTypeOK
<1>2. ASSUME NEW w \in Worker, PopDue(w) PROVE AtActive' /\ NeverFetchedTwice'
  <2>1. PICK i \in DOMAIN queue:
          queue[i] \notin active /\ active' = active \cup {queue[i]}
          /\ job' = [job EXCEPT ![w] = queue[i]]
    BY <1>2 DEF PopDue, Due
  <2> QED BY <1>1, <1>2, <2>1 DEF PopDue, QueueInv
<1>3. ASSUME NEW w \in Worker, Finish(w) PROVE AtActive' /\ NeverFetchedTwice'
  BY <1>1, <1>3 DEF Finish, QueueInv
<1>4. ASSUME NEW w \in Worker,
             LookUrgent(w) \/ Weigh(w) \/ RequeueDeferred(w) \/ StartFetch(w) \/ EndFetch(w)
             \/ ReadOutcome(w) \/ ScheduleOk(w) \/ ScheduleRetry(w)
      PROVE  AtActive' /\ NeverFetchedTwice'
  <2>1. at[w] # "idle" /\ UNCHANGED <<active, job>>
    BY <1>4 DEF LookUrgent, Weigh, RequeueDeferred, StartFetch, EndFetch, ReadOutcome,
                ScheduleOk, ScheduleRetry, Requeue, queueVars
  <2>2. \A v \in Worker: v # w => at'[v] = at[v]
    BY <1>1, <1>4 DEF LookUrgent, Weigh, RequeueDeferred, StartFetch, EndFetch, ReadOutcome,
                      ScheduleOk, ScheduleRetry
  <2> QED BY <2>1, <2>2 DEF QueueInv
<1>5. CASE Restart
  BY <1>5 DEF Restart
<1>6. CASE UNCHANGED <<active, at, job>>
  BY <1>6 DEF QueueInv
<1>7. Reload \/ Refresh \/ Tick \/ (\E p \in Provider: Enqueue(p) \/ EditProvider(p))
      \/ UNCHANGED vars => UNCHANGED <<active, at, job>>
  BY DEF Reload, Refresh, Tick, Enqueue, EnqueueForced, EnqueuePlain, EditProvider, queueVars, vars
<1> QED BY <1>2, <1>3, <1>4, <1>5, <1>6, <1>7 DEF Next, Work

LEMMA QueueInvKept == QueueInv /\ [Next]_vars => QueueInv'
<1> SUFFICES ASSUME QueueInv, [Next]_vars PROVE QueueInv'
  OBVIOUS
<1>1. DiscoveryTypeOK'
  <2>1. CASE UNCHANGED vars
    BY <2>1 DEF QueueInv, DiscoveryTypeOK, vars, configVars, queueVars
  <2> QED BY <2>1, TypesKeptByWorkers, TypesKeptBySurroundings DEF Next
<1> QED BY <1>1, ExclusionKept DEF QueueInv

LEMMA QueueInvariant == Spec => []QueueInv
BY QueueInvInitially, QueueInvKept, PTL DEF Spec

(* The queue keeps its types and holds no provider twice.                  *)
THEOREM QueueTypeCorrect == Spec => []DiscoveryTypeOK
BY QueueInvariant, PTL DEF QueueInv

(* Two workers never fetch the same provider at the same time.             *)
THEOREM FetchesExclude == Spec => []NeverFetchedTwice
BY QueueInvariant, PTL DEF QueueInv

-----------------------------------------------------------------------------
(* Nobody is forgotten.  A worker that lets go of a provider has queued it *)
(* again or knows its catalogue; while it is at the provider no other      *)
(* worker touches its snapshot or takes it from the queue, and whoever     *)
(* else makes the catalogue uncertain is about to enqueue the provider.    *)
Kept(p) == Remembered(p) => Remembered(p)'

(* A step that leaves a provider alone.                                    *)
SameProvider(p) ==
  /\ (p \in configured' <=> p \in configured) /\ owed'[p] = owed[p]
  /\ snapshot'[p] = snapshot[p] /\ left'[p] = left[p] /\ asked'[p] = asked[p]
  /\ cooldown'[p] = cooldown[p] /\ (p \in Queued' <=> p \in Queued)

LEMMA WorkersTouchTheirOwn ==
  ASSUME QueueInv, NEW w \in Worker, Work(w), NEW p \in Provider,
         IF at[w] = "idle" THEN p # job'[w] ELSE p # job[w]
  PROVE  SameProvider(p)
<1> USE DEF SameProvider, QueueInv, DiscoveryTypeOK
<1>1. CASE PopDue(w)
  <2>1. PICK i \in DOMAIN queue:
          queue' = RemoveAt(queue, i) /\ job' = [job EXCEPT ![w] = queue[i]]
    BY <1>1 DEF PopDue
  <2>2. Queued' = Queued \ {queue[i]}
    BY <2>1, ShortenedQueue DEF Queued
  <2>3. at[w] = "idle"
    BY <1>1 DEF PopDue
  <2> QED BY <1>1, <2>1, <2>2, <2>3 DEF PopDue, configVars
<1>2. CASE RequeueDeferred(w) \/ ScheduleRetry(w)
  <2>1. job[w] \in Provider
    BY <1>2 DEF RequeueDeferred, ScheduleRetry, AtActive
  <2>2. Queued' = Queued \cup {job[w]}
    BY <1>2, <2>1, QueuedProvider DEF RequeueDeferred, ScheduleRetry, Requeue
  <2> QED BY <1>2, <2>2 DEF RequeueDeferred, ScheduleRetry, Requeue, configVars
<1>3. CASE StartFetch(w) \/ EndFetch(w)
  <2>1. /\ snapshot'[p] = snapshot[p] /\ left'[p] = left[p] /\ asked'[p] = asked[p]
        /\ UNCHANGED <<queue, cooldown, configured, owed>>
    BY <1>3 DEF StartFetch, EndFetch, queueVars
  <2> QED BY <2>1 DEF Queued
<1>4. CASE LookUrgent(w) \/ Weigh(w) \/ ReadOutcome(w) \/ ScheduleOk(w) \/ Finish(w)
  <2>1. UNCHANGED <<snapshot, left, asked, queue, configured, owed>> /\ cooldown'[p] = cooldown[p]
    BY <1>4 DEF LookUrgent, Weigh, ReadOutcome, ScheduleOk, Finish, configVars, queueVars
  <2> QED BY <2>1 DEF Queued
<1> QED BY <1>1, <1>2, <1>3, <1>4 DEF Work

LEMMA WorkersKeepOthers ==
  ASSUME QueueInv, NEW w \in Worker, Work(w), NEW p \in Provider,
         IF at[w] = "idle" THEN p # job'[w] ELSE p # job[w]
  PROVE  Kept(p)
BY WorkersTouchTheirOwn DEF SameProvider, Kept, Remembered

LEMMA SurroundingsRemember ==
  ASSUME QueueInv, NEW p \in Provider,
         Reload \/ Refresh \/ Restart \/ Tick
         \/ \E q \in Provider: Enqueue(q) \/ EditProvider(q)
  PROVE  Kept(p)
<1> USE DEF Kept, Remembered, QueueInv, DiscoveryTypeOK
<1>1. ASSUME NEW q \in Provider, Enqueue(q) PROVE Kept(p)
  <2>1. Queued' = Queued \cup {q}
    BY <1>1, QueuedProvider, ForcedProvider DEF Enqueue, EnqueueForced, EnqueuePlain
  <2>2. /\ UNCHANGED <<configured, snapshot>>
        /\ p # q => owed'[p] = owed[p]
    BY <1>1 DEF Enqueue, EnqueueForced, EnqueuePlain, configVars
  <2> QED BY <2>1, <2>2
<1>2. ASSUME NEW q \in Provider, EditProvider(q) PROVE Kept(p)
  BY <1>2 DEF EditProvider
<1>3. CASE Reload
  BY <1>3 DEF Reload
<1>4. CASE Refresh
  BY <1>4 DEF Refresh
<1>5. CASE Restart
  BY <1>5 DEF Restart
<1>6. CASE Tick
  BY <1>6 DEF Tick, Queued
<1> QED BY <1>1, <1>2, <1>3, <1>4, <1>5, <1>6

(* While a worker is about to let go of its provider, the others leave     *)
(* that provider alone.                                                    *)
LEMMA LeavesRememberedByWorkers ==
  ASSUME MemoryInv, NEW v \in Worker, Work(v)
  PROVE  LeavesRemembered'
<1> SUFFICES ASSUME NEW w \in Worker, at'[w] \in {"succeeded", "finishing", "yielded"}
             PROVE  Remembered(job[w])'
  BY DEF LeavesRemembered
<1>t. /\ at \in [Worker -> Waits] /\ job \in [Worker -> Provider \cup {NoProvider}]
      /\ AtActive /\ NeverFetchedTwice /\ QueueInv
  BY DEF MemoryInv, QueueInv, DiscoveryTypeOK
<1>1. CASE w # v
  <2>1. /\ at'[w] = at[w] /\ job'[w] = job[w]
    BY <1>1, <1>t DEF Work, PopDue, LookUrgent, Weigh, RequeueDeferred, StartFetch, EndFetch,
             ReadOutcome, ScheduleOk, ScheduleRetry, Finish, Requeue
  <2>2. Remembered(job[w]) /\ job[w] \in Provider /\ job[w] \in active
    BY <2>1, <1>t DEF MemoryInv, LeavesRemembered, AtActive, QueueInv, DiscoveryTypeOK
  <2>3. CASE at[v] = "idle"
    <3>1. PopDue(v)
      BY <2>3 DEF Work, PopDue, LookUrgent, Weigh, RequeueDeferred, StartFetch, EndFetch,
                  ReadOutcome, ScheduleOk, ScheduleRetry, Finish
    <3>2. job'[v] \notin active
      BY <3>1, <1>t DEF PopDue, Due
    <3> QED BY <2>1, <2>2, <2>3, <3>2, <1>t, WorkersKeepOthers DEF Kept, Remembered
  <2>4. CASE at[v] # "idle"
    <3>1. job[w] # job[v]
      BY <1>1, <2>1, <2>4, <1>t DEF NeverFetchedTwice
    <3> QED BY <2>1, <2>2, <2>4, <3>1, <1>t, WorkersKeepOthers DEF Kept, Remembered
  <2> QED BY <2>3, <2>4
<1>2. CASE w = v
  <2>1. CASE ReadOutcome(v)
    BY <1>2, <2>1, <1>t DEF ReadOutcome, configVars, Remembered
  <2>2. CASE ScheduleOk(v)
    <3>1. Remembered(job[v])
      BY <2>2 DEF ScheduleOk, MemoryInv, LeavesRemembered
    <3> QED BY <1>2, <2>2, <3>1 DEF ScheduleOk, configVars, Remembered, Queued
  <2>3. CASE RequeueDeferred(v) \/ ScheduleRetry(v)
    <3>1. job[v] \in Provider
      BY <2>3, <1>t DEF RequeueDeferred, ScheduleRetry, AtActive, QueueInv, DiscoveryTypeOK
    <3>2. Queued' = Queued \cup {job[v]} /\ job' = job
      BY <2>3, <3>1, <1>t, QueuedProvider DEF RequeueDeferred, ScheduleRetry, Requeue, QueueInv
    <3> QED BY <1>2, <3>2 DEF Remembered
  <2>4. ~(PopDue(v) \/ LookUrgent(v) \/ Weigh(v) \/ StartFetch(v) \/ EndFetch(v) \/ Finish(v))
    BY <1>2, <1>t DEF PopDue, LookUrgent, Weigh, StartFetch, EndFetch, Finish
  <2> QED BY <2>1, <2>2, <2>3, <2>4 DEF Work
<1> QED BY <1>1, <1>2

LEMMA NotForgottenByWorkers ==
  ASSUME MemoryInv, NEW v \in Worker, Work(v)
  PROVE  NeverForgotten'
<1>t. /\ at \in [Worker -> Waits] /\ job \in [Worker -> Provider \cup {NoProvider}]
      /\ configured' = configured /\ configured \subseteq Provider /\ QueueInv
  BY DEF MemoryInv, QueueInv, DiscoveryTypeOK, Work, PopDue, LookUrgent, Weigh, RequeueDeferred,
         StartFetch, EndFetch, ReadOutcome, ScheduleOk, ScheduleRetry, Finish, Requeue, configVars
<1> SUFFICES ASSUME NEW p \in configured PROVE Remembered(p)' \/ p \in active'
  BY <1>t DEF NeverForgotten, Remembered
<1>1. CASE Finish(v) /\ p = job[v]
  BY <1>1 DEF Finish, MemoryInv, LeavesRemembered, Remembered, configVars, Queued
<1>2. CASE ~Finish(v) \/ p # job[v]
  <2>1. p \in active => p \in active'
    BY <1>2 DEF Work, PopDue, LookUrgent, Weigh, RequeueDeferred, StartFetch, EndFetch,
                ReadOutcome, ScheduleOk, ScheduleRetry, Finish, Requeue, queueVars
  <2>2. CASE p \notin active
    <3>1. Remembered(p)
      BY <2>2 DEF MemoryInv, NeverForgotten, Remembered
    <3>2. CASE at[v] = "idle"
      <4>1. PopDue(v)
        BY <3>2 DEF Work, PopDue, LookUrgent, Weigh, RequeueDeferred, StartFetch, EndFetch,
                    ReadOutcome, ScheduleOk, ScheduleRetry, Finish
      <4>2. job'[v] \in active'
        BY <4>1, <1>t DEF PopDue
      <4> QED BY <1>t, <3>1, <3>2, <4>2, WorkersKeepOthers DEF Kept
    <3>3. CASE at[v] # "idle"
      <4>1. p # job[v]
        BY <2>2, <3>3 DEF MemoryInv, QueueInv, AtActive
      <4> QED BY <1>t, <3>1, <3>3, <4>1, WorkersKeepOthers DEF Kept
    <3> QED BY <3>2, <3>3
  <2> QED BY <2>1, <2>2
<1> QED BY <1>1, <1>2

LEMMA MemoryInvInitially == DiscoveryInit => MemoryInv
BY QueueInvInitially DEF DiscoveryInit, MemoryInv, LeavesRemembered, NeverForgotten

LEMMA MemoryInvKept == MemoryInv /\ [Next]_vars => MemoryInv'
<1> SUFFICES ASSUME MemoryInv, [Next]_vars PROVE LeavesRemembered' /\ NeverForgotten'
  BY QueueInvKept DEF MemoryInv
<1>1. QueueInv /\ LeavesRemembered /\ NeverForgotten /\ configured \subseteq Provider
  BY DEF MemoryInv, QueueInv, DiscoveryTypeOK
<1>2. ASSUME NEW w \in Worker, Work(w) PROVE LeavesRemembered' /\ NeverForgotten'
  BY <1>2, LeavesRememberedByWorkers, NotForgottenByWorkers
<1>3. CASE Restart
  <2>1. /\ at' = [w \in Worker |-> "idle"] /\ configured' = configured
        /\ \A p \in configured: owed'[p] # "none"
    BY <1>1, <1>3 DEF Restart
  <2>2. LeavesRemembered'
    BY <2>1 DEF LeavesRemembered
  <2>3. NeverForgotten'
    BY <2>1 DEF NeverForgotten
  <2> QED BY <2>2, <2>3
<1>4. CASE Reload \/ Refresh \/ Tick \/ \E p \in Provider: Enqueue(p) \/ EditProvider(p)
  <2>1. UNCHANGED <<active, at, job>>
    BY <1>4 DEF Reload, Refresh, Tick, Enqueue, EnqueueForced, EnqueuePlain, EditProvider, queueVars
  <2>2. configured' \subseteq Provider
    BY QueueInvKept, <1>1 DEF QueueInv, DiscoveryTypeOK
  <2>3. \A p \in Provider: Kept(p)
    BY <1>1, <1>4, SurroundingsRemember
  <2>4. LeavesRemembered'
    <3> SUFFICES ASSUME NEW w \in Worker, at[w] \in {"succeeded", "finishing", "yielded"}
                 PROVE  Remembered(job[w])'
      BY <2>1 DEF LeavesRemembered, Remembered
    <3>1. job[w] \in Provider /\ Remembered(job[w])
      BY <1>1 DEF LeavesRemembered, QueueInv, AtActive, DiscoveryTypeOK
    <3> QED BY <2>1, <2>3, <3>1 DEF Kept, Remembered
  <2>5. NeverForgotten'
    <3> SUFFICES ASSUME NEW p \in Provider, p \notin active PROVE Remembered(p)'
      BY <2>1, <2>2 DEF NeverForgotten, Remembered
    <3> QED BY <1>1, <2>3 DEF NeverForgotten, Remembered, Kept
  <2> QED BY <2>4, <2>5
<1>5. CASE UNCHANGED vars
  BY <1>1, <1>5 DEF vars, configVars, queueVars, LeavesRemembered, NeverForgotten, Remembered, Queued
<1> QED BY <1>2, <1>3, <1>4, <1>5 DEF Next

(* No provider is forgotten: one whose catalogue is not known for certain  *)
(* is queued, at a worker, or about to be enqueued by a running call.      *)
THEOREM NobodyForgotten == Spec => []NeverForgotten
BY MemoryInvInitially, MemoryInvKept, PTL DEF Spec, MemoryInv

-----------------------------------------------------------------------------
(* A trusted catalogue that nobody asked for anew rests: its provider is   *)
(* not queued, or has a cooldown at least as long as the trust.  While a   *)
(* worker is at the provider this need not hold, but then the worker is    *)
(* either past the fetch or was right to begin it.                         *)
Rested(p) == snapshot[p] = "ok" /\ left[p] > 0 /\ ~asked[p]

Rests(p) == Rested(p) =>
              cooldown[p] >= left[p] \/ (cooldown[p] = NotSet /\ p \notin Queued)

Justified == {"popped", "weighing", "deferring", "starting", "failed", "yielded"}

RestInv ==
  /\ QueueInv
  /\ \A p \in Provider: snapshot[p] = "ok" => left[p] <= OkTtl
  /\ \A p \in Provider \ active: Rests(p)
  /\ \A w \in Worker: at[w] \in Justified => ~Rested(job[w])
  /\ \A w \in Worker: at[w] = "finishing" => Rests(job[w])

(* What a worker does to its own provider.                                 *)
LEMMA WorkerJustified ==
  ASSUME RestInv, NEW w \in Worker, Work(w)
  PROVE  /\ at'[w] \in Justified => ~Rested(job[w])'
         /\ at'[w] = "finishing" => Rests(job[w])'
         /\ \A p \in Provider: p = job[w] /\ at'[w] = "idle" => Rests(p)'
<1>t. /\ at \in [Worker -> Waits] /\ job \in [Worker -> Provider \cup {NoProvider}]
      /\ at[w] # "idle" => job[w] \in Provider
      /\ snapshot \in [Provider -> {"none", "pending", "ok", "error", "stale"}]
      /\ cooldown \in [Provider -> Times] /\ left \in [Provider -> Trusts]
  BY DEF RestInv, QueueInv, DiscoveryTypeOK, AtActive
<1>1. CASE PopDue(w)
  <2>1. PICK i \in DOMAIN queue:
          /\ queue[i] \notin active /\ cooldown[queue[i]] <= 0
          /\ job' = [job EXCEPT ![w] = queue[i]]
    BY <1>1 DEF PopDue, Due
  <2>2. queue[i] \in Provider /\ queue[i] \in Queued
    BY ElementOfSeq DEF RestInv, QueueInv, DiscoveryTypeOK, Queued, ToSet
  <2>3. left[queue[i]] \in Int /\ cooldown[queue[i]] \in Int
    BY <1>t, <2>2, TimesAssumption DEF Trusts, Times, NotSet
  <2>4. ~Rested(queue[i])
    BY <2>1, <2>2, <2>3 DEF RestInv, Rests, Rested
  <2>5. at[w] = "idle" /\ at'[w] = "popped" /\ job'[w] = queue[i]
        /\ UNCHANGED <<snapshot, left, asked>>
    BY <1>1, <1>t, <2>1 DEF PopDue, configVars
  <2> QED BY <2>4, <2>5 DEF Rested
<1>2. CASE LookUrgent(w) \/ Weigh(w)
  <2>1. at[w] \in Justified /\ at'[w] \in Justified /\ UNCHANGED <<snapshot, left, asked, job>>
    BY <1>2, <1>t DEF LookUrgent, Weigh, configVars, Justified
  <2> QED BY <2>1 DEF RestInv, Rested, Justified
<1>3. CASE RequeueDeferred(w) \/ ScheduleRetry(w)
  <2>1. /\ at[w] \in Justified /\ at'[w] \in {"yielded", "finishing"}
        /\ UNCHANGED <<snapshot, left, asked, job>>
    BY <1>3, <1>t DEF RequeueDeferred, ScheduleRetry, Requeue, configVars, Justified
  <2> QED BY <2>1 DEF RestInv, Rested, Rests
<1>4. CASE StartFetch(w)
  <2>1. /\ snapshot'[job[w]] = "pending" /\ job' = job
        /\ at'[w] \in {"fetching", "failed"}
    BY <1>4, <1>t DEF StartFetch
  <2> QED BY <2>1 DEF Rested
<1>5. CASE EndFetch(w)
  BY <1>5, <1>t DEF EndFetch, Justified
<1>6. CASE ReadOutcome(w)
  BY <1>6, <1>t DEF ReadOutcome, configVars, Justified, Rested
<1>7. CASE ScheduleOk(w)
  <2>1. /\ cooldown'[job[w]] = OkTtl /\ job' = job /\ UNCHANGED <<snapshot, left>>
        /\ at'[w] = "finishing" /\ job[w] \in Provider
    BY <1>7, <1>t DEF ScheduleOk, configVars
  <2>2. left[job[w]] \in Int /\ OkTtl \in Int
    BY <1>t, <2>1, TimesAssumption DEF Trusts
  <2> QED BY <2>1, <2>2 DEF RestInv, Rests, Rested, Justified
<1>8. CASE Finish(w)
  <2>1. /\ at[w] \in {"finishing", "yielded"} /\ at'[w] = "idle"
        /\ UNCHANGED <<snapshot, left, asked, cooldown, queue>>
        /\ job'[w] = NoProvider
    BY <1>8, <1>t DEF Finish, configVars
  <2>2. Rests(job[w])
    BY <2>1 DEF RestInv, Rests, Justified
  <2> QED BY <2>1, <2>2 DEF Rests, Rested, Queued, Justified
<1> QED BY <1>1, <1>2, <1>3, <1>4, <1>5, <1>6, <1>7, <1>8 DEF Work

LEMMA RestKeptByWorkers ==
  ASSUME RestInv, NEW v \in Worker, Work(v), QueueInv'
  PROVE  RestInv'
<1>t. /\ at \in [Worker -> Waits] /\ job \in [Worker -> Provider \cup {NoProvider}]
      /\ QueueInv /\ AtActive /\ NeverFetchedTwice
      /\ \A w \in Worker: at[w] # "idle" => job[w] \in Provider
  BY DEF RestInv, QueueInv, DiscoveryTypeOK, AtActive
<1>0. \A w \in Worker: w # v => at'[w] = at[w] /\ job'[w] = job[w]
  BY <1>t DEF Work, PopDue, LookUrgent, Weigh, RequeueDeferred, StartFetch, EndFetch,
             ReadOutcome, ScheduleOk, ScheduleRetry, Finish, Requeue
<1>i. at[v] = "idle" => PopDue(v)
  BY DEF Work, PopDue, LookUrgent, Weigh, RequeueDeferred, StartFetch, EndFetch,
         ReadOutcome, ScheduleOk, ScheduleRetry, Finish
<1>p. PopDue(v) => /\ at[v] = "idle" /\ at'[v] = "popped"
                   /\ job'[v] \notin active /\ active' = active \cup {job'[v]}
  BY <1>t DEF PopDue, Due
<1>a. \/ active' = active
      \/ PopDue(v)
      \/ Finish(v) /\ active' = active \ {job[v]} /\ at'[v] = "idle"
  BY <1>t DEF Work, PopDue, LookUrgent, Weigh, RequeueDeferred, StartFetch, EndFetch,
         ReadOutcome, ScheduleOk, ScheduleRetry, Finish, Requeue, queueVars
<1>1. \A p \in Provider: snapshot'[p] = "ok" => left'[p] <= OkTtl
  <2>1. CASE EndFetch(v)
    <3>1. PICK answer \in {"ok", "error"}:
            \/ UNCHANGED <<snapshot, left>>
            \/ /\ snapshot' = [snapshot EXCEPT ![job[v]] = answer]
               /\ left' = [left EXCEPT ![job[v]] = Trust(answer)]
      BY <2>1 DEF EndFetch
    <3>2. Trust("ok") = OkTtl /\ OkTtl \in Nat
      BY TimesAssumption DEF Trust
    <3> QED BY <3>1, <3>2, <1>t DEF RestInv, QueueInv, DiscoveryTypeOK
  <2>2. CASE StartFetch(v)
    BY <2>2, <1>t DEF StartFetch, RestInv, QueueInv, DiscoveryTypeOK
  <2>3. EndFetch(v) \/ StartFetch(v) \/ UNCHANGED <<snapshot, left>>
    BY DEF Work, PopDue, LookUrgent, Weigh, RequeueDeferred, ReadOutcome, ScheduleOk,
           ScheduleRetry, Finish, Requeue, configVars
  <2> QED BY <2>1, <2>2, <2>3 DEF RestInv
<1>2. ASSUME NEW p \in Provider \ active' PROVE Rests(p)'
  <2>1. CASE at[v] = "idle"
    <3>1. p # job'[v] /\ p \notin active
      BY <2>1, <1>2, <1>i, <1>p
    <3>2. SameProvider(p)
      BY <2>1, <3>1, <1>t, WorkersTouchTheirOwn
    <3> QED BY <3>1, <3>2 DEF RestInv, Rests, Rested, SameProvider
  <2>2. CASE at[v] # "idle" /\ p # job[v]
    <3>1. p \notin active
      BY <2>2, <1>2, <1>a, <1>p
    <3>2. SameProvider(p)
      BY <2>2, <1>t, WorkersTouchTheirOwn
    <3> QED BY <3>1, <3>2 DEF RestInv, Rests, Rested, SameProvider
  <2>3. CASE at[v] # "idle" /\ p = job[v]
    <3>1. at'[v] = "idle"
      BY <2>3, <1>2, <1>a, <1>p, <1>t DEF AtActive
    <3> QED BY <3>1, <2>3, WorkerJustified
  <2> QED BY <2>1, <2>2, <2>3
<1>3. ASSUME NEW w \in Worker, w # v, at[w] # "idle" PROVE SameProvider(job[w])
  <2>1. at[v] = "idle" => job[w] # job'[v]
    BY <1>3, <1>t, <1>i, <1>p DEF AtActive
  <2>2. at[v] # "idle" => job[w] # job[v]
    BY <1>3, <1>t DEF NeverFetchedTwice
  <2> QED BY <1>3, <1>t, <2>1, <2>2, WorkersTouchTheirOwn DEF SameProvider
<1>4. \A w \in Worker: at'[w] \in Justified => ~Rested(job[w])'
  BY <1>0, <1>3, WorkerJustified DEF RestInv, Rested, SameProvider, Justified
<1>5. \A w \in Worker: at'[w] = "finishing" => Rests(job[w])'
  BY <1>0, <1>3, WorkerJustified DEF RestInv, Rested, Rests, SameProvider
<1> QED BY <1>1, <1>2, <1>4, <1>5 DEF RestInv

(* An edit or refresh makes the catalogue untrusted, a reload too or not   *)
(* at all; enqueueing by force says so, and plain enqueueing respects the  *)
(* age of the catalogue; time runs out for trust and cooldown alike.       *)
LEMMA SurroundingsLetRest ==
  ASSUME RestInv, NEW p \in Provider,
         Reload \/ Refresh \/ Tick \/ \E q \in Provider: Enqueue(q) \/ EditProvider(q)
  PROVE  /\ Rests(p) => Rests(p)'
         /\ ~Rested(p) => ~Rested(p)'
         /\ snapshot'[p] = "ok" => left'[p] <= OkTtl
<1>t. /\ QueueInv /\ DiscoveryTypeOK /\ NotSet = -1 /\ OkTtl \in Nat
      /\ left[p] \in Int /\ cooldown[p] \in Int /\ left[p] >= 0
      /\ snapshot[p] = "ok" => left[p] <= OkTtl
  BY TimesAssumption DEF RestInv, QueueInv, DiscoveryTypeOK, Trusts, Times, NotSet
<1>1. ASSUME NEW q \in Provider, EnqueueForced(q)
      PROVE  /\ Rests(p) => Rests(p)'
             /\ ~Rested(p) => ~Rested(p)'
             /\ snapshot'[p] = "ok" => left'[p] <= OkTtl
  <2>1. UNCHANGED <<snapshot, left>> /\ asked' = [asked EXCEPT ![q] = TRUE]
    BY <1>1 DEF EnqueueForced, configVars
  <2>2. CASE p = q
    BY <2>1, <2>2, <1>t DEF Rests, Rested, DiscoveryTypeOK
  <2>3. CASE p # q
    <3>1. Queued' = Queued \cup {q}
      BY <1>1, <1>t, ForcedProvider DEF EnqueueForced
    <3>2. SameProvider(p)
      BY <1>1, <1>t, <2>1, <2>3, <3>1 DEF EnqueueForced, configVars, SameProvider, DiscoveryTypeOK
    <3> QED BY <3>2, <1>t DEF SameProvider, Rests, Rested
  <2> QED BY <2>2, <2>3
<1>2. ASSUME NEW q \in Provider, EnqueuePlain(q)
      PROVE  /\ Rests(p) => Rests(p)'
             /\ ~Rested(p) => ~Rested(p)'
             /\ snapshot'[p] = "ok" => left'[p] <= OkTtl
  <2>1. UNCHANGED <<snapshot, left, asked>>
    BY <1>2 DEF EnqueuePlain, configVars
  <2>2. Queued' = Queued \cup {q}
    BY <1>2, <1>t, QueuedProvider DEF EnqueuePlain
  <2>3. CASE p # q
    <3>1. SameProvider(p)
      BY <1>2, <1>t, <2>1, <2>2, <2>3 DEF EnqueuePlain, configVars, SameProvider, DiscoveryTypeOK
    <3> QED BY <3>1, <1>t DEF SameProvider, Rests, Rested
  <2>4. CASE p = q
    <3>1. cooldown'[p] = IF cooldown[p] = NotSet THEN CooldownFromSnapshot(p) ELSE cooldown[p]
      BY <1>2, <1>t, <2>4 DEF EnqueuePlain, DiscoveryTypeOK
    <3>2. snapshot[p] = "ok" => CooldownFromSnapshot(p) = left[p]
      BY DEF CooldownFromSnapshot
    <3> QED BY <1>t, <2>1, <3>1, <3>2 DEF Rests, Rested
  <2> QED BY <2>3, <2>4
<1>3. ASSUME NEW q \in Provider, EditProvider(q)
      PROVE  /\ Rests(p) => Rests(p)'
             /\ ~Rested(p) => ~Rested(p)'
             /\ snapshot'[p] = "ok" => left'[p] <= OkTtl
  BY <1>3, <1>t DEF EditProvider, queueVars, Rests, Rested, Queued, DiscoveryTypeOK
<1>4. CASE Refresh
  BY <1>4, <1>t DEF Refresh, queueVars, Rests, Rested, Queued, DiscoveryTypeOK
<1>5. CASE Reload
  <2>1. UNCHANGED <<queue, cooldown, asked>>
    BY <1>5 DEF Reload, queueVars
  <2>2. snapshot'[p] = "ok" => snapshot[p] = "ok" /\ left'[p] = left[p]
    BY <1>5, <1>t DEF Reload
  <2>3. snapshot'[p] = "ok" \/ ~Rested(p)'
    BY DEF Rested
  <2> QED BY <1>t, <2>1, <2>2, <2>3 DEF Rests, Rested, Queued
<1>6. CASE Tick
  <2>1. /\ UNCHANGED <<snapshot, queue, asked>>
        /\ left'[p] = IF left[p] > 0 THEN left[p] - 1 ELSE 0
        /\ cooldown'[p] = IF cooldown[p] > 0 THEN cooldown[p] - 1 ELSE cooldown[p]
    BY <1>6 DEF Tick
  <2> QED BY <1>t, <2>1 DEF Rests, Rested, Queued
<1> QED BY <1>1, <1>2, <1>3, <1>4, <1>5, <1>6 DEF Enqueue

LEMMA RestInvInitially == DiscoveryInit => RestInv
<1> SUFFICES ASSUME DiscoveryInit PROVE RestInv
  OBVIOUS
<1>1. Queued = {}
  BY DEF DiscoveryInit, Queued, ToSet
<1>2. \A p \in Provider: cooldown[p] = NotSet
  BY DEF DiscoveryInit
<1>3. \A p \in Provider: snapshot[p] = "ok" => left[p] <= OkTtl
  BY DEF DiscoveryInit, Trust
<1> QED BY <1>1, <1>2, <1>3, QueueInvInitially DEF DiscoveryInit, RestInv, Rests, Justified

LEMMA RestInvKept == RestInv /\ [Next]_vars => RestInv'
<1> SUFFICES ASSUME RestInv, [Next]_vars PROVE RestInv'
  OBVIOUS
<1>1. QueueInv /\ QueueInv' /\ (\A w \in Worker: at[w] # "idle" => job[w] \in Provider)
  BY QueueInvKept DEF RestInv, QueueInv, AtActive, DiscoveryTypeOK
<1>2. ASSUME NEW w \in Worker, Work(w) PROVE RestInv'
  BY <1>1, <1>2, RestKeptByWorkers
<1>3. CASE Restart
  <2>1. /\ at' = [w \in Worker |-> "idle"] /\ cooldown' = [p \in Provider |-> NotSet]
        /\ queue' = << >> /\ UNCHANGED <<snapshot, left>>
    BY <1>3 DEF Restart
  <2>2. Queued' = {}
    BY <2>1 DEF Queued, ToSet
  <2>3. \A p \in Provider: Rests(p)'
    BY <2>1, <2>2 DEF Rests
  <2> QED BY <1>1, <2>1, <2>3 DEF RestInv, Justified
<1>4. CASE Reload \/ Refresh \/ Tick \/ \E p \in Provider: Enqueue(p) \/ EditProvider(p)
  <2>1. UNCHANGED <<active, at, job>>
    BY <1>4 DEF Reload, Refresh, Tick, Enqueue, EnqueueForced, EnqueuePlain, EditProvider, queueVars
  <2>2. \A p \in Provider: /\ Rests(p) => Rests(p)'
                           /\ ~Rested(p) => ~Rested(p)'
                           /\ snapshot'[p] = "ok" => left'[p] <= OkTtl
    BY <1>4, SurroundingsLetRest
  <2>3. \A w \in Worker: at'[w] \in Justified => ~Rested(job[w])'
    BY <1>1, <2>1, <2>2 DEF RestInv, Justified, Rested
  <2>4. \A w \in Worker: at'[w] = "finishing" => Rests(job[w])'
    BY <1>1, <2>1, <2>2 DEF RestInv, Rests, Rested
  <2> QED BY <1>1, <2>1, <2>2, <2>3, <2>4 DEF RestInv
<1>5. CASE UNCHANGED vars
  BY <1>1, <1>5 DEF vars, configVars, queueVars, RestInv, Rests, Rested, Queued
<1> QED BY <1>2, <1>3, <1>4, <1>5 DEF Next

(* A catalogue that is still trusted is fetched again only if somebody     *)
(* asked for it since the last fetch.                                      *)
THEOREM TrustedRest == Spec => TrustedIsNotRefetched
<1>1. RestInv /\ [Next]_vars =>
        [\A w \in Worker:
           at[w] = "starting" /\ at'[w] # "starting" /\ at'[w] # "idle" =>
             LET p == job[w] IN snapshot[p] = "ok" /\ left[p] > 0 => asked[p]]_vars
  BY DEF RestInv, Rested, Justified
<1> QED BY <1>1, RestInvInitially, RestInvKept, PTL DEF Spec, TrustedIsNotRefetched
=============================================================================
