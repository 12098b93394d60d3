--------------------------- MODULE OptimisticConfig ---------------------------
(* OptimisticConfigStore (dashboard_src/src/optimistic-config.mjs): the last   *)
(* configuration the server confirmed, with its epoch and revision, and the    *)
(* edits laid over it until the server has answered. A store is a record; the  *)
(* methods are operators from a store to a store.                              *)
EXTENDS ConfigContent

NoId == 0
NoMark == -1        \* a configuration or a store without an epoch or a revision

Mark(e, r) == [epoch |-> e, rev |-> r]

(* A server's answer: its configuration, epoch and revision.                   *)
Answer(c, m) == [kind |-> "config", cfg |-> c, mark |-> m]

NothingYet == [none |-> TRUE]    \* the `{}` of a store that was never filled

EmptyStore(next) ==
  [confirmed |-> NothingYet, mark |-> Mark(NoMark, NoMark),
   pending |-> << >>, settled |-> << >>, nextId |-> next]

Filled(st) == st.confirmed # NothingYet

(* The previews of edits laid over configuration c, one after the other.       *)
Laid(c, edits) ==
  LET after[n \in 0..Len(edits)] ==
        IF n = 0 THEN c ELSE Preview(after[n - 1], edits[n].writes)
  IN  after[Len(edits)]

(* config(): the confirmed configuration with the settled and the pending      *)
(* edits applied in the order they were begun. An empty configuration stays    *)
(* without the parts an edit would change.                                     *)
Effective(st) ==
  IF Filled(st) THEN Laid(st.confirmed, st.settled \o st.pending) ELSE NothingYet

EpochIsOlder(st, m) == m.epoch >= 0 /\ st.mark.epoch >= 0 /\ m.epoch < st.mark.epoch
EpochIsNewer(st, m) == m.epoch >= 0 /\ (st.mark.epoch < 0 \/ m.epoch > st.mark.epoch)

(* Mutants: any answer is taken; epochs are not compared.                      *)
OutdatedNever(st, m) == FALSE
OutdatedByRevision(st, m) == st.mark.rev >= 0 /\ m.rev < st.mark.rev /\ ~EpochIsNewer(st, m)

(* An answer without a revision cannot replace one that had it, and within one *)
(* epoch an older revision cannot replace a newer one.                         *)
Outdated(st, m) ==
  \/ EpochIsOlder(st, m)
  \/ ~EpochIsNewer(st, m) /\ st.mark.rev >= 0 /\ m.rev < st.mark.rev

NewMark(st, m) ==
  IF m.rev < 0 THEN st.mark
  ELSE Mark(IF m.epoch >= 0 THEN m.epoch ELSE st.mark.epoch, m.rev)

(* Mutant: an outdated configuration is taken, only its mark is not.           *)
AcceptConfirmedUnderNewerMark(st, a) ==
  [st EXCEPT !.confirmed = a.cfg, !.settled = << >>,
             !.mark = IF Outdated(st, a.mark) THEN @ ELSE NewMark(st, a.mark)]

AcceptConfirmed(st, a) ==
  IF Outdated(st, a.mark) THEN st
  ELSE [st EXCEPT
          !.confirmed = a.cfg,
          !.mark      = NewMark(st, a.mark),
          !.settled   = IF a.mark.rev >= 0 \/ st.pending = << >> THEN << >> ELSE @]

HasPending(st, id) == \E i \in DOMAIN st.pending : st.pending[i].id = id
PendingKeys(st) == {st.pending[i].rk : i \in DOMAIN st.pending}

(* The ids of pending edits differ, so filtering one out removes one place.    *)
PlaceOf(id, pending) == CHOOSE i \in DOMAIN pending : pending[i].id = id
Without(pending, id) ==
  IF \E i \in DOMAIN pending : pending[i].id = id
  THEN RemoveAt(pending, PlaceOf(id, pending)) ELSE pending

(* Mutant: saves of one resource overlap.                                      *)
CanBeginAlways(st, rk) == TRUE

(* begin(): refused while an edit of the same resource is pending.             *)
CanBegin(st, rk) == rk \notin PendingKeys(st)

Begin(st, rk, writes) ==
  [st EXCEPT !.pending = Append(@, [id |-> st.nextId, rk |-> rk, writes |-> writes]),
             !.nextId  = @ + 1]

(* confirm(): the answer of an edit that is no longer pending changes nothing; *)
(* otherwise the edit leaves the pending ones and the answer is taken unless a *)
(* newer configuration is known. Without a revision the edit stays on top.     *)
Confirm(st, id, a) ==
  IF ~HasPending(st, id) THEN st
  ELSE LET rest == [st EXCEPT !.pending = Without(@, id)]
       IN  IF a.mark.rev < 0
           THEN [rest EXCEPT !.settled   = @ \o << st.pending[PlaceOf(id, st.pending)] >>,
                             !.confirmed = a.cfg]
           ELSE IF Outdated(st, a.mark)
                THEN [rest EXCEPT !.settled = << >>]
                ELSE [rest EXCEPT !.settled   = << >>,
                                  !.confirmed = a.cfg,
                                  !.mark      = NewMark(st, a.mark)]

(* Mutant: a failed edit keeps its preview.                                    *)
RejectNot(st, id) == st

Reject(st, id) == [st EXCEPT !.pending = Without(@, id)]

(* Mutant: ids start again after a logout.                                     *)
ClearIds(st) == EmptyStore(1)

(* clear(): everything but the next id, so that an edit begun before it is     *)
(* never taken for one begun after it.                                         *)
Clear(st) == EmptyStore(st.nextId)
=============================================================================
