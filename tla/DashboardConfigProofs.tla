------------------------ MODULE DashboardConfigProofs ------------------------
(* For any budgets, contents and number of saves: the store never goes back    *)
(* to an older epoch or revision, and holds the configuration of the revision  *)
(* it claims to hold (ClaimsInv); every preview belongs to a save under way of *)
(* the present session (SavesInv); contents keep their types through edits,    *)
(* previews and answers (TypesInv); when nothing is under way the screen shows *)
(* what the server has (ViewInv); a rename leaves the provider with a group    *)
(* (RenameInv) and a delete takes the key that was pointed at (DeleteInv).     *)
EXTENDS DashboardConfig, FiniteSetTheorems, WellFoundedInduction, TLAPS

ServerMarks == [epoch : Nat, rev : Nat]

(* Something server s may have said: content c under mark m.                   *)
Told(s, c, m) ==
  /\ m \in ServerMarks /\ NotOlder(s.mark, m)
  /\ ~s.torn /\ m = s.mark => c = s.cfg

Heard(s, a) == IsConfig(a) => Told(s, a.cfg, a.mark)

ServerFields  == {"cfg", "before", "mark", "key", "torn"}
StoreFields   == {"confirmed", "mark", "pending", "settled", "nextId"}
RefreshFields == {"at", "wanted", "loud", "includes", "fetch", "disturbed", "key", "answer"}
EditFields    == {"id", "rk", "runner", "writes", "next", "at", "key", "answer",
                  "sees", "blind", "orphan"}

IsServer(s) ==
  /\ DOMAIN s = ServerFields /\ s.mark \in ServerMarks /\ s.torn \in BOOLEAN
  /\ s.before # s.cfg => s.mark.rev > 0

IsStore(st) == DOMAIN st = StoreFields /\ st.mark \in Marks

Holds(s, st) == IsStore(st) /\ (Filled(st) => Told(s, st.confirmed, st.mark))

IsRefresh(s, r) == DOMAIN r = RefreshFields /\ Heard(s, r.answer)

IsEdit(s, e) == DOMAIN e = EditFields /\ Heard(s, e.answer)

AreEdits(s, es) ==
  /\ \E E : es \in Seq(E)
  /\ \A n \in DOMAIN es : IsEdit(s, es[n])

(* Everything the browser holds and everything on its way to it was said by    *)
(* the server.                                                                 *)
ClaimsInv ==
  /\ IsServer(srv)
  /\ Holds(srv, store)
  /\ IsRefresh(srv, static) /\ IsRefresh(srv, all)
  /\ AreEdits(srv, edits)

-----------------------------------------------------------------------------
(* How the server changes: a newer mark, or the same content under the same    *)
(* mark; once torn, it stays so.                                               *)
Advances(s, t) ==
  /\ IsServer(t)
  /\ \/ t.mark.epoch > s.mark.epoch
     \/ t.mark.epoch = s.mark.epoch /\ t.mark.rev > s.mark.rev
     \/ t.mark = s.mark /\ t.cfg = s.cfg /\ (s.torn => t.torn)

(* What was said before is something the server may have said still.           *)
LEMMA ToldStays ==
  ASSUME NEW s, NEW t, NEW c, NEW m, IsServer(s), Advances(s, t), Told(s, c, m)
  PROVE  Told(t, c, m)
<1>1. m \in ServerMarks /\ s.mark \in ServerMarks /\ t.mark \in ServerMarks
  BY DEF Told, IsServer, Advances
<1>2. /\ m.epoch \in Nat /\ m.rev \in Nat /\ s.mark.epoch \in Nat /\ s.mark.rev \in Nat
      /\ t.mark.epoch \in Nat /\ t.mark.rev \in Nat
  BY <1>1 DEF ServerMarks
<1>3. NotOlder(t.mark, m)
  BY <1>2 DEF Told, Advances, NotOlder
<1>4. ASSUME ~t.torn, m = t.mark PROVE c = t.cfg
  <2>1. t.mark = s.mark
    BY <1>2, <1>4 DEF Told, Advances, NotOlder
  <2> QED BY <1>2, <1>4, <2>1 DEF Told, Advances
<1> QED BY <1>1, <1>3, <1>4 DEF Told

LEMMA HeardStays ==
  ASSUME NEW s, NEW t, NEW a, IsServer(s), Advances(s, t), Heard(s, a)
  PROVE  Heard(t, a)
BY ToldStays DEF Heard

LEMMA EverythingStays ==
  ASSUME NEW s, NEW t, IsServer(s), Advances(s, t)
  PROVE  /\ \A st : Holds(s, st) => Holds(t, st)
         /\ \A r : IsRefresh(s, r) => IsRefresh(t, r)
         /\ \A e : IsEdit(s, e) => IsEdit(t, e)
         /\ \A es : AreEdits(s, es) => AreEdits(t, es)
<1>1. \A st : Holds(s, st) => Holds(t, st)
  BY ToldStays DEF Holds
<1>2. \A r : IsRefresh(s, r) => IsRefresh(t, r)
  BY HeardStays DEF IsRefresh
<1>3. \A e : IsEdit(s, e) => IsEdit(t, e)
  BY HeardStays DEF IsEdit
<1>4. \A es : AreEdits(s, es) => AreEdits(t, es)
  BY <1>3 DEF AreEdits
<1> QED BY <1>1, <1>2, <1>3, <1>4

-----------------------------------------------------------------------------
(* What the methods of the store do to what it holds.                          *)
LEMMA MarkTaken ==
  ASSUME NEW st, NEW m, m \in ServerMarks
  PROVE  NewMark(st, m) = m
BY DEF NewMark, Mark, ServerMarks

LEMMA Taken ==
  ASSUME NEW s, NEW st, NEW a, Holds(s, st), Told(s, a.cfg, a.mark)
  PROVE  /\ Holds(s, AcceptConfirmed(st, a))
         /\ NotOlder(AcceptConfirmed(st, a).mark, st.mark)
<1>1. a.mark \in ServerMarks /\ a.mark.epoch \in Nat /\ a.mark.rev \in Nat
  BY DEF Told, ServerMarks
<1>2. /\ DOMAIN st = StoreFields /\ st.mark \in Marks
      /\ st.mark.epoch \in Nat \cup {NoMark} /\ st.mark.rev \in Nat \cup {NoMark}
  BY DEF Holds, IsStore, Marks
<1>3. CASE Outdated(st, a.mark)
  BY <1>2, <1>3 DEF AcceptConfirmed, NotOlder, NoMark
<1>4. CASE ~Outdated(st, a.mark)
  <2> DEFINE new == AcceptConfirmed(st, a)
  <2>1. NewMark(st, a.mark) = a.mark
    BY <1>1, MarkTaken
  <2>2. DOMAIN new = StoreFields /\ new.confirmed = a.cfg /\ new.mark = a.mark
    BY <1>2, <1>4, <2>1 DEF AcceptConfirmed, StoreFields
  <2>3. NotOlder(a.mark, st.mark)
    BY <1>1, <1>2, <1>4 DEF Outdated, EpochIsOlder, EpochIsNewer, NotOlder, NoMark
  <2>4. a.mark \in Marks
    BY <1>1 DEF Marks, ServerMarks
  <2> QED BY <2>2, <2>3, <2>4 DEF Holds, IsStore
<1> QED BY <1>3, <1>4

LEMMA Confirmed ==
  ASSUME NEW s, NEW st, NEW a, NEW id, Holds(s, st), Told(s, a.cfg, a.mark)
  PROVE  /\ Holds(s, Confirm(st, id, a))
         /\ NotOlder(Confirm(st, id, a).mark, st.mark)
<1>1. a.mark \in ServerMarks /\ a.mark.epoch \in Nat /\ a.mark.rev \in Nat
  BY DEF Told, ServerMarks
<1>2. /\ DOMAIN st = StoreFields /\ st.mark \in Marks
      /\ st.mark.epoch \in Nat \cup {NoMark} /\ st.mark.rev \in Nat \cup {NoMark}
  BY DEF Holds, IsStore, Marks
<1> DEFINE new == Confirm(st, id, a)
<1>3. NotOlder(st.mark, st.mark)
  BY <1>2 DEF NotOlder, NoMark
<1>4. CASE ~HasPending(st, id)
  BY <1>3, <1>4 DEF Confirm
<1>5. CASE HasPending(st, id) /\ Outdated(st, a.mark)
  <2>1. DOMAIN new = StoreFields /\ new.confirmed = st.confirmed /\ new.mark = st.mark
    BY <1>1, <1>2, <1>5 DEF Confirm, StoreFields
  <2> QED BY <1>3, <2>1 DEF Holds, IsStore, Filled
<1>6. CASE HasPending(st, id) /\ ~Outdated(st, a.mark)
  <2>1. NewMark(st, a.mark) = a.mark
    BY <1>1, MarkTaken
  <2>2. DOMAIN new = StoreFields /\ new.confirmed = a.cfg /\ new.mark = NewMark(st, a.mark)
    BY <1>1, <1>2, <1>6 DEF Confirm, StoreFields, NewMark
  <2>3. NotOlder(a.mark, st.mark)
    BY <1>1, <1>2, <1>6 DEF Outdated, EpochIsOlder, EpochIsNewer, NotOlder, NoMark
  <2>4. a.mark \in Marks
    BY <1>1 DEF Marks, ServerMarks
  <2> QED BY <2>1, <2>2, <2>3, <2>4 DEF Holds, IsStore
<1> QED BY <1>4, <1>5, <1>6

LEMMA Begun ==
  ASSUME NEW s, NEW st, NEW rk, NEW ws, Holds(s, st)
  PROVE  Holds(s, Begin(st, rk, ws)) /\ NotOlder(Begin(st, rk, ws).mark, st.mark)
BY DEF Begin, Holds, IsStore, Filled, StoreFields, NotOlder, Marks, NoMark

LEMMA Rejected ==
  ASSUME NEW s, NEW st, NEW id, Holds(s, st)
  PROVE  Holds(s, Reject(st, id)) /\ NotOlder(Reject(st, id).mark, st.mark)
BY DEF Reject, Holds, IsStore, Filled, StoreFields, NotOlder, Marks, NoMark

LEMMA Cleared ==
  ASSUME NEW s, NEW st
  PROVE  Holds(s, Clear(st))
BY DEF Clear, EmptyStore, Holds, IsStore, Filled, StoreFields, Marks, Mark, NoMark, NothingYet

LEMMA Unmoved ==
  ASSUME NEW s, NEW st, Holds(s, st)
  PROVE  NotOlder(st.mark, st.mark)
BY DEF Holds, IsStore, NotOlder, Marks, NoMark

-----------------------------------------------------------------------------
(* Answers without a configuration claim nothing; requests carry none.         *)
LEMMA NothingClaimed ==
  ASSUME NEW s
  PROVE  Heard(s, Denied) /\ Heard(s, Failed)
BY DEF Heard, IsConfig, Denied, Failed, NoConfig, Answer

LEMMA Requests ==
  ASSUME NEW s
  PROVE  /\ IsRefresh(s, Resting)
         /\ \A config : IsRefresh(s, SentStatic(config))
         /\ \A loud : IsRefresh(s, SentAll(loud))
BY NothingClaimed DEF IsRefresh, Resting, SentStatic, SentAll, RefreshFields

(* A refresh that only has its flags changed still claims what it did.         *)
LEMMA SameClaim ==
  ASSUME NEW s, NEW r, NEW q, IsRefresh(s, r), DOMAIN q = DOMAIN r, q.answer = r.answer
  PROVE  IsRefresh(s, q)
BY DEF IsRefresh

LEMMA DisturbedClaim ==
  ASSUME IsRefresh(srv, static), Disturb
  PROVE  IsRefresh(srv, static')
<1>1. DOMAIN static' = DOMAIN static /\ static'.answer = static.answer
  BY DEF Disturb, IsRefresh, RefreshFields
<1> QED BY <1>1, SameClaim

LEMMA CutClaim ==
  ASSUME NEW s, NEW r, IsRefresh(s, r)
  PROVE  IsRefresh(s, Cut(r))
<1>1. CASE r.at \in {"sent", "committed"}
  <2>1. DOMAIN Cut(r) = RefreshFields /\ Cut(r).answer = Failed
    BY <1>1 DEF Cut, IsRefresh, RefreshFields
  <2> QED BY <2>1, NothingClaimed DEF IsRefresh
<1>2. CASE r.at \notin {"sent", "committed"}
  BY <1>2 DEF Cut
<1> QED BY <1>1, <1>2

(* The saves after a step that changes some of them, or adds one.              *)
LEMMA EditsChanged ==
  ASSUME NEW s, NEW es, NEW fs, AreEdits(s, es), fs = [n \in DOMAIN es |-> fs[n]],
         \A n \in DOMAIN es : IsEdit(s, fs[n])
  PROVE  AreEdits(s, fs)
<1>1. PICK E : es \in Seq(E)
  BY DEF AreEdits
<1> DEFINE F == {fs[n] : n \in DOMAIN es}
<1>2. Len(es) \in Nat /\ DOMAIN es = 1..Len(es)
  BY <1>1
<1>3. fs \in [1..Len(es) -> F]
  BY <1>2
<1>4. fs \in Seq(F)
  BY <1>2, <1>3
<1> QED BY <1>4 DEF AreEdits

LEMMA EditsGrow ==
  ASSUME NEW s, NEW es, NEW e, AreEdits(s, es), IsEdit(s, e)
  PROVE  AreEdits(s, Append(es, e))
<1>1. PICK E : es \in Seq(E)
  BY DEF AreEdits
<1>2. es \in Seq(E \cup {e}) /\ e \in E \cup {e}
  <2>1. Len(es) \in Nat /\ es \in [1..Len(es) -> E]
    BY <1>1
  <2>2. es \in [1..Len(es) -> E \cup {e}]
    BY <2>1
  <2> QED BY <2>1, <2>2
<1>3. Append(es, e) \in Seq(E \cup {e}) /\ DOMAIN Append(es, e) = 1..(Len(es) + 1)
  BY <1>2
<1>4. ASSUME NEW n \in 1..(Len(es) + 1) PROVE IsEdit(s, Append(es, e)[n])
  <2>1. CASE n = Len(es) + 1
    BY <1>2, <2>1
  <2>2. CASE n # Len(es) + 1
    <3>1. n \in DOMAIN es /\ Append(es, e)[n] = es[n]
      BY <1>2, <2>2
    <3> QED BY <3>1 DEF AreEdits
  <2> QED BY <2>1, <2>2
<1> QED BY <1>3, <1>4 DEF AreEdits

(* One save that is changed but claims what it did, or nothing, or what the    *)
(* server says.                                                                *)
LEMMA EditChanged ==
  ASSUME NEW s, NEW es, NEW n \in DOMAIN es, NEW e, AreEdits(s, es), IsEdit(s, e)
  PROVE  AreEdits(s, [es EXCEPT ![n] = e])
<1> DEFINE fs == [es EXCEPT ![n] = e]
<1>1. PICK E : es \in Seq(E)
  BY DEF AreEdits
<1>2. es = [m \in DOMAIN es |-> es[m]]
  BY <1>1
<1>3. fs = [m \in DOMAIN es |-> fs[m]]
  BY <1>2
<1>4. \A m \in DOMAIN es : IsEdit(s, fs[m])
  BY <1>2 DEF AreEdits
<1> HIDE DEF fs
<1> QED BY <1>3, <1>4, EditsChanged DEF fs

LEMMA OrphanedEdits ==
  ASSUME AreEdits(srv, edits)
  PROVE  AreEdits(srv, Orphaned)
<1>1. ASSUME NEW n \in DOMAIN edits PROVE IsEdit(srv, Orphaned[n])
  BY <1>1 DEF Orphaned, AreEdits, IsEdit, EditFields
<1>2. Orphaned = [n \in DOMAIN edits |-> Orphaned[n]]
  BY DEF Orphaned
<1> QED BY <1>1, <1>2, EditsChanged

-----------------------------------------------------------------------------
(* A snapshot, torn or not, is something the server says.                      *)
LEMMA SnapshotTold ==
  ASSUME IsServer(srv), NEW a, Snapshot(a)
  PROVE  Advances(srv, srv') /\ Told(srv', a.cfg, a.mark)
<1>1. srv.mark \in ServerMarks /\ srv.mark.epoch \in Nat /\ srv.mark.rev \in Nat
  BY DEF IsServer, ServerMarks
<1>2. CASE a = Answer(srv.cfg, srv.mark) /\ UNCHANGED <<srv, left>>
  BY <1>1, <1>2 DEF Answer, Advances, Told, NotOlder
<1>3. CASE /\ Spend("torn") /\ srv.before # srv.cfg
           /\ a \in {Answer(srv.before, srv.mark),
                     Answer(srv.cfg, Mark(srv.mark.epoch, srv.mark.rev - 1))}
           /\ srv' = [srv EXCEPT !.torn = TRUE]
  <2>1. /\ DOMAIN srv' = ServerFields /\ srv'.cfg = srv.cfg /\ srv'.before = srv.before
        /\ srv'.mark = srv.mark /\ srv'.torn = TRUE /\ srv.mark.rev > 0
    BY <1>3 DEF IsServer, ServerFields
  <2>2. Advances(srv, srv')
    BY <1>1, <2>1 DEF Advances, IsServer
  <2>3. a.mark = srv.mark \/ a.mark = Mark(srv.mark.epoch, srv.mark.rev - 1)
    BY <1>3 DEF Answer
  <2>4. a.mark \in ServerMarks /\ NotOlder(srv.mark, a.mark)
    BY <1>1, <2>1, <2>3 DEF Mark, ServerMarks, NotOlder
  <2> QED BY <2>1, <2>2, <2>4 DEF Told
<1> QED BY <1>2, <1>3 DEF Snapshot

LEMMA ReadTold ==
  ASSUME IsServer(srv), NEW r, NEW q, IsRefresh(srv, r), Reads(r, q)
  PROVE  Advances(srv, srv') /\ IsRefresh(srv', q)
<1>1. CASE r.key # srv.key
  <2>1. UNCHANGED srv /\ DOMAIN q = RefreshFields /\ q.answer = Denied
    BY <1>1 DEF Reads, IsRefresh, RefreshFields
  <2> QED BY <2>1, NothingClaimed DEF IsRefresh, Advances
<1>2. CASE r.key = srv.key
  <2>1. PICK a \in Snapshots : Snapshot(a) /\ q = [r EXCEPT !.at = "answered", !.answer = a]
    BY <1>2 DEF Reads
  <2>2. Advances(srv, srv') /\ Told(srv', a.cfg, a.mark)
    BY <2>1, SnapshotTold
  <2>3. DOMAIN q = RefreshFields /\ q.answer = a
    BY <2>1 DEF IsRefresh, RefreshFields
  <2> QED BY <2>2, <2>3 DEF IsRefresh, Heard
<1> QED BY <1>1, <1>2

LEMMA CommitAdvances ==
  ASSUME IsServer(srv), NEW cfg, srv' = Committed(cfg)
  PROVE  Advances(srv, srv')
<1>1. srv.mark \in ServerMarks /\ srv.mark.epoch \in Nat /\ srv.mark.rev \in Nat
  BY DEF IsServer, ServerMarks
<1>2. /\ DOMAIN srv' = ServerFields /\ srv'.torn = srv.torn
      /\ srv'.mark = [srv.mark EXCEPT !.rev = @ + 1]
  BY DEF Committed, IsServer, ServerFields
<1>3. srv'.mark.epoch = srv.mark.epoch /\ srv'.mark.rev = srv.mark.rev + 1
      /\ srv'.mark \in ServerMarks
  BY <1>1, <1>2 DEF ServerMarks
<1> QED BY <1>1, <1>2, <1>3 DEF Advances, IsServer

-----------------------------------------------------------------------------
(* One step.                                                                   *)
NoStepBack == store' = Clear(store) \/ NotOlder(store'.mark, store.mark)

(* Steps that leave the server, the store and what is on its way alone.        *)
LEMMA Elsewhere ==
  ASSUME ClaimsInv, UNCHANGED <<srv, store, edits>>,
         IsRefresh(srv, static'), IsRefresh(srv, all')
  PROVE  ClaimsInv' /\ NoStepBack
BY Unmoved DEF ClaimsInv, NoStepBack

LEMMA SaveBegins ==
  ASSUME ClaimsInv, NEW e, NEW types, NEW b, Save(e, types, b)
  PROVE  ClaimsInv' /\ NoStepBack
<1>1. IsRefresh(srv, static') /\ UNCHANGED <<srv, all>>
  BY DisturbedClaim DEF Save, ClaimsInv
<1>2. Holds(srv, store') /\ NotOlder(store'.mark, store.mark)
  BY Begun, Unmoved DEF Save, ClaimsInv
<1>3. AreEdits(srv, edits')
  <2>1. IsEdit(srv, Started(e))
    BY NothingClaimed DEF Started, IsEdit, EditFields
  <2> QED BY <2>1, EditsGrow DEF Save, ClaimsInv
<1> QED BY <1>1, <1>2, <1>3 DEF ClaimsInv, NoStepBack

LEMMA EditorMoves ==
  ASSUME ClaimsInv, OpenEditor \/ CloseEditor
  PROVE  ClaimsInv' /\ NoStepBack
BY Elsewhere DEF ClaimsInv, OpenEditor, CloseEditor

(* The server moves on and one save is answered, or not yet.                   *)
LEMMA SaveAnswered ==
  ASSUME ClaimsInv, Advances(srv, srv'), UNCHANGED <<store, static, all>>,
         NEW n \in DOMAIN edits, NEW e, IsEdit(srv', e), edits' = [edits EXCEPT ![n] = e]
  PROVE  ClaimsInv' /\ NoStepBack
<1>1. /\ Holds(srv', store) /\ IsRefresh(srv', static) /\ IsRefresh(srv', all)
      /\ AreEdits(srv', edits)
  BY EverythingStays DEF ClaimsInv
<1>2. AreEdits(srv', edits')
  BY <1>1, EditChanged
<1>3. IsServer(srv')
  BY DEF Advances
<1> QED BY <1>1, <1>2, <1>3, Unmoved DEF ClaimsInv, NoStepBack

LEMMA Commit ==
  ASSUME ClaimsInv, NEW n \in DOMAIN edits, ServerCommits(n)
  PROVE  ClaimsInv' /\ NoStepBack
<1> DEFINE w == edits[n].writes[edits[n].next]
<1>1. IsEdit(srv, edits[n])
  BY DEF ClaimsInv, AreEdits
<1>2. UNCHANGED <<store, static, all>>
  BY DEF ServerCommits, viewVars
<1>3. CASE /\ srv' = Committed(ServerApply(srv.cfg, w))
           /\ edits' = [edits EXCEPT ![n].at = "committed"]
  <2> DEFINE e == [edits[n] EXCEPT !.at = "committed"]
  <2>1. Advances(srv, srv')
    BY <1>3, CommitAdvances DEF ClaimsInv
  <2>2. DOMAIN e = DOMAIN edits[n] /\ e.answer = edits[n].answer
    BY <1>1 DEF IsEdit, EditFields
  <2>3. IsEdit(srv', e)
    BY <1>1, <2>1, <2>2, EverythingStays DEF IsEdit, ClaimsInv
  <2>4. edits' = [edits EXCEPT ![n] = e]
    BY <1>3
  <2> HIDE DEF e
  <2> QED BY <1>2, <2>1, <2>3, <2>4, SaveAnswered
<1>4. CASE /\ edits' = [edits EXCEPT ![n].at = "answered",
                                     ![n].answer = IF edits[n].key # srv.key THEN Denied ELSE Failed]
           /\ UNCHANGED serverVars
  <2> DEFINE e == [edits[n] EXCEPT !.at = "answered",
                                   !.answer = IF edits[n].key # srv.key THEN Denied ELSE Failed]
  <2>1. Advances(srv, srv') /\ srv' = srv
    BY <1>4 DEF Advances, ClaimsInv, serverVars
  <2>2. DOMAIN e = EditFields /\ (e.answer = Denied \/ e.answer = Failed)
    BY <1>1 DEF IsEdit, EditFields
  <2>3. IsEdit(srv', e)
    BY <2>2, NothingClaimed DEF IsEdit
  <2>4. edits' = [edits EXCEPT ![n] = e]
    BY <1>1, <1>4 DEF IsEdit, EditFields, ClaimsInv, AreEdits
  <2> HIDE DEF e
  <2> QED BY <1>2, <2>1, <2>3, <2>4, SaveAnswered
<1> QED BY <1>3, <1>4 DEF ServerCommits

LEMMA AnswerSave ==
  ASSUME ClaimsInv, NEW n \in DOMAIN edits, ServerAnswers(n)
  PROVE  ClaimsInv' /\ NoStepBack
<1>1. IsEdit(srv, edits[n])
  BY DEF ClaimsInv, AreEdits
<1>2. UNCHANGED <<store, static, all>>
  BY DEF ServerAnswers, viewVars
<1>3. PICK a \in Snapshots :
        Snapshot(a) /\ edits' = [edits EXCEPT ![n].at = "answered", ![n].answer = a]
  BY DEF ServerAnswers
<1> DEFINE e == [edits[n] EXCEPT !.at = "answered", !.answer = a]
<1>4. Advances(srv, srv') /\ Told(srv', a.cfg, a.mark)
  BY <1>3, SnapshotTold DEF ClaimsInv
<1>5. DOMAIN e = EditFields /\ e.answer = a
  BY <1>1 DEF IsEdit, EditFields
<1>6. IsEdit(srv', e)
  BY <1>4, <1>5 DEF IsEdit, Heard
<1>7. edits' = [edits EXCEPT ![n] = e]
  BY <1>1, <1>3 DEF IsEdit, EditFields, ClaimsInv, AreEdits
<1> HIDE DEF e
<1> QED BY <1>2, <1>4, <1>6, <1>7, SaveAnswered

LEMMA SendWrite ==
  ASSUME ClaimsInv, NEW n \in DOMAIN edits, SendNext(n)
  PROVE  ClaimsInv' /\ NoStepBack
<1>1. IsEdit(srv, edits[n])
  BY DEF ClaimsInv, AreEdits
<1> DEFINE e == [edits[n] EXCEPT !.at = "sent", !.next = @ + 1, !.key = session.key]
<1>2. DOMAIN e = EditFields /\ e.answer = edits[n].answer
  BY <1>1 DEF IsEdit, EditFields
<1>3. IsEdit(srv, e)
  BY <1>1, <1>2 DEF IsEdit
<1>4. edits' = [edits EXCEPT ![n] = e]
  BY <1>1 DEF SendNext, IsEdit, EditFields, ClaimsInv, AreEdits
<1>5. UNCHANGED <<srv, store, static, all>>
  BY DEF SendNext, serverVars, viewVars
<1>6. Advances(srv, srv') /\ IsEdit(srv', e)
  BY <1>3, <1>5 DEF Advances, ClaimsInv
<1> HIDE DEF e
<1> QED BY <1>4, <1>5, <1>6, SaveAnswered

(* A save comes to its end: the store takes its answer or drops it.            *)
LEMMA FinishedEdits ==
  ASSUME ClaimsInv, NEW n \in DOMAIN edits, Finish(n)
  PROVE  AreEdits(srv, edits')
<1>1. IsEdit(srv, edits[n])
  BY DEF ClaimsInv, AreEdits
<1>2. DOMAIN Over(edits[n]) = EditFields /\ Over(edits[n]).answer = Failed
  BY <1>1 DEF Over, IsEdit, EditFields
<1>3. IsEdit(srv, Over(edits[n]))
  BY <1>2, NothingClaimed DEF IsEdit
<1>4. edits' = [edits EXCEPT ![n] = Over(edits[n])]
  BY DEF Finish
<1> QED BY <1>3, <1>4, EditChanged DEF ClaimsInv

LEMMA SaveEnds ==
  ASSUME ClaimsInv, NEW n \in DOMAIN edits, SaveSucceeds(n) \/ SaveFails(n)
  PROVE  ClaimsInv' /\ NoStepBack
<1>1. AreEdits(srv, edits') /\ UNCHANGED <<srv, all>> /\ IsRefresh(srv, static')
  BY FinishedEdits, DisturbedClaim DEF SaveSucceeds, SaveFails, ClaimsInv
<1>2. IsEdit(srv, edits[n])
  BY DEF ClaimsInv, AreEdits
<1>3. Holds(srv, store') /\ NotOlder(store'.mark, store.mark)
  <2>1. CASE SaveSucceeds(n)
    <3>1. Told(srv, edits[n].answer.cfg, edits[n].answer.mark)
      BY <1>2, <2>1 DEF SaveSucceeds, IsEdit, Heard
    <3>2. store' = store \/ store' = Confirm(store, edits[n].id, edits[n].answer)
      BY <2>1 DEF SaveSucceeds
    <3> QED BY <3>1, <3>2, Confirmed, Unmoved DEF ClaimsInv
  <2>2. CASE SaveFails(n)
    BY <2>2, Rejected DEF SaveFails, ClaimsInv
  <2> QED BY <2>1, <2>2
<1> QED BY <1>1, <1>3 DEF ClaimsInv, NoStepBack

-----------------------------------------------------------------------------
LEMMA RefreshScheduled ==
  ASSUME ClaimsInv, TimerFires
  PROVE  ClaimsInv' /\ NoStepBack
<1>1. IsRefresh(srv, static')
  <2>1. CASE static' = SentStatic(timer = "all")
    BY <2>1, Requests
  <2>2. CASE static' = [static EXCEPT !.wanted = TRUE]
    <3>1. DOMAIN static' = DOMAIN static /\ static'.answer = static.answer
      BY <2>2 DEF ClaimsInv, IsRefresh, RefreshFields
    <3> QED BY <3>1, SameClaim DEF ClaimsInv
  <2>3. CASE UNCHANGED static
    BY <2>3 DEF ClaimsInv
  <2> QED BY <2>1, <2>2, <2>3 DEF TimerFires
<1> QED BY <1>1, Elsewhere DEF TimerFires, serverVars, ClaimsInv

LEMMA RefreshAnswered ==
  ASSUME ClaimsInv, ServerAnswersStatic \/ ServerAnswersAll
  PROVE  ClaimsInv' /\ NoStepBack
<1>1. Advances(srv, srv') /\ UNCHANGED <<store, edits>>
  BY ReadTold DEF ServerAnswersStatic, ServerAnswersAll, viewVars, ClaimsInv
<1>2. IsRefresh(srv', static') /\ IsRefresh(srv', all')
  <2>1. IsRefresh(srv', static) /\ IsRefresh(srv', all)
    BY <1>1, EverythingStays DEF ClaimsInv
  <2> QED BY <2>1, ReadTold DEF ServerAnswersStatic, ServerAnswersAll, ClaimsInv
<1>3. Holds(srv', store) /\ AreEdits(srv', edits) /\ IsServer(srv')
  BY <1>1, EverythingStays DEF ClaimsInv, Advances
<1> QED BY <1>1, <1>2, <1>3, Unmoved DEF ClaimsInv, NoStepBack

LEMMA RefreshArrives ==
  ASSUME ClaimsInv, StaticArrives
  PROVE  ClaimsInv' /\ NoStepBack
<1>1. IsRefresh(srv, static') /\ UNCHANGED <<srv, edits, all>>
  BY Requests DEF StaticArrives
<1>2. Holds(srv, store') /\ NotOlder(store'.mark, store.mark)
  <2>1. CASE IsConfig(static.answer) /\ Take(static.answer)
    <3>1. Told(srv, static.answer.cfg, static.answer.mark)
      BY <2>1 DEF ClaimsInv, IsRefresh, Heard
    <3> QED BY <2>1, <3>1, Taken DEF Take, ClaimsInv
  <2>2. CASE UNCHANGED store
    BY <2>2, Unmoved DEF ClaimsInv
  <2> QED BY <2>1, <2>2 DEF StaticArrives, Keep
<1> QED BY <1>1, <1>2 DEF ClaimsInv, NoStepBack

LEMMA RefreshPressed ==
  ASSUME ClaimsInv, NEW loud, RefreshAll(loud)
  PROVE  IsRefresh(srv, all')
<1>1. CASE all.at = "idle"
  <2>1. DOMAIN all' = RefreshFields /\ all'.answer = Failed
    BY <1>1 DEF RefreshAll, SentAll, Resting, RefreshFields
  <2> QED BY <2>1, NothingClaimed DEF IsRefresh
<1>2. CASE all.at # "idle"
  <2>1. DOMAIN all' = DOMAIN all /\ all'.answer = all.answer
    BY <1>2 DEF RefreshAll, ClaimsInv, IsRefresh, RefreshFields
  <2> QED BY <2>1, SameClaim DEF ClaimsInv
<1> QED BY <1>1, <1>2

LEMMA Pressed ==
  ASSUME ClaimsInv, PressRefresh
  PROVE  ClaimsInv' /\ NoStepBack
BY RefreshPressed, Elsewhere DEF PressRefresh, Keep, ClaimsInv

LEMMA FullRefreshArrives ==
  ASSUME ClaimsInv, AllArrives
  PROVE  ClaimsInv' /\ NoStepBack
<1>1. IsRefresh(srv, all') /\ UNCHANGED <<srv, static>>
  <2>1. all' = Resting \/ all' = SentAll(all.loud)
    BY DEF AllArrives
  <2>2. ASSUME all' = SentAll(all.loud)
        PROVE  DOMAIN all' = RefreshFields /\ all'.answer = Failed
    BY <2>2 DEF SentAll, Resting, RefreshFields
  <2> QED BY <2>1, <2>2, Requests, NothingClaimed DEF AllArrives, IsRefresh
<1>2. CASE LoggedOut
  <2>1. Holds(srv, store') /\ store' = Clear(store)
    BY <1>2, Cleared DEF LoggedOut
  <2>2. AreEdits(srv, edits')
    BY <1>2, OrphanedEdits DEF LoggedOut, ClaimsInv
  <2> QED BY <1>1, <2>1, <2>2 DEF ClaimsInv, NoStepBack
<1>3. CASE UNCHANGED <<store, edits>>
  BY <1>1, <1>3, Unmoved DEF ClaimsInv, NoStepBack
<1>4. CASE IsConfig(all.answer) /\ Take(all.answer) /\ UNCHANGED edits
  <2>1. Told(srv, all.answer.cfg, all.answer.mark)
    BY <1>4 DEF ClaimsInv, IsRefresh, Heard
  <2>2. Holds(srv, store') /\ NotOlder(store'.mark, store.mark)
    BY <1>4, <2>1, Taken DEF Take, ClaimsInv
  <2> QED BY <1>1, <1>4, <2>2 DEF ClaimsInv, NoStepBack
<1> QED BY <1>2, <1>3, <1>4 DEF AllArrives, Keep

LEMMA Sessions ==
  ASSUME ClaimsInv, SubmitKey \/ KeyChecked
  PROVE  ClaimsInv' /\ NoStepBack
<1>1. CASE SubmitKey
  BY <1>1, Elsewhere DEF SubmitKey, serverVars, viewVars, ClaimsInv
<1>2. CASE KeyChecked
  <2>1. IsRefresh(srv, static') /\ UNCHANGED srv
    BY <1>2, DisturbedClaim DEF KeyChecked, serverVars, ClaimsInv
  <2>2. CASE RefreshAll(FALSE) /\ UNCHANGED <<store, shown, edits>>
    BY <2>1, <2>2, RefreshPressed, Elsewhere
  <2>3. CASE store' = Clear(store) /\ edits' = Orphaned /\ UNCHANGED <<all, dirty>>
    <3>1. Holds(srv, store') /\ AreEdits(srv, edits')
      BY <2>3, Cleared, OrphanedEdits DEF ClaimsInv
    <3> QED BY <2>1, <2>3, <3>1 DEF ClaimsInv, NoStepBack
  <2> QED BY <1>2, <2>2, <2>3 DEF KeyChecked
<1> QED BY <1>1, <1>2

LEMMA Typing ==
  ASSUME ClaimsInv, Type \/ Leave
  PROVE  ClaimsInv' /\ NoStepBack
<1>1. IsRefresh(srv, static') /\ UNCHANGED <<srv, store, edits, all>>
  BY DisturbedClaim DEF Type, Leave, serverVars, viewVars, ClaimsInv
<1> QED BY <1>1, Elsewhere DEF ClaimsInv

-----------------------------------------------------------------------------
LEMMA World ==
  ASSUME ClaimsInv, ForeignChange \/ ForeignKey
  PROVE  ClaimsInv' /\ NoStepBack
<1>1. Advances(srv, srv')
  <2>1. CASE ForeignChange
    BY <2>1, CommitAdvances DEF ForeignChange, ClaimsInv
  <2>2. CASE ForeignKey
    <3>1. /\ DOMAIN srv' = ServerFields /\ srv'.mark = srv.mark /\ srv'.cfg = srv.cfg
          /\ srv'.before = srv.before /\ srv'.torn = srv.torn
      BY <2>2 DEF ForeignKey, ClaimsInv, IsServer, ServerFields
    <3> QED BY <3>1 DEF Advances, IsServer, ClaimsInv
  <2> QED BY <2>1, <2>2
<1>2. UNCHANGED <<store, edits, static, all>>
  BY DEF ForeignChange, ForeignKey, viewVars
<1>3. /\ Holds(srv', store) /\ AreEdits(srv', edits) /\ IsServer(srv')
      /\ IsRefresh(srv', static) /\ IsRefresh(srv', all)
  BY <1>1, EverythingStays DEF ClaimsInv, Advances
<1> QED BY <1>2, <1>3, Unmoved DEF ClaimsInv, NoStepBack

LEMMA EditsCut ==
  ASSUME NEW s, NEW e, IsEdit(s, e)
  PROVE  IsEdit(s, Cut(e))
<1>1. CASE e.at \in {"sent", "committed"}
  <2>1. DOMAIN Cut(e) = EditFields /\ Cut(e).answer = Failed
    BY <1>1 DEF Cut, IsEdit, EditFields
  <2> QED BY <2>1, NothingClaimed DEF IsEdit
<1>2. CASE e.at \notin {"sent", "committed"}
  BY <1>2 DEF Cut
<1> QED BY <1>1, <1>2

LEMMA Restarts ==
  ASSUME ClaimsInv, Restart
  PROVE  ClaimsInv' /\ NoStepBack
<1>1. srv.mark \in ServerMarks /\ srv.mark.epoch \in Nat /\ srv.mark.rev \in Nat
  BY DEF ClaimsInv, IsServer, ServerMarks
<1>2. /\ DOMAIN srv' = ServerFields /\ srv'.torn = srv.torn /\ srv'.before = srv'.cfg
      /\ srv'.mark = Mark(srv.mark.epoch + 1, 0)
  BY DEF Restart, ClaimsInv, IsServer, ServerFields
<1>3. Advances(srv, srv')
  BY <1>1, <1>2 DEF Advances, IsServer, ClaimsInv, Mark, ServerMarks
<1>4. /\ Holds(srv', store) /\ AreEdits(srv', edits) /\ IsServer(srv')
      /\ IsRefresh(srv', static) /\ IsRefresh(srv', all)
  BY <1>3, EverythingStays DEF ClaimsInv, Advances
<1>5. IsRefresh(srv', static') /\ IsRefresh(srv', all') /\ UNCHANGED store
  BY <1>4, CutClaim DEF Restart, viewVars
<1>6. AreEdits(srv', edits')
  <2>1. edits' = [n \in DOMAIN edits |-> edits'[n]]
    BY DEF Restart
  <2>2. \A n \in DOMAIN edits : IsEdit(srv', edits'[n])
    BY <1>4, EditsCut DEF Restart, AreEdits
  <2> QED BY <1>4, <2>1, <2>2, EditsChanged
<1> QED BY <1>4, <1>5, <1>6, Unmoved DEF ClaimsInv, NoStepBack

LEMMA Loses ==
  ASSUME ClaimsInv, Lose
  PROVE  ClaimsInv' /\ NoStepBack
<1>1. UNCHANGED <<srv, store, static>>
  BY DEF Lose, viewVars
<1>2. CASE UNCHANGED edits /\ all' = [all EXCEPT !.answer = Failed]
  <2>1. DOMAIN all' = RefreshFields /\ all'.answer = Failed
    BY <1>2 DEF ClaimsInv, IsRefresh, RefreshFields
  <2> QED BY <1>1, <1>2, <2>1, NothingClaimed, Elsewhere DEF IsRefresh, ClaimsInv
<1>3. ASSUME NEW n \in DOMAIN edits, edits' = [edits EXCEPT ![n].answer = Failed], UNCHANGED all
      PROVE  ClaimsInv' /\ NoStepBack
  <2> DEFINE e == [edits[n] EXCEPT !.answer = Failed]
  <2>1. IsEdit(srv, edits[n])
    BY DEF ClaimsInv, AreEdits
  <2>2. DOMAIN e = EditFields /\ e.answer = Failed
    BY <2>1 DEF IsEdit, EditFields
  <2>3. IsEdit(srv', e) /\ Advances(srv, srv')
    BY <1>1, <2>2, NothingClaimed DEF IsEdit, Advances, ClaimsInv
  <2>4. edits' = [edits EXCEPT ![n] = e]
    BY <1>3
  <2> HIDE DEF e
  <2> QED BY <1>1, <1>3, <2>3, <2>4, SaveAnswered
<1> QED BY <1>2, <1>3 DEF Lose

-----------------------------------------------------------------------------
LEMMA ClaimsStart == Init => ClaimsInv
<1> SUFFICES ASSUME Init PROVE ClaimsInv
  OBVIOUS
<1>1. IsServer(srv)
  BY DEF Init, IsServer, ServerFields, Mark, ServerMarks
<1>2. Holds(srv, store)
  BY DEF Init, EmptyStore, Holds, IsStore, Filled, StoreFields, Marks, Mark, NoMark, NothingYet
<1>3. IsRefresh(srv, static) /\ IsRefresh(srv, all)
  BY Requests DEF Init
<1>4. AreEdits(srv, edits)
  <2>1. edits = << >> /\ edits \in Seq({})
    BY DEF Init
  <2> QED BY <2>1 DEF AreEdits
<1> QED BY <1>1, <1>2, <1>3, <1>4 DEF ClaimsInv

LEMMA ClaimsStep == ClaimsInv /\ [Next]_vars => ClaimsInv' /\ NoStepBack
<1> SUFFICES ASSUME ClaimsInv, [Next]_vars PROVE ClaimsInv' /\ NoStepBack
  OBVIOUS
<1>1. CASE UNCHANGED vars
  BY <1>1, Elsewhere DEF vars, ClaimsInv
<1>2. CASE OperatorStep
  <2>1. CASE FlipSwitch \/ SubmitForm \/ SubmitPolicy \/ PressButton \/ SubmitEditor
    BY <2>1, SaveBegins DEF FlipSwitch, SubmitForm, SubmitPolicy, PressButton, SubmitEditor
  <2> QED
    BY <1>2, <2>1, EditorMoves, Pressed, Sessions, Typing DEF OperatorStep
<1>3. CASE NetworkStep
  <2>1. ASSUME NEW n \in DOMAIN edits, SaveStep(n) PROVE ClaimsInv' /\ NoStepBack
    BY <2>1, Commit, AnswerSave, SendWrite, SaveEnds DEF SaveStep
  <2> QED
    BY <1>3, <2>1, RefreshScheduled, RefreshAnswered, RefreshArrives, FullRefreshArrives,
       Sessions DEF NetworkStep
<1>4. CASE WorldStep
  BY <1>4, World, Restarts, Loses DEF WorldStep
<1> QED BY <1>1, <1>2, <1>3, <1>4 DEF Next

(* Everything the browser holds or is about to hold was said by the server,    *)
(* and nothing carries a mark newer than the server's (the answers of saves,   *)
(* of refreshes and the store of app.js, against config_manager's revision).   *)
THEOREM ClaimsAreTold == Spec => []ClaimsInv
<1>1. Init => ClaimsInv
  BY ClaimsStart
<1>2. ClaimsInv /\ [Next]_vars => ClaimsInv'
  BY ClaimsStep
<1> QED BY <1>1, <1>2, PTL DEF Spec

(* A store that holds the server's revision holds its configuration, for any   *)
(* number of saves, restarts, losses and sessions.                             *)
THEOREM StoreHoldsWhatItClaims == Spec => []HoldsWhatItClaims
<1>1. ClaimsInv => HoldsWhatItClaims
  BY DEF ClaimsInv, Holds, Told, HoldsWhatItClaims
<1> QED BY <1>1, ClaimsAreTold, PTL

(* No answer, in whatever order it arrives, takes the store back to an older   *)
(* epoch or revision; only a logout empties it.                                *)
THEOREM MarksOnlyGrow == Spec => MarkNeverGoesBack
<1>1. ClaimsInv /\ [Next]_vars => [store' = Clear(store) \/ NotOlder(store'.mark, store.mark)]_vars
  BY ClaimsStep DEF NoStepBack
<1> QED BY <1>1, ClaimsAreTold, PTL DEF Spec, MarkNeverGoesBack

-----------------------------------------------------------------------------
(* The saves and the store. A pending edit is a save under way in this session *)
(* and the other way round; ids grow in the order of the saves, and no two     *)
(* pending edits are of one resource.                                          *)
Backed(p, es) ==
  /\ p.id \in DOMAIN es /\ UnderWay(es[p.id]) /\ ~es[p.id].orphan
  /\ p.rk = es[p.id].rk /\ p.writes = es[p.id].writes

Ascending(pending) ==
  \A i, j \in DOMAIN pending : i < j => pending[i].id < pending[j].id

PendingOK(pending, es) ==
  /\ \E P : pending \in Seq(P)
  /\ \A i \in DOMAIN pending : pending[i].id \in Nat /\ Backed(pending[i], es)
  /\ Ascending(pending)
  /\ \A i, j \in DOMAIN pending : i # j => pending[i].rk # pending[j].rk
  /\ \A n \in DOMAIN es : UnderWay(es[n]) /\ ~es[n].orphan
       => \E i \in DOMAIN pending : pending[i].id = n

NumberedEdit(n, e) == e.id = n /\ e.next \in Nat \ {0} /\ e.orphan \in BOOLEAN

Numbered(es) ==
  /\ \E E : es \in Seq(E)
  /\ \A n \in DOMAIN es : NumberedEdit(n, es[n])

SavesOK(st, es) ==
  /\ Numbered(es)
  /\ st.settled = << >> /\ st.nextId = Len(es) + 1
  /\ PendingOK(st.pending, es)

ShownOK == shown = None \/ shown = Effective(store)

SessionOK ==
  /\ DOMAIN session = {"key", "checking", "open"} /\ session.open \in BOOLEAN
  /\ ~session.open => all.at = "idle"
  /\ session.checking # 0 => ~session.open

SavesInv == SavesOK(store, edits) /\ ShownOK /\ SessionOK

(* Taking an edit out leaves the others in their order.                        *)
LEMMA TakenOut ==
  ASSUME NEW P, NEW s \in Seq(P), NEW i \in DOMAIN s
  PROVE  LET t == RemoveAt(s, i)
             from(k) == IF k < i THEN k ELSE k + 1
         IN  /\ t \in Seq(P) /\ Len(t) = Len(s) - 1
             /\ \A k \in DOMAIN t : from(k) \in DOMAIN s \ {i} /\ t[k] = s[from(k)]
             /\ \A j \in DOMAIN s \ {i} : \E k \in DOMAIN t : t[k] = s[j]
<1>1. i \in 1..Len(s) /\ Len(s) \in Nat
  OBVIOUS
<1> DEFINE u == SubSeq(s, 1, i - 1)
           v == SubSeq(s, i + 1, Len(s))
           t == RemoveAt(s, i)
           from(k) == IF k < i THEN k ELSE k + 1
<1>2. u \in Seq(P) /\ Len(u) = i - 1 /\ \A k \in 1..(i - 1) : u[k] = s[k]
  BY <1>1
<1>3. v \in Seq(P) /\ Len(v) = Len(s) - i /\ \A k \in 1..(Len(s) - i) : v[k] = s[i + k]
  BY <1>1
<1>4. t = u \o v
  BY DEF RemoveAt
<1> HIDE DEF u, v, t
<1>5. t \in Seq(P) /\ Len(t) = Len(s) - 1 /\ DOMAIN t = 1..(Len(s) - 1)
  BY <1>1, <1>2, <1>3, <1>4
<1>6. ASSUME NEW k \in 1..(Len(s) - 1)
      PROVE  t[k] = s[from(k)] /\ from(k) \in 1..Len(s) /\ from(k) # i
  <2>1. CASE k < i
    BY <1>1, <1>2, <1>3, <1>4, <2>1
  <2>2. CASE ~(k < i)
    <3>1. k - (i - 1) \in 1..(Len(s) - i) /\ t[k] = v[k - (i - 1)]
      BY <1>1, <1>2, <1>3, <1>4, <2>2
    <3>2. v[k - (i - 1)] = s[i + (k - (i - 1))] /\ i + (k - (i - 1)) = k + 1
      BY <1>1, <1>3, <3>1
    <3> QED BY <1>1, <2>2, <3>1, <3>2
  <2> QED BY <2>1, <2>2
<1>7. ASSUME NEW j \in DOMAIN s \ {i} PROVE \E k \in DOMAIN t : t[k] = s[j]
  <2>1. CASE j < i
    <3>1. j \in 1..(Len(s) - 1) /\ from(j) = j
      BY <1>1, <2>1
    <3> QED BY <1>5, <1>6, <3>1
  <2>2. CASE ~(j < i)
    <3>1. j - 1 \in 1..(Len(s) - 1) /\ from(j - 1) = j
      BY <1>1, <2>2
    <3> QED BY <1>5, <1>6, <3>1
  <2> QED BY <2>1, <2>2
<1> QED BY <1>5, <1>6, <1>7 DEF t

LEMMA EditTakenOut ==
  ASSUME NEW P, NEW pending \in Seq(P), NEW id,
         \A i \in DOMAIN pending : pending[i].id \in Nat, Ascending(pending)
  PROVE  LET rest == Without(pending, id) IN
         /\ rest \in Seq(P) /\ Ascending(rest)
         /\ \A k \in DOMAIN rest : rest[k].id # id
         /\ \A k \in DOMAIN rest : \E i \in DOMAIN pending : rest[k] = pending[i]
         /\ \A k, m \in DOMAIN rest : k # m =>
              \E i, j \in DOMAIN pending : i # j /\ rest[k] = pending[i] /\ rest[m] = pending[j]
         /\ \A i \in DOMAIN pending : pending[i].id # id => \E k \in DOMAIN rest : rest[k] = pending[i]
<1>1. Len(pending) \in Nat /\ DOMAIN pending = 1..Len(pending)
  OBVIOUS
<1>2. \A i, j \in DOMAIN pending : pending[i].id = pending[j].id => i = j
  <2> TAKE i, j \in DOMAIN pending
  <2>1. pending[i].id \in Nat /\ pending[j].id \in Nat
    OBVIOUS
  <2> QED BY <1>1, <2>1 DEF Ascending
<1>3. CASE ~ \E i \in DOMAIN pending : pending[i].id = id
  BY <1>3 DEF Without
<1>4. CASE \E i \in DOMAIN pending : pending[i].id = id
  <2> DEFINE p == PlaceOf(id, pending)
             rest == RemoveAt(pending, p)
             from(k) == IF k < p THEN k ELSE k + 1
  <2>1. p \in DOMAIN pending /\ pending[p].id = id
    BY <1>4 DEF PlaceOf
  <2>2. Without(pending, id) = rest
    BY <1>4 DEF Without
  <2> HIDE DEF p
  <2>3. /\ rest \in Seq(P) /\ Len(rest) = Len(pending) - 1
        /\ \A k \in DOMAIN rest : from(k) \in DOMAIN pending \ {p} /\ rest[k] = pending[from(k)]
        /\ \A j \in DOMAIN pending \ {p} : \E k \in DOMAIN rest : rest[k] = pending[j]
    BY <2>1, TakenOut
  <2> HIDE DEF rest
  <2>4. DOMAIN rest = 1..(Len(pending) - 1)
    BY <1>1, <2>3
  <2>5. \A k, m \in DOMAIN rest : k < m => from(k) < from(m)
    BY <1>1, <2>1, <2>4
  <2> HIDE DEF from
  <2>6. Ascending(rest)
    BY <2>3, <2>5 DEF Ascending
  <2>7. \A k \in DOMAIN rest : rest[k].id # id
    BY <1>2, <2>1, <2>3
  <2>8. ASSUME NEW k \in DOMAIN rest, NEW m \in DOMAIN rest, k # m
        PROVE  from(k) # from(m) /\ from(k) \in DOMAIN pending /\ from(m) \in DOMAIN pending
    <3>1. from(k) < from(m) \/ from(m) < from(k)
      BY <2>4, <2>5, <2>8
    <3>2. from(k) \in Int /\ from(m) \in Int
      BY <1>1, <2>3
    <3> QED BY <2>3, <3>1, <3>2
  <2>9. \A k \in DOMAIN rest : \E i \in DOMAIN pending : rest[k] = pending[i]
    BY <2>3
  <2>10. \A k, m \in DOMAIN rest : k # m =>
           \E i, j \in DOMAIN pending : i # j /\ rest[k] = pending[i] /\ rest[m] = pending[j]
    BY <2>3, <2>8
  <2>11. \A i \in DOMAIN pending : pending[i].id # id => \E k \in DOMAIN rest : rest[k] = pending[i]
    BY <2>1, <2>3
  <2> QED BY <2>2, <2>3, <2>6, <2>7, <2>9, <2>10, <2>11
<1> QED BY <1>3, <1>4

(* Saves that only move on keep what is pending.                               *)
SameEdit(e, f) ==
  /\ f.id = e.id /\ f.rk = e.rk /\ f.writes = e.writes /\ f.orphan = e.orphan
  /\ f.next \in Nat \ {0} /\ (UnderWay(f) <=> UnderWay(e))

LEMMA SavesMove ==
  ASSUME NEW st, NEW su, NEW es, NEW fs, SavesOK(st, es),
         su.pending = st.pending, su.settled = << >>, su.nextId = st.nextId,
         fs = [n \in DOMAIN es |-> fs[n]], \A n \in DOMAIN es : SameEdit(es[n], fs[n])
  PROVE  SavesOK(su, fs)
<1>1. PICK E : es \in Seq(E)
  BY DEF SavesOK, Numbered
<1>2. Len(es) \in Nat /\ DOMAIN es = 1..Len(es)
  BY <1>1
<1> DEFINE F == {fs[n] : n \in DOMAIN es}
<1>3. fs \in [1..Len(es) -> F]
  BY <1>2
<1>4. fs \in Seq(F) /\ Len(fs) = Len(es) /\ DOMAIN fs = DOMAIN es
  BY <1>2, <1>3
<1>5. Numbered(fs)
  <2>1. \A n \in DOMAIN fs : NumberedEdit(n, fs[n])
    BY <1>4 DEF SavesOK, Numbered, NumberedEdit, SameEdit
  <2> HIDE DEF F
  <2> QED BY <1>4, <2>1 DEF Numbered
<1>6. PendingOK(su.pending, fs)
  <2>1. \A p : Backed(p, es) => Backed(p, fs)
    BY <1>4 DEF Backed, SameEdit
  <2>2. \A n \in DOMAIN fs : UnderWay(fs[n]) /\ ~fs[n].orphan => UnderWay(es[n]) /\ ~es[n].orphan
    BY <1>4 DEF SameEdit
  <2> QED BY <1>4, <2>1, <2>2 DEF SavesOK, PendingOK
<1> QED BY <1>4, <1>5, <1>6 DEF SavesOK

LEMMA SavesKept ==
  ASSUME NEW st, NEW su, NEW es, SavesOK(st, es),
         su.pending = st.pending, su.settled = << >>, su.nextId = st.nextId
  PROVE  SavesOK(su, es)
BY DEF SavesOK

(* One save moves on.                                                          *)
LEMMA SaveMoves ==
  ASSUME NEW st, NEW es, NEW n \in DOMAIN es, NEW e, SavesOK(st, es), SameEdit(es[n], e)
  PROVE  SavesOK(st, [es EXCEPT ![n] = e])
<1> DEFINE fs == [es EXCEPT ![n] = e]
<1>1. PICK E : es \in Seq(E)
  BY DEF SavesOK, Numbered
<1>2. es = [m \in DOMAIN es |-> es[m]]
  BY <1>1
<1>3. fs = [m \in DOMAIN es |-> fs[m]]
  BY <1>2
<1>4. \A m \in DOMAIN es : SameEdit(es[m], fs[m])
  BY <1>2 DEF SameEdit, SavesOK, Numbered, NumberedEdit
<1>5. st.settled = << >>
  BY DEF SavesOK
<1> HIDE DEF fs
<1>6. SavesOK(st, fs)
  BY <1>3, <1>4, <1>5, SavesMove
<1> QED BY <1>6 DEF fs

(* A save begins: it gets the next id, and its preview goes on top.            *)
LEMMA SaveAdded ==
  ASSUME NEW st, NEW es, NEW rk, NEW ws, NEW e, IsStore(st), SavesOK(st, es), CanBegin(st, rk),
         e.id = st.nextId, e.next = 1, e.orphan = FALSE, e.rk = rk, e.writes = ws, UnderWay(e)
  PROVE  SavesOK(Begin(st, rk, ws), Append(es, e))
<1>1. PICK E : es \in Seq(E)
  BY DEF SavesOK, Numbered
<1>2. PICK P : st.pending \in Seq(P)
  BY DEF SavesOK, PendingOK
<1> DEFINE fs == Append(es, e)
           N == Len(es)
           p == [id |-> st.nextId, rk |-> rk, writes |-> ws]
           q == st.pending
           r == Append(q, p)
           su == Begin(st, rk, ws)
<1>3. N \in Nat /\ DOMAIN es = 1..N /\ Len(q) \in Nat /\ DOMAIN q = 1..Len(q)
  BY <1>1, <1>2
<1>4. fs \in Seq(E \cup {e}) /\ Len(fs) = N + 1 /\ DOMAIN fs = 1..(N + 1)
  <2>1. es \in Seq(E \cup {e})
    <3>1. es \in [1..N -> E \cup {e}]
      BY <1>1, <1>3
    <3> QED BY <1>3, <3>1
  <2> QED BY <1>3, <2>1
<1>5. fs[N + 1] = e /\ \A n \in 1..N : fs[n] = es[n]
  BY <1>1, <1>3
<1>6. r \in Seq(P \cup {p}) /\ DOMAIN r = 1..(Len(q) + 1)
  <2>1. q \in Seq(P \cup {p})
    <3>1. q \in [1..Len(q) -> P \cup {p}]
      BY <1>2, <1>3
    <3> QED BY <1>3, <3>1
  <2> QED BY <1>3, <2>1
<1>7. r[Len(q) + 1] = p /\ \A i \in 1..Len(q) : r[i] = q[i]
  BY <1>2, <1>3
<1>8. p.id = N + 1 /\ p.rk = rk /\ p.writes = ws /\ st.nextId = N + 1
  BY DEF SavesOK
<1>9. su.pending = r /\ su.nextId = N + 2 /\ su.settled = << >>
  <2>1. DOMAIN st = StoreFields
    BY DEF IsStore
  <2>2. su.pending = Append(st.pending, p) /\ su.nextId = st.nextId + 1 /\ su.settled = st.settled
    BY <2>1 DEF Begin, StoreFields
  <2> QED BY <1>3, <1>8, <2>2 DEF SavesOK
<1> HIDE DEF fs, N, p, q, r, su
<1>10. Numbered(fs)
  <2>1. ASSUME NEW n \in 1..(N + 1) PROVE NumberedEdit(n, fs[n])
    <3>1. CASE n = N + 1
      <4>1. e.next \in Nat \ {0}
        OBVIOUS
      <4>2. e.orphan \in BOOLEAN
        OBVIOUS
      <4>3. fs[n].id = n /\ fs[n].next = e.next /\ fs[n].orphan = e.orphan
        BY <1>5, <1>8, <3>1
      <4> QED BY <4>1, <4>2, <4>3 DEF NumberedEdit
    <3>2. CASE n # N + 1
      <4>1. n \in 1..N
        BY <1>3, <3>2
      <4> QED BY <1>3, <1>5, <4>1 DEF SavesOK, Numbered
    <3> QED BY <3>1, <3>2
  <2> QED BY <1>4, <2>1 DEF Numbered
<1>11. \A i \in DOMAIN q : q[i].id \in 1..N /\ Backed(q[i], es)
  BY <1>3 DEF SavesOK, PendingOK, Backed, q
<1>12. \A i \in DOMAIN q : q[i].rk # rk
  BY DEF CanBegin, PendingKeys, q
<1>13. PendingOK(r, fs)
  <2>1. ASSUME NEW i \in DOMAIN r PROVE r[i].id \in Nat /\ Backed(r[i], fs)
    <3>1. CASE i = Len(q) + 1
      BY <1>3, <1>4, <1>5, <1>7, <1>8, <3>1 DEF Backed
    <3>2. CASE i # Len(q) + 1
      <4>1. i \in DOMAIN q /\ r[i] = q[i]
        BY <1>3, <1>6, <1>7, <3>2
      <4> QED BY <1>3, <1>4, <1>5, <1>11, <4>1 DEF Backed
    <3> QED BY <3>1, <3>2
  <2>2. ASSUME NEW i \in DOMAIN r, NEW j \in DOMAIN r, i < j PROVE r[i].id < r[j].id
    <3>1. i \in DOMAIN q /\ r[i] = q[i] /\ q[i].id \in 1..N
      BY <1>3, <1>6, <1>7, <1>11, <2>2
    <3>2. CASE j = Len(q) + 1
      BY <1>3, <1>7, <1>8, <3>1, <3>2
    <3>3. CASE j # Len(q) + 1
      <4>1. j \in DOMAIN q /\ r[j] = q[j]
        BY <1>3, <1>6, <1>7, <3>3
      <4> QED BY <2>2, <3>1, <4>1 DEF SavesOK, PendingOK, Ascending, q
    <3> QED BY <3>2, <3>3
  <2>3. ASSUME NEW i \in DOMAIN r, NEW j \in DOMAIN r, i # j PROVE r[i].rk # r[j].rk
    <3>1. CASE i = Len(q) + 1
      <4>1. j \in DOMAIN q /\ r[j] = q[j] /\ r[i].rk = rk
        BY <1>3, <1>6, <1>7, <1>8, <2>3, <3>1
      <4> QED BY <1>12, <4>1
    <3>2. CASE j = Len(q) + 1
      <4>1. i \in DOMAIN q /\ r[i] = q[i] /\ r[j].rk = rk
        BY <1>3, <1>6, <1>7, <1>8, <2>3, <3>2
      <4> QED BY <1>12, <4>1
    <3>3. CASE i # Len(q) + 1 /\ j # Len(q) + 1
      <4>1. i \in DOMAIN q /\ j \in DOMAIN q /\ r[i] = q[i] /\ r[j] = q[j]
        BY <1>3, <1>6, <1>7, <3>3
      <4> QED BY <2>3, <4>1 DEF SavesOK, PendingOK, q
    <3> QED BY <3>1, <3>2, <3>3
  <2>4. ASSUME NEW n \in DOMAIN fs, UnderWay(fs[n]), ~fs[n].orphan
        PROVE  \E i \in DOMAIN r : r[i].id = n
    <3>1. CASE n = N + 1
      <4>1. Len(q) + 1 \in DOMAIN r /\ r[Len(q) + 1].id = n
        BY <1>3, <1>6, <1>7, <1>8, <3>1
      <4> QED BY <4>1
    <3>2. CASE n # N + 1
      <4>1. n \in DOMAIN es /\ fs[n] = es[n]
        BY <1>3, <1>4, <1>5, <3>2
      <4>2. PICK i \in DOMAIN q : q[i].id = n
        BY <2>4, <4>1 DEF SavesOK, PendingOK, q
      <4>3. i \in DOMAIN r /\ r[i] = q[i]
        BY <1>3, <1>6, <1>7
      <4> QED BY <4>2, <4>3
    <3> QED BY <3>1, <3>2
  <2>5. Ascending(r)
    BY <2>2 DEF Ascending
  <2> QED BY <1>6, <2>1, <2>3, <2>4, <2>5 DEF PendingOK
<1>14. su.nextId = Len(fs) + 1
  BY <1>3, <1>4, <1>9
<1>15. SavesOK(su, fs)
  BY <1>9, <1>10, <1>13, <1>14 DEF SavesOK
<1> QED BY <1>15 DEF su, fs

(* A save comes to its end, and leaves the pending ones if it is among them.   *)
LEMMA SaveEnded ==
  ASSUME NEW st, NEW su, NEW es, NEW n \in DOMAIN es, SavesOK(st, es),
         su.pending = Without(st.pending, n), su.settled = << >>, su.nextId = st.nextId
  PROVE  SavesOK(su, [es EXCEPT ![n] = Over(@)])
<1> DEFINE fs == [es EXCEPT ![n] = Over(@)]
           q == st.pending
           r == Without(q, n)
<1>1. PICK E : es \in Seq(E)
  BY DEF SavesOK, Numbered
<1>2. PICK P : q \in Seq(P)
  BY DEF SavesOK, PendingOK
<1>3. Len(es) \in Nat /\ DOMAIN es = 1..Len(es) /\ es \in [1..Len(es) -> E]
  BY <1>1
<1>4. fs \in [1..Len(es) -> E \cup {Over(es[n])}]
  BY <1>3
<1>5. fs \in Seq(E \cup {Over(es[n])}) /\ Len(fs) = Len(es) /\ DOMAIN fs = DOMAIN es
  BY <1>3, <1>4
<1>6. fs[n] = Over(es[n]) /\ \A m \in DOMAIN es \ {n} : fs[m] = es[m]
  BY <1>3
<1>7. NumberedEdit(n, es[n])
  BY DEF SavesOK, Numbered
<1>8. DOMAIN es[n] = DOMAIN es[n] /\ Over(es[n]).at = "over" /\ NumberedEdit(n, Over(es[n]))
  BY <1>7 DEF Over, NumberedEdit
<1> HIDE DEF fs
<1>9. Numbered(fs)
  <2>1. \A m \in DOMAIN fs : NumberedEdit(m, fs[m])
    BY <1>5, <1>6, <1>8 DEF SavesOK, Numbered
  <2> QED BY <1>5, <2>1 DEF Numbered
<1>10. Ascending(q) /\ \A i \in DOMAIN q : q[i].id \in Nat /\ Backed(q[i], es)
  BY DEF SavesOK, PendingOK
<1>11. /\ r \in Seq(P) /\ Ascending(r)
       /\ \A k \in DOMAIN r : r[k].id # n
       /\ \A k \in DOMAIN r : \E i \in DOMAIN q : r[k] = q[i]
       /\ \A k, m \in DOMAIN r : k # m =>
            \E i, j \in DOMAIN q : i # j /\ r[k] = q[i] /\ r[m] = q[j]
       /\ \A i \in DOMAIN q : q[i].id # n => \E k \in DOMAIN r : r[k] = q[i]
  <2> HIDE DEF q
  <2> QED BY <1>2, <1>10, EditTakenOut
<1> HIDE DEF r
<1>12. \A k \in DOMAIN r : r[k].id \in Nat /\ Backed(r[k], fs)
  <2> TAKE k \in DOMAIN r
  <2>1. r[k].id \in Nat /\ Backed(r[k], es) /\ r[k].id # n
    BY <1>10, <1>11
  <2> QED BY <1>5, <1>6, <2>1 DEF Backed
<1>13. \A k, m \in DOMAIN r : k # m => r[k].rk # r[m].rk
  <2> TAKE k, m \in DOMAIN r
  <2> HAVE k # m
  <2>1. PICK i, j \in DOMAIN q : i # j /\ r[k] = q[i] /\ r[m] = q[j]
    BY <1>11
  <2> QED BY <2>1 DEF SavesOK, PendingOK
<1>14. ASSUME NEW m \in DOMAIN fs, UnderWay(fs[m]), ~fs[m].orphan
       PROVE  \E k \in DOMAIN r : r[k].id = m
  <2>1. m # n
    BY <1>6, <1>8, <1>14 DEF UnderWay
  <2>2. m \in DOMAIN es /\ fs[m] = es[m]
    BY <1>5, <1>6, <2>1
  <2>3. PICK i \in DOMAIN q : q[i].id = m
    BY <1>14, <2>2 DEF SavesOK, PendingOK
  <2> QED BY <1>11, <2>1, <2>3
<1>15. PendingOK(r, fs)
  BY <1>11, <1>12, <1>13, <1>14 DEF PendingOK
<1>16. SavesOK(su, fs)
  BY <1>5, <1>9, <1>15 DEF SavesOK, r
<1> QED BY <1>16 DEF fs

(* The session ends: nothing is pending any more.                              *)
LEMMA SavesOrphaned ==
  ASSUME SavesOK(store, edits)
  PROVE  SavesOK(Clear(store), Orphaned)
<1>1. PICK E : edits \in Seq(E)
  BY DEF SavesOK, Numbered
<1>2. Len(edits) \in Nat /\ DOMAIN edits = 1..Len(edits)
  BY <1>1
<1> DEFINE F == {Orphaned[n] : n \in DOMAIN edits}
<1>3. Orphaned \in [1..Len(edits) -> F]
  BY <1>2 DEF Orphaned
<1>4. Orphaned \in Seq(F) /\ Len(Orphaned) = Len(edits) /\ DOMAIN Orphaned = DOMAIN edits
  BY <1>2, <1>3
<1>5. ASSUME NEW n \in DOMAIN edits
      PROVE  NumberedEdit(n, Orphaned[n]) /\ (UnderWay(Orphaned[n]) => Orphaned[n].orphan)
  <2>1. NumberedEdit(n, edits[n])
    BY DEF SavesOK, Numbered
  <2>2. CASE edits[n].at = "over"
    BY <2>1, <2>2 DEF Orphaned, UnderWay
  <2>3. CASE edits[n].at # "over"
    <3> DEFINE e == edits[n]
    <3>1. Orphaned[n] = [e EXCEPT !.orphan = TRUE]
      BY <2>3 DEF Orphaned
    <3> HIDE DEF e
    <3> QED BY <2>1, <3>1 DEF NumberedEdit, e
  <2> QED BY <2>2, <2>3
<1> HIDE DEF F
<1>6. Numbered(Orphaned)
  BY <1>4, <1>5 DEF Numbered
<1>7. /\ Clear(store).pending = << >> /\ Clear(store).settled = << >>
      /\ Clear(store).nextId = store.nextId
  BY DEF Clear, EmptyStore
<1>8. PendingOK(<< >>, Orphaned)
  <2>1. << >> \in Seq({})
    OBVIOUS
  <2> QED BY <1>4, <1>5, <2>1 DEF PendingOK, Ascending
<1> QED BY <1>4, <1>6, <1>7, <1>8 DEF SavesOK

(* What a late answer may not do.                                              *)
LateStep ==
  \A n \in DOMAIN edits :
    edits[n].orphan /\ UnderWay(edits[n]) /\ ~UnderWay(edits'[n])
    => store'.confirmed = store.confirmed /\ store'.pending = store.pending

StaysUnderWay == \A n \in DOMAIN edits : UnderWay(edits[n]) => UnderWay(edits'[n])

ScreenFollows ==
  UNCHANGED <<store, shown>> \/ shown' = Effective(store') \/ shown' = None

LEMMA ScreenOK ==
  ASSUME ShownOK, ScreenFollows
  PROVE  ShownOK'
BY DEF ShownOK, ScreenFollows

(* A step that leaves the saves alone.                                         *)
LEMMA SavesIdle ==
  ASSUME SavesInv, UNCHANGED edits,
         store'.pending = store.pending, store'.settled = << >>, store'.nextId = store.nextId,
         ScreenFollows, SessionOK'
  PROVE  SavesInv' /\ LateStep
<1>1. SavesOK(store', edits')
  BY SavesKept DEF SavesInv
<1>2. ShownOK'
  BY ScreenOK DEF SavesInv
<1> QED BY <1>1, <1>2 DEF SavesInv, LateStep

LEMMA SavesUntouched ==
  ASSUME SavesInv, UNCHANGED <<edits, store, shown>>, SessionOK'
  PROVE  SavesInv' /\ LateStep
<1>1. store.settled = << >>
  BY DEF SavesInv, SavesOK
<1> QED BY <1>1, SavesIdle DEF ScreenFollows

LEMMA SessionStays ==
  ASSUME SessionOK, UNCHANGED session, all'.at = all.at
  PROVE  SessionOK'
BY DEF SessionOK

LEMMA SaveBeginsOK ==
  ASSUME ClaimsInv, SavesInv, NEW e, NEW types, NEW b, Save(e, types, b)
  PROVE  SavesInv' /\ LateStep
<1>1. SessionOK'
  BY SessionStays DEF Save, SavesInv
<1>2. CASE CanBegin(store, e.rk)
  <2>1. /\ store' = Begin(store, e.rk, e.writes) /\ shown' = Effective(store')
        /\ edits' = Append(edits, Started(e))
    BY <1>2 DEF Save
  <2>2. IsStore(store) /\ SavesOK(store, edits)
    BY DEF ClaimsInv, Holds, SavesInv
  <2>3. /\ Started(e).id = store.nextId /\ Started(e).next = 1 /\ Started(e).orphan = FALSE
        /\ Started(e).rk = e.rk /\ Started(e).writes = e.writes /\ UnderWay(Started(e))
    BY DEF Started, UnderWay
  <2>4. SavesOK(store', edits')
    BY <1>2, <2>1, <2>2, <2>3, SaveAdded
  <2>5. StaysUnderWay
    <3>1. PICK E : edits \in Seq(E)
      BY DEF ClaimsInv, AreEdits
    <3>2. \A n \in DOMAIN edits : edits'[n] = edits[n]
      BY <2>1, <3>1
    <3> QED BY <3>2 DEF StaysUnderWay
  <2>6. ShownOK'
    BY <2>1 DEF ShownOK
  <2> QED BY <1>1, <2>4, <2>5, <2>6 DEF SavesInv, LateStep, StaysUnderWay
<1>3. CASE ~CanBegin(store, e.rk)
  BY <1>1, <1>3, SavesUntouched DEF Save
<1> QED BY <1>2, <1>3

(* Saves that move on, with the store as it is.                                *)
LEMMA SaveMovesOK ==
  ASSUME SavesInv, NEW n \in DOMAIN edits, NEW e, SameEdit(edits[n], e),
         edits' = [edits EXCEPT ![n] = e], UNCHANGED <<store, shown, session>>, all'.at = all.at
  PROVE  SavesInv' /\ LateStep
<1>1. SavesOK(store', edits')
  BY SaveMoves DEF SavesInv
<1>2. ShownOK' /\ SessionOK'
  BY SessionStays DEF SavesInv, ShownOK
<1> QED BY <1>1, <1>2 DEF SavesInv, LateStep

LEMMA FieldsOfEdit ==
  ASSUME ClaimsInv, SavesInv, NEW n \in DOMAIN edits
  PROVE  DOMAIN edits[n] = EditFields /\ NumberedEdit(n, edits[n])
BY DEF ClaimsInv, AreEdits, IsEdit, SavesInv, SavesOK, Numbered

LEMMA ServerHandlesOK ==
  ASSUME ClaimsInv, SavesInv, NEW n \in DOMAIN edits,
         ServerCommits(n) \/ ServerAnswers(n) \/ SendNext(n)
  PROVE  SavesInv' /\ LateStep
<1>1. DOMAIN edits[n] = EditFields /\ NumberedEdit(n, edits[n])
  BY FieldsOfEdit
<1>2. UNCHANGED <<store, shown, session, all>>
  BY DEF ServerCommits, ServerAnswers, SendNext, viewVars
<1>3. edits = [m \in DOMAIN edits |-> edits[m]]
  BY DEF ClaimsInv, AreEdits
<1> DEFINE old == edits[n]
<1>4. old.next \in Nat \ {0} /\ old.next + 1 \in Nat \ {0}
  BY <1>1 DEF NumberedEdit
<1>5. ASSUME old.at = "sent", edits' = [edits EXCEPT ![n].at = "committed"]
      PROVE  SavesInv' /\ LateStep
  <2> DEFINE e == [old EXCEPT !.at = "committed"]
  <2>1. edits' = [edits EXCEPT ![n] = e]
    BY <1>5
  <2>2. SameEdit(old, e)
    BY <1>1, <1>4, <1>5 DEF SameEdit, UnderWay, EditFields
  <2> HIDE DEF e
  <2> QED BY <1>2, <2>1, <2>2, SaveMovesOK
<1>6. ASSUME UnderWay(old), NEW a, edits' = [edits EXCEPT ![n].at = "answered", ![n].answer = a]
      PROVE  SavesInv' /\ LateStep
  <2> DEFINE e == [old EXCEPT !.at = "answered", !.answer = a]
  <2>1. edits' = [edits EXCEPT ![n] = e]
    BY <1>3, <1>6
  <2>2. SameEdit(old, e)
    BY <1>1, <1>4, <1>6 DEF SameEdit, UnderWay, EditFields
  <2> HIDE DEF e
  <2> QED BY <1>2, <2>1, <2>2, SaveMovesOK
<1>7. ASSUME UnderWay(old), NEW k,
             edits' = [edits EXCEPT ![n].at = "sent", ![n].next = @ + 1, ![n].key = k]
      PROVE  SavesInv' /\ LateStep
  <2> DEFINE e == [old EXCEPT !.at = "sent", !.next = @ + 1, !.key = k]
  <2>1. edits' = [edits EXCEPT ![n] = e]
    BY <1>1, <1>3, <1>7 DEF EditFields
  <2>2. SameEdit(old, e)
    BY <1>1, <1>4, <1>7 DEF SameEdit, UnderWay, EditFields
  <2> HIDE DEF e
  <2> QED BY <1>2, <2>1, <2>2, SaveMovesOK
<1>8. CASE ServerCommits(n)
  BY <1>5, <1>6, <1>8 DEF ServerCommits, UnderWay
<1>9. CASE ServerAnswers(n)
  BY <1>6, <1>9 DEF ServerAnswers, UnderWay
<1>10. CASE SendNext(n)
  BY <1>7, <1>10 DEF SendNext, UnderWay
<1> QED BY <1>8, <1>9, <1>10

(* A save ends. Only the answer of one that is pending reaches the store.      *)
LEMMA Departs ==
  ASSUME NEW st, NEW id, NEW a, IsStore(st), st.settled = << >>, a.mark \in ServerMarks,
         HasPending(st, id)
  PROVE  LET su == Confirm(st, id, a) IN
         su.pending = Without(st.pending, id) /\ su.settled = << >> /\ su.nextId = st.nextId
<1>1. DOMAIN st = StoreFields
  BY DEF IsStore
<1>2. ~(a.mark.rev < 0)
  BY DEF ServerMarks
<1> DEFINE rest == [st EXCEPT !.pending = Without(st.pending, id)]
<1>3. /\ DOMAIN rest = StoreFields /\ rest.pending = Without(st.pending, id)
      /\ rest.nextId = st.nextId
  BY <1>1 DEF StoreFields
<1>4. Confirm(st, id, a) = IF Outdated(st, a.mark) THEN [rest EXCEPT !.settled = << >>]
                           ELSE [rest EXCEPT !.settled = << >>, !.confirmed = a.cfg,
                                             !.mark = NewMark(st, a.mark)]
  BY <1>2 DEF Confirm
<1> HIDE DEF rest
<1> QED BY <1>3, <1>4 DEF StoreFields

LEMMA SaveEndsOK ==
  ASSUME ClaimsInv, SavesInv, NEW n \in DOMAIN edits, SaveSucceeds(n) \/ SaveFails(n)
  PROVE  SavesInv' /\ LateStep
<1>1. DOMAIN edits[n] = EditFields /\ NumberedEdit(n, edits[n]) /\ edits[n].id = n
  BY FieldsOfEdit DEF NumberedEdit
<1>2. edits' = [edits EXCEPT ![n] = Over(@)] /\ UNCHANGED <<session, all>>
  BY DEF SaveSucceeds, SaveFails, Finish
<1>3. IsStore(store) /\ DOMAIN store = StoreFields /\ store.settled = << >>
  BY DEF ClaimsInv, Holds, IsStore, SavesInv, SavesOK
<1>4. /\ store'.pending = Without(store.pending, n)
      /\ store'.settled = << >> /\ store'.nextId = store.nextId
      /\ ScreenFollows
      /\ ~HasPending(store, n) => store'.confirmed = store.confirmed
  <2>1. ~HasPending(store, n) => Without(store.pending, n) = store.pending
    BY DEF HasPending, Without
  <2>2. CASE SaveSucceeds(n) /\ HasPending(store, n)
    <3>1. store' = Confirm(store, n, edits[n].answer) /\ shown' = Effective(store')
      BY <1>1, <2>2 DEF SaveSucceeds
    <3>2. edits[n].answer.mark \in ServerMarks
      BY <2>2 DEF SaveSucceeds, ClaimsInv, AreEdits, IsEdit, Heard, Told
    <3> QED BY <1>3, <2>2, <3>1, <3>2, Departs DEF ScreenFollows
  <2>3. CASE SaveSucceeds(n) /\ ~HasPending(store, n)
    BY <1>1, <1>3, <2>1, <2>3 DEF SaveSucceeds, ScreenFollows
  <2>4. CASE SaveFails(n)
    <3>1. store' = [store EXCEPT !.pending = Without(store.pending, n)]
          /\ shown' = Effective(store')
      BY <1>1, <2>4 DEF SaveFails, Reject
    <3> QED BY <1>3, <3>1 DEF StoreFields, ScreenFollows
  <2> QED BY <2>2, <2>3, <2>4
<1>5. SavesOK(store', edits')
  BY <1>2, <1>4, SaveEnded DEF SavesInv
<1>6. ShownOK' /\ SessionOK'
  BY <1>2, <1>4, ScreenOK, SessionStays DEF SavesInv
<1>7. LateStep
  <2> SUFFICES ASSUME NEW m \in DOMAIN edits, edits[m].orphan, UnderWay(edits[m]),
                      ~UnderWay(edits'[m])
               PROVE  store'.confirmed = store.confirmed /\ store'.pending = store.pending
    BY DEF LateStep
  <2>1. m = n
    BY <1>2
  <2>2. ~HasPending(store, n)
    BY <2>1 DEF HasPending, SavesInv, SavesOK, PendingOK, Backed
  <2> QED BY <1>4, <2>2 DEF HasPending, Without
<1> QED BY <1>5, <1>6, <1>7 DEF SavesInv

-----------------------------------------------------------------------------
(* Refreshes, sessions and the world, for the saves.                           *)
LEMMA TakeOK ==
  ASSUME ClaimsInv, SavesInv, NEW a, Take(a), UNCHANGED edits, SessionOK'
  PROVE  SavesInv' /\ LateStep
<1>1. DOMAIN store = StoreFields /\ store.settled = << >>
  BY DEF ClaimsInv, Holds, IsStore, SavesInv, SavesOK
<1>2. /\ store'.pending = store.pending /\ store'.settled = << >>
      /\ store'.nextId = store.nextId
  BY <1>1 DEF Take, AcceptConfirmed, StoreFields
<1> QED BY <1>2, SavesIdle DEF Take, ScreenFollows

LEMMA ClearedOK ==
  ASSUME SavesInv, store' = Clear(store), shown' = None, edits' = Orphaned, SessionOK'
  PROVE  SavesInv' /\ LateStep
<1>1. SavesOK(store', edits') /\ ShownOK'
  BY SavesOrphaned DEF SavesInv, ShownOK
<1>2. StaysUnderWay
  <2>1. ASSUME NEW n \in DOMAIN edits, UnderWay(edits[n]) PROVE UnderWay(Orphaned[n])
    <3> DEFINE e == edits[n]
    <3>1. Orphaned[n] = [e EXCEPT !.orphan = TRUE]
      BY <2>1 DEF Orphaned, UnderWay
    <3> HIDE DEF e
    <3> QED BY <2>1, <3>1 DEF UnderWay, e
  <2> QED BY <2>1 DEF StaysUnderWay
<1> QED BY <1>1, <1>2 DEF SavesInv, LateStep, StaysUnderWay

LEMMA RefreshesOK ==
  ASSUME ClaimsInv, SavesInv,
         TimerFires \/ ServerAnswersStatic \/ StaticArrives \/ ServerAnswersAll
           \/ PressRefresh \/ SubmitKey
  PROVE  SavesInv' /\ LateStep
<1>1. CASE TimerFires \/ ServerAnswersStatic \/ StaticArrives
  <2>1. UNCHANGED <<session, edits, all>>
    BY <1>1 DEF TimerFires, ServerAnswersStatic, StaticArrives
  <2>2. SessionOK'
    BY <2>1, SessionStays DEF SavesInv
  <2>3. (\E a : Take(a)) \/ UNCHANGED <<store, shown>>
    BY <1>1 DEF TimerFires, ServerAnswersStatic, StaticArrives, viewVars, Keep
  <2> QED BY <2>1, <2>2, <2>3, TakeOK, SavesUntouched
<1>2. CASE ServerAnswersAll \/ PressRefresh
  <2>1. UNCHANGED <<session, edits, store, shown>>
    BY <1>2 DEF ServerAnswersAll, PressRefresh, viewVars, Keep
  <2>2. session.open
    BY <1>2 DEF ServerAnswersAll, PressRefresh, SavesInv, SessionOK
  <2>3. SessionOK'
    BY <2>1, <2>2 DEF SavesInv, SessionOK
  <2> QED BY <2>1, <2>3, SavesUntouched
<1>3. CASE SubmitKey
  <2>1. UNCHANGED <<edits, store, shown, all>>
    BY <1>3 DEF SubmitKey, viewVars
  <2>2. SessionOK'
    BY <1>3 DEF SubmitKey, SavesInv, SessionOK
  <2> QED BY <2>1, <2>2, SavesUntouched
<1> QED BY <1>1, <1>2, <1>3

LEMMA FullRefreshOK ==
  ASSUME ClaimsInv, SavesInv, AllArrives
  PROVE  SavesInv' /\ LateStep
<1>1. session.open /\ session.checking = 0 /\ DOMAIN session = {"key", "checking", "open"}
  BY DEF AllArrives, SavesInv, SessionOK
<1>2. CASE LoggedOut
  <2>1. session' = [session EXCEPT !.key = 0, !.open = FALSE]
    BY <1>2 DEF LoggedOut
  <2>2. session'.key = 0 /\ session'.checking = 0 /\ ~session'.open
        /\ DOMAIN session' = {"key", "checking", "open"} /\ session'.open \in BOOLEAN
    BY <1>1, <2>1
  <2>3. all'.at = "idle"
    BY <2>2 DEF AllArrives, Resting
  <2>4. SessionOK'
    BY <2>2, <2>3 DEF SessionOK
  <2> QED BY <1>2, <2>4, ClearedOK DEF LoggedOut
<1>3. CASE UNCHANGED <<session, edits>> /\ (Take(all.answer) \/ UNCHANGED <<store, shown>>)
  <2>1. SessionOK'
    BY <1>1, <1>3 DEF SavesInv, SessionOK
  <2> QED BY <1>3, <2>1, TakeOK, SavesUntouched
<1> QED BY <1>2, <1>3 DEF AllArrives, Keep

LEMMA KeyCheckedOK ==
  ASSUME SavesInv, KeyChecked
  PROVE  SavesInv' /\ LateStep
<1>1. /\ ~session.open /\ session.open \in BOOLEAN
      /\ DOMAIN session = {"key", "checking", "open"} /\ all.at = "idle"
  BY DEF KeyChecked, SavesInv, SessionOK
<1>2. CASE session' = [session EXCEPT !.checking = 0, !.open = TRUE]
           /\ UNCHANGED <<store, shown, edits>>
  <2>1. SessionOK'
    BY <1>1, <1>2 DEF SessionOK
  <2> QED BY <1>2, <2>1, SavesUntouched
<1>3. CASE session' = [session EXCEPT !.checking = 0, !.key = 0] /\ UNCHANGED all
           /\ store' = Clear(store) /\ shown' = None /\ edits' = Orphaned
  <2>1. SessionOK'
    BY <1>1, <1>3 DEF SessionOK
  <2> QED BY <1>3, <2>1, ClearedOK
<1> QED BY <1>2, <1>3 DEF KeyChecked

LEMMA QuietOK ==
  ASSUME SavesInv,
         OpenEditor \/ CloseEditor \/ Type \/ Leave \/ ForeignChange \/ ForeignKey
           \/ UNCHANGED vars
  PROVE  SavesInv' /\ LateStep
<1>1. UNCHANGED <<session, edits, store, shown, all>>
  BY DEF OpenEditor, CloseEditor, Type, Leave, ForeignChange, ForeignKey, vars, viewVars
<1>2. SessionOK'
  BY <1>1, SessionStays DEF SavesInv
<1> QED BY <1>1, <1>2, SavesUntouched

LEMMA RestartOK ==
  ASSUME ClaimsInv, SavesInv, Restart
  PROVE  SavesInv' /\ LateStep
<1>1. UNCHANGED <<session, store, shown>> /\ edits' = [n \in DOMAIN edits |-> Cut(edits[n])]
      /\ all' = Cut(all)
  BY DEF Restart, viewVars
<1>2. \A n \in DOMAIN edits : SameEdit(edits[n], Cut(edits[n]))
  <2> TAKE n \in DOMAIN edits
  <2>1. DOMAIN edits[n] = EditFields /\ NumberedEdit(n, edits[n])
    BY FieldsOfEdit
  <2>2. CASE edits[n].at \in {"sent", "committed"}
    BY <2>1, <2>2 DEF Cut, SameEdit, NumberedEdit, UnderWay, EditFields
  <2>3. CASE edits[n].at \notin {"sent", "committed"}
    BY <2>1, <2>3 DEF Cut, SameEdit, NumberedEdit
  <2> QED BY <2>2, <2>3
<1>3. store.settled = << >> /\ SavesOK(store, edits)
  BY DEF SavesInv, SavesOK
<1>4. edits' = [n \in DOMAIN edits |-> edits'[n]] /\ \A n \in DOMAIN edits : edits'[n] = Cut(edits[n])
  BY <1>1
<1>5. SavesOK(store, edits')
  BY <1>2, <1>3, <1>4, SavesMove
<1>6. SessionOK'
  <2>1. DOMAIN all = RefreshFields
    BY DEF ClaimsInv, IsRefresh
  <2>2. all.at = "idle" => all'.at = "idle"
    BY <1>1 DEF Cut
  <2> QED BY <1>1, <2>2 DEF SavesInv, SessionOK
<1>7. LateStep
  BY <1>2, <1>4 DEF LateStep, SameEdit
<1> QED BY <1>1, <1>5, <1>6, <1>7 DEF SavesInv, ShownOK

LEMMA LoseOK ==
  ASSUME ClaimsInv, SavesInv, Lose
  PROVE  SavesInv' /\ LateStep
<1>1. UNCHANGED <<store, shown, session>>
  BY DEF Lose, viewVars
<1>2. ASSUME NEW n \in DOMAIN edits, edits[n].at = "answered",
             edits' = [edits EXCEPT ![n].answer = Failed], UNCHANGED all
      PROVE  SavesInv' /\ LateStep
  <2> DEFINE old == edits[n]
             e == [old EXCEPT !.answer = Failed]
  <2>1. DOMAIN old = EditFields /\ NumberedEdit(n, old)
    BY FieldsOfEdit
  <2>2. edits' = [edits EXCEPT ![n] = e]
    BY <1>2
  <2>3. SameEdit(old, e)
    BY <1>2, <2>1 DEF SameEdit, NumberedEdit, UnderWay, EditFields
  <2> HIDE DEF e
  <2> QED BY <1>1, <1>2, <2>2, <2>3, SaveMovesOK
<1>3. CASE all' = [all EXCEPT !.answer = Failed] /\ UNCHANGED edits
  <2>1. all'.at = all.at
    BY <1>3 DEF ClaimsInv, IsRefresh, RefreshFields
  <2> QED BY <1>1, <1>3, <2>1, SessionStays, SavesUntouched DEF SavesInv
<1> QED BY <1>2, <1>3 DEF Lose

LEMMA SavesStart == Init => SavesInv
<1> SUFFICES ASSUME Init PROVE SavesInv
  OBVIOUS
<1>1. /\ store = EmptyStore(1) /\ edits = << >> /\ shown = None
      /\ session = [key |-> 0, checking |-> 0, open |-> FALSE] /\ all = Resting
  BY DEF Init
<1>2. << >> \in Seq({}) /\ Len(<< >>) = 0 /\ DOMAIN << >> = {}
  OBVIOUS
<1>3. Numbered(edits) /\ PendingOK(store.pending, edits)
  BY <1>1, <1>2 DEF Numbered, PendingOK, Ascending, EmptyStore
<1>4. store.settled = << >> /\ store.nextId = Len(edits) + 1
  BY <1>1, <1>2 DEF EmptyStore
<1>5. ShownOK /\ SessionOK
  BY <1>1 DEF ShownOK, SessionOK, Resting
<1> QED BY <1>3, <1>4, <1>5 DEF SavesInv, SavesOK

LEMMA SavesStep == ClaimsInv /\ SavesInv /\ [Next]_vars => SavesInv' /\ LateStep
<1> SUFFICES ASSUME ClaimsInv, SavesInv, [Next]_vars PROVE SavesInv' /\ LateStep
  OBVIOUS
<1>1. CASE FlipSwitch \/ SubmitForm \/ SubmitPolicy \/ PressButton \/ SubmitEditor
  BY <1>1, SaveBeginsOK DEF FlipSwitch, SubmitForm, SubmitPolicy, PressButton, SubmitEditor
<1>2. ASSUME NEW n \in DOMAIN edits, SaveStep(n) PROVE SavesInv' /\ LateStep
  BY <1>2, ServerHandlesOK, SaveEndsOK DEF SaveStep
<1> QED
  BY <1>1, <1>2, RefreshesOK, FullRefreshOK, KeyCheckedOK, QuietOK, RestartOK, LoseOK
     DEF Next, OperatorStep, NetworkStep, WorldStep

(* What the store holds as pending are the saves of this session under way,    *)
(* in their order and one per resource, and the screen shows them laid over    *)
(* the confirmed configuration (config() of optimistic-config.mjs).             *)
LEMMA SavesKeepTheirPlace == Spec => [](ClaimsInv /\ SavesInv)
<1>1. Init => ClaimsInv /\ SavesInv
  BY ClaimsStart, SavesStart
<1>2. ClaimsInv /\ SavesInv /\ [Next]_vars => (ClaimsInv /\ SavesInv)'
  BY ClaimsStep, SavesStep
<1> QED BY <1>1, <1>2, PTL DEF Spec

(* Whatever comes back of a save whose session has ended, however late, the    *)
(* next session's store is left alone.                                         *)
THEOREM LateAnswersAreIdle == Spec => LateAnswerChangesNothing
<1>1. ClaimsInv /\ SavesInv /\ [Next]_vars =>
        [\A n \in DOMAIN edits :
           edits[n].orphan /\ UnderWay(edits[n]) /\ ~UnderWay(edits'[n])
           => store'.confirmed = store.confirmed /\ store'.pending = store.pending]_vars
  BY SavesStep DEF LateStep
<1> QED BY <1>1, SavesKeepTheirPlace, PTL DEF Spec, LateAnswerChangesNothing

-----------------------------------------------------------------------------
(* Previews. A preview of one write, and of two.                               *)
LEMMA PreviewOfOne ==
  ASSUME NEW c, NEW w
  PROVE  Preview(c, << w >>) = PreviewWrite(c, w)
<1> DEFINE ws == << w >>
           IsAfter(f) == f = [n \in 0..Len(ws) |->
                                IF n = 0 THEN c ELSE PreviewWrite(f[n - 1], ws[n])]
           g == [n \in 0..1 |-> IF n = 0 THEN c ELSE PreviewWrite(c, w)]
           after == CHOOSE f : IsAfter(f)
<1>1. Len(ws) = 1 /\ ws[1] = w
  OBVIOUS
<1>2. Preview(c, ws) = after[Len(ws)]
  BY DEF Preview
<1> HIDE DEF ws
<1>3. IsAfter(g)
  <2>1. ASSUME NEW n \in 0..1
        PROVE  g[n] = IF n = 0 THEN c ELSE PreviewWrite(g[n - 1], ws[n])
    <3>1. CASE n = 0
      BY <3>1
    <3>2. CASE n = 1
      BY <1>1, <3>2
    <3> QED BY <3>1, <3>2
  <2> QED BY <1>1, <2>1
<1>4. IsAfter(after)
  BY <1>3
<1> HIDE DEF after
<1>5. after[0] = c
  BY <1>1, <1>4
<1>6. after[1] = PreviewWrite(after[0], ws[1])
  BY <1>1, <1>4
<1> QED BY <1>1, <1>2, <1>5, <1>6 DEF ws

LEMMA PreviewOfTwo ==
  ASSUME NEW c, NEW v, NEW w
  PROVE  Preview(c, << v, w >>) = PreviewWrite(PreviewWrite(c, v), w)
<1> DEFINE ws == << v, w >>
           IsAfter(f) == f = [n \in 0..Len(ws) |->
                                IF n = 0 THEN c ELSE PreviewWrite(f[n - 1], ws[n])]
           g == [n \in 0..2 |-> IF n = 0 THEN c
                                ELSE IF n = 1 THEN PreviewWrite(c, v)
                                ELSE PreviewWrite(PreviewWrite(c, v), w)]
           after == CHOOSE f : IsAfter(f)
<1>1. Len(ws) = 2 /\ ws[1] = v /\ ws[2] = w
  OBVIOUS
<1>2. Preview(c, ws) = after[Len(ws)]
  BY DEF Preview
<1> HIDE DEF ws
<1>3. IsAfter(g)
  <2>1. ASSUME NEW n \in 0..2
        PROVE  g[n] = IF n = 0 THEN c ELSE PreviewWrite(g[n - 1], ws[n])
    <3>1. CASE n = 0
      BY <3>1
    <3>2. CASE n = 1
      BY <1>1, <3>2
    <3>3. CASE n = 2
      BY <1>1, <3>3
    <3> QED BY <3>1, <3>2, <3>3
  <2> QED BY <1>1, <2>1
<1>4. IsAfter(after)
  BY <1>3
<1> HIDE DEF after
<1>5. after[0] = c
  BY <1>1, <1>4
<1>6. after[1] = PreviewWrite(after[0], ws[1])
  BY <1>1, <1>4
<1>7. after[2] = PreviewWrite(after[1], ws[2])
  BY <1>1, <1>4
<1> QED BY <1>1, <1>2, <1>5, <1>6, <1>7 DEF ws

(* A set of numbers that is not empty has a least one: induction, as far as it *)
(* is needed here.                                                             *)
LEMMA Smallest ==
  ASSUME NEW T, T \subseteq Nat, T # {}
  PROVE  \E m \in T : \A k \in T : m <= k
<1> DEFINE R == {p \in Nat \X Nat : p[1] < p[2]}
<1>1. IsWellFoundedOn(R, Nat)
  BY NatLessThanWellFounded DEF OpToRel
<1>2. \A x, y \in Nat : << x, y >> \in R <=> x < y
  OBVIOUS
<1> HIDE DEF R
<1>3. PICK x \in T : \A y \in T : ~ (<< y, x >> \in R)
  BY <1>1, WFMin
<1>4. \A y \in T : ~ (y < x)
  BY <1>2, <1>3
<1> QED BY <1>4

(* Edits laid over a configuration, as far as they have been laid.             *)
IsLaying(f, c, es, n) ==
  f = [k \in 0..n |-> IF k = 0 THEN c ELSE Preview(f[k - 1], es[k].writes)]

LEMMA LayingExists ==
  ASSUME NEW c, NEW es, NEW n \in Nat
  PROVE  \E f : IsLaying(f, c, es, n)
<1> DEFINE Good(m) == \E f : IsLaying(f, c, es, m)
           T == {m \in Nat : ~Good(m)}
<1> SUFFICES ASSUME ~Good(n) PROVE FALSE
  OBVIOUS
<1>1. T \subseteq Nat /\ n \in T
  OBVIOUS
<1>2. PICK m \in T : \A k \in T : m <= k
  <2> HIDE DEF T
  <2> QED BY <1>1, Smallest
<1>3. m # 0
  <2> DEFINE f == [k \in 0..0 |-> c]
  <2>1. f = [k \in 0..0 |-> IF k = 0 THEN c ELSE Preview(f[k - 1], es[k].writes)]
    OBVIOUS
  <2>2. Good(0)
    BY <2>1 DEF IsLaying
  <2> QED BY <2>2
<1>4. Good(m - 1)
  <2>1. m - 1 \in Nat /\ ~(m <= m - 1)
    BY <1>3
  <2> HIDE DEF Good
  <2> QED BY <1>2, <2>1
<1>5. PICK f : IsLaying(f, c, es, m - 1)
  BY <1>4
<1>6. f = [k \in 0..(m - 1) |-> IF k = 0 THEN c ELSE Preview(f[k - 1], es[k].writes)]
  BY <1>5 DEF IsLaying
<1> DEFINE g == [k \in 0..m |-> IF k = m THEN Preview(f[m - 1], es[m].writes) ELSE f[k]]
<1>7. g = [k \in 0..m |-> IF k = 0 THEN c ELSE Preview(g[k - 1], es[k].writes)]
  <2>1. ASSUME NEW k \in 0..m
        PROVE  g[k] = IF k = 0 THEN c ELSE Preview(g[k - 1], es[k].writes)
    <3>1. CASE k = m
      BY <3>1, <1>3
    <3>2. CASE k # m
      <4>1. f[k] = IF k = 0 THEN c ELSE Preview(f[k - 1], es[k].writes)
        <5>1. k \in 0..(m - 1)
          BY <3>2
        <5> QED BY <5>1, <1>6
      <4>2. k # 0 => g[k - 1] = f[k - 1]
        BY <3>2
      <4> QED BY <3>2, <4>1, <4>2
    <3> QED BY <3>1, <3>2
  <2> QED BY <2>1
<1>8. Good(m)
  BY <1>7 DEF IsLaying
<1> QED BY <1>8

LEMMA LaidIs ==
  ASSUME NEW c, NEW E, NEW es \in Seq(E)
  PROVE  \E f : IsLaying(f, c, es, Len(es)) /\ Laid(c, es) = f[Len(es)]
<1> DEFINE f == CHOOSE f : IsLaying(f, c, es, Len(es))
<1>1. Len(es) \in Nat
  OBVIOUS
<1>2. \E g : IsLaying(g, c, es, Len(es))
  BY <1>1, LayingExists
<1>3. Laid(c, es) = f[Len(es)]
  BY DEF Laid, IsLaying
<1>4. IsLaying(f, c, es, Len(es))
  BY <1>2
<1> QED BY <1>3, <1>4

-----------------------------------------------------------------------------
(* Types. The writes of save n.                                                *)
SingleWrites(n) ==
  {SetKnob(k, n) : k \in Knobs} \cup {SetStatic(ms) : ms \in SUBSET Models}
    \cup {AddKey(n)} \cup {EditKey(i, n) : i \in Nat} \cup {DeleteKey(i) : i \in Nat}
    \cup {SetGroup(g, v) : g \in Groups, v \in {Absent, n}}

WritesOf(n) ==
  {<< w >> : w \in SingleWrites(n)}
    \cup {<< SetGroup(h, n), SetGroup(g, Absent) >> : g \in Groups, h \in Groups}

(* The kinds of a write, one by one.                                           *)
LEMMA KindsOfWrite ==
  ASSUME NEW n, NEW w \in SingleWrites(n)
  PROVE  \/ w.op = "knob" /\ w.k \in Knobs /\ w.v = n
         \/ w.op = "static" /\ w.ms \in SUBSET Models
         \/ w.op = "addKey" /\ w.v = n
         \/ w.op = "editKey" /\ w.i \in Nat /\ w.v = n
         \/ w.op = "deleteKey" /\ w.i \in Nat
         \/ w.op = "group" /\ w.g \in Groups /\ w.v \in {Absent, n}
BY DEF SingleWrites, SetKnob, SetStatic, AddKey, EditKey, DeleteKey, SetGroup

LEMMA KeyTypes ==
  /\ MaxEdits \in Nat \ {0}
  /\ \A n \in EditIds : Key(n, NoProxy) \in [id : KeyIds, proxy : 0..MaxEdits]
  /\ Key(Pending, NoProxy) \in [id : KeyIds, proxy : 0..MaxEdits]
  /\ \A n \in EditIds : n \in 0..MaxEdits /\ n \in 0..Foreign
BY ContentAssumption DEF Key, KeyIds, NoProxy, EditIds, Foreign

LEMMA KnobWritten ==
  ASSUME NEW c \in Configs, NEW k \in Knobs, NEW v \in 0..Foreign
  PROVE  [c EXCEPT !.knob[k] = v] \in Configs
BY DEF Configs

LEMMA StaticWritten ==
  ASSUME NEW c \in Configs, NEW ms \in SUBSET Models
  PROVE  [c EXCEPT !.static = ms] \in Configs
BY DEF Configs

LEMMA GroupWritten ==
  ASSUME NEW c \in Configs, NEW g \in Groups, NEW v \in {Absent} \cup 0..MaxEdits
  PROVE  [c EXCEPT !.group[g] = v] \in Configs
BY DEF Configs

LEMMA KeysWritten ==
  ASSUME NEW c \in Configs, NEW ks \in Seq([id : KeyIds, proxy : 0..MaxEdits])
  PROVE  [c EXCEPT !.keys = ks] \in Configs
BY DEF Configs

LEMMA KeyAdded ==
  ASSUME NEW c \in Configs, NEW k \in [id : KeyIds, proxy : 0..MaxEdits]
  PROVE  [c EXCEPT !.keys = Append(@, k)] \in Configs
<1>1. c.keys \in Seq([id : KeyIds, proxy : 0..MaxEdits])
  BY DEF Configs
<1>2. Append(c.keys, k) \in Seq([id : KeyIds, proxy : 0..MaxEdits])
  BY <1>1
<1> QED BY <1>2, KeysWritten

LEMMA KeyDeleted ==
  ASSUME NEW c \in Configs, NEW i \in DOMAIN c.keys
  PROVE  [c EXCEPT !.keys = RemoveAt(@, i)] \in Configs
<1>1. c.keys \in Seq([id : KeyIds, proxy : 0..MaxEdits])
  BY DEF Configs
<1>2. RemoveAt(c.keys, i) \in Seq([id : KeyIds, proxy : 0..MaxEdits])
  BY <1>1, TakenOut
<1> QED BY <1>2, KeysWritten

LEMMA KeyEdited ==
  ASSUME NEW c \in Configs, NEW i \in DOMAIN c.keys, NEW v \in 0..MaxEdits
  PROVE  [c EXCEPT !.keys[i].proxy = v] \in Configs
<1> DEFINE K == [id : KeyIds, proxy : 0..MaxEdits]
           ks == [c.keys EXCEPT ![i].proxy = v]
<1>1. c.keys \in Seq(K) /\ Len(c.keys) \in Nat /\ DOMAIN c.keys = 1..Len(c.keys)
  BY DEF Configs
<1> HIDE DEF K
<1>2. c.keys \in [1..Len(c.keys) -> K]
  BY <1>1
<1>3. [c.keys[i] EXCEPT !.proxy = v] \in K
  BY <1>1, <1>2 DEF K
<1>4. ks \in [1..Len(c.keys) -> K]
  BY <1>1, <1>2, <1>3
<1>5. ks \in Seq(K)
  BY <1>1, <1>4
<1>6. [c EXCEPT !.keys = ks] \in Configs
  <2> HIDE DEF ks
  <2> QED BY <1>5, KeysWritten DEF K
<1> QED BY <1>6

LEMMA Applied ==
  ASSUME NEW c \in Configs, NEW n \in EditIds, NEW w \in SingleWrites(n), ServerAccepts(c, w)
  PROVE  ServerApply(c, w) \in Configs
<1>0. n \in 0..MaxEdits /\ n \in 0..Foreign /\ Key(n, NoProxy) \in [id : KeyIds, proxy : 0..MaxEdits]
  BY KeyTypes
<1>1. CASE w.op = "knob" /\ w.k \in Knobs /\ w.v = n
  BY <1>0, <1>1, KnobWritten DEF ServerApply
<1>2. CASE w.op = "static" /\ w.ms \in SUBSET Models
  BY <1>2, StaticWritten DEF ServerApply
<1>3. CASE w.op = "addKey" /\ w.v = n
  BY <1>0, <1>3, KeyAdded DEF ServerApply
<1>4. CASE w.op = "editKey" /\ w.i \in Nat /\ w.v = n
  BY <1>0, <1>4, KeyEdited DEF ServerApply, ServerAccepts
<1>5. CASE w.op = "deleteKey" /\ w.i \in Nat
  BY <1>5, KeyDeleted DEF ServerApply, ServerAccepts
<1>6. CASE w.op = "group" /\ w.g \in Groups /\ w.v \in {Absent, n}
  BY <1>0, <1>6, GroupWritten DEF ServerApply
<1> QED BY <1>1, <1>2, <1>3, <1>4, <1>5, <1>6, KindsOfWrite

LEMMA Previewed ==
  ASSUME NEW c \in Configs, NEW n \in EditIds, NEW w \in SingleWrites(n)
  PROVE  PreviewWrite(c, w) \in Configs
<1>1. CASE w.op = "addKey"
  BY <1>1, KeyTypes, KeyAdded DEF PreviewWrite
<1>2. CASE w.op = "deleteKey"
  BY <1>2 DEF PreviewWrite
<1>3. CASE w.op = "editKey"
  BY <1>3, Applied DEF PreviewWrite, ServerAccepts
<1>4. CASE w.op \notin {"addKey", "deleteKey", "editKey"}
  BY <1>4, Applied DEF PreviewWrite, ServerAccepts
<1> QED BY <1>1, <1>2, <1>3, <1>4

LEMMA PreviewTyped ==
  ASSUME NEW c \in Configs, NEW n \in EditIds, NEW ws \in WritesOf(n)
  PROVE  Preview(c, ws) \in Configs
<1>1. CASE \E w \in SingleWrites(n) : ws = << w >>
  BY <1>1, PreviewOfOne, Previewed
<1>2. ASSUME NEW g \in Groups, NEW h \in Groups,
             ws = << SetGroup(h, n), SetGroup(g, Absent) >>
      PROVE  Preview(c, ws) \in Configs
  <2>1. SetGroup(h, n) \in SingleWrites(n) /\ SetGroup(g, Absent) \in SingleWrites(n)
    BY DEF SingleWrites
  <2> QED BY <1>2, <2>1, PreviewOfTwo, Previewed
<1> QED BY <1>1, <1>2 DEF WritesOf

(* Every configuration on the way is one.                                      *)
LEMMA LaidTyped ==
  ASSUME NEW c \in Configs, NEW E, NEW es \in Seq(E), NEW f, IsLaying(f, c, es, Len(es)),
         \A i \in DOMAIN es : \E n \in EditIds : es[i].writes \in WritesOf(n)
  PROVE  \A i \in 0..Len(es) : f[i] \in Configs
<1> DEFINE T == {i \in 0..Len(es) : f[i] \notin Configs}
<1>1. Len(es) \in Nat /\ DOMAIN es = 1..Len(es)
  OBVIOUS
<1>2. f = [k \in 0..Len(es) |-> IF k = 0 THEN c ELSE Preview(f[k - 1], es[k].writes)]
  BY DEF IsLaying
<1> SUFFICES ASSUME T # {} PROVE FALSE
  OBVIOUS
<1>3. PICK m \in T : \A k \in T : m <= k
  <2>1. T \subseteq Nat
    OBVIOUS
  <2> HIDE DEF T
  <2> QED BY <2>1, Smallest
<1>4. m \in 0..Len(es) /\ f[m] \notin Configs
  OBVIOUS
<1>5. m # 0
  <2>1. 0 \in 0..Len(es)
    BY <1>1
  <2>2. f[0] = c
    BY <1>2, <2>1
  <2> QED BY <1>4, <2>2
<1>6. m \in DOMAIN es /\ m - 1 \in 0..Len(es) /\ ~(m <= m - 1)
  BY <1>1, <1>4, <1>5
<1>7. f[m - 1] \in Configs
  BY <1>3, <1>6
<1>8. f[m] = Preview(f[m - 1], es[m].writes)
  BY <1>2, <1>4, <1>5
<1> QED BY <1>4, <1>6, <1>7, <1>8, PreviewTyped

(* The resource key under which writes are saved; a rename has two ids.        *)
FiledAs(rk, ws) ==
  /\ ws[1].op \in {"addKey", "deleteKey"} => rk = "keys"
  /\ ws[1].op = "group" => rk \in GroupKeys
  /\ Len(ws) = 2 => ws[1].g # ws[2].g

(* What the operator can save, for save n, while c is shown.                   *)
Runners == {"action", "form", "format"}
Offered(e, n) == e.runner \in Runners /\ e.writes \in WritesOf(n) /\ FiledAs(e.rk, e.writes)

LEMMA OneWriteOffered ==
  ASSUME NEW n, NEW w \in SingleWrites(n), NEW rk, NEW runner \in Runners,
         w.op \in {"addKey", "deleteKey"} => rk = "keys",
         w.op = "group" => rk \in GroupKeys
  PROVE  Offered(Edit(rk, runner, << w >>), n)
<1>1. FiledAs(rk, << w >>)
  BY DEF FiledAs
<1> QED BY <1>1 DEF Offered, Edit, WritesOf

LEMMA BlocksOffered ==
  ASSUME NEW n, NEW rk, NEW runner \in Runners, NEW e \in Block(rk, runner, n)
  PROVE  Offered(e, n)
<1>1. PICK k \in Knobs : e = Edit(k, runner, << SetKnob(k, n) >>)
  BY DEF Block
<1>2. SetKnob(k, n) \in SingleWrites(n) /\ SetKnob(k, n).op = "knob"
  BY DEF SingleWrites, SetKnob
<1> QED BY <1>1, <1>2, OneWriteOffered

LEMMA BlocksAreOffered ==
  ASSUME NEW n
  PROVE  /\ \A e \in SwitchEdits(n) \cup PolicyEdits(n) : Offered(e, n)
         /\ \A e \in ProviderForm(n) \cup TimeoutsForm(n) \cup GlobalProxyForm(n)
                       \cup RouteForm(n) : Offered(e, n)
         /\ \A e \in PoolSwitch(n) \cup FormatToggle(n) \cup FormatPath(n) \cup RouteButtons(n)
                       \cup HealthMonitorButton(n) \cup ModelDisableButton(n)
                       \cup ModelMapEditor(n) : Offered(e, n)
<1>1. "action" \in Runners /\ "form" \in Runners /\ "format" \in Runners
  BY DEF Runners
<1>2. \A rk : /\ \A e \in Block(rk, "action", n) : Offered(e, n)
              /\ \A e \in Block(rk, "form", n) : Offered(e, n)
              /\ \A e \in Block(rk, "format", n) : Offered(e, n)
  BY <1>1, BlocksOffered
<1>3. \A e \in SwitchEdits(n) \cup PolicyEdits(n) : Offered(e, n)
  BY <1>2 DEF SwitchEdits, FlagSwitch, PolicyEdits, RoutingForm, RetryForm, FailurePolicyForm
<1>4. \A e \in ProviderForm(n) \cup TimeoutsForm(n) \cup GlobalProxyForm(n) \cup RouteForm(n) :
        Offered(e, n)
  BY <1>2 DEF ProviderForm, TimeoutsForm, GlobalProxyForm, RouteForm
<1>5. \A e \in PoolSwitch(n) \cup FormatToggle(n) \cup FormatPath(n) \cup RouteButtons(n)
                 \cup HealthMonitorButton(n) \cup ModelDisableButton(n) \cup ModelMapEditor(n) :
        Offered(e, n)
  BY <1>2 DEF PoolSwitch, FormatToggle, FormatPath, RouteButtons, HealthMonitorButton,
              ModelDisableButton, ModelMapEditor
<1> QED BY <1>3, <1>4, <1>5

LEMMA ListsAreOffered ==
  ASSUME NEW n, NEW c \in Configs
  PROVE  \A e \in StaticListForm(c) \cup StaticListButtons(c) : Offered(e, n)
<1>1. \A ms \in SUBSET Models : SetStatic(ms) \in SingleWrites(n) /\ SetStatic(ms).op = "static"
  BY DEF SingleWrites, SetStatic
<1>2. c.static \in SUBSET Models /\ "action" \in Runners /\ "form" \in Runners
  BY DEF Configs, Runners
<1>3. ASSUME NEW e \in StaticListForm(c) PROVE Offered(e, n)
  <2>1. PICK m \in Models : e = Edit("provider", "form", << SetStatic(c.static \cup {m}) >>)
    BY DEF StaticListForm
  <2>2. c.static \cup {m} \in SUBSET Models
    BY <1>2
  <2> QED BY <1>1, <1>2, <2>1, <2>2, OneWriteOffered
<1>4. ASSUME NEW e \in StaticListButtons(c) PROVE Offered(e, n)
  <2>1. PICK m \in c.static : e = Edit("provider", "action", << SetStatic(c.static \ {m}) >>)
    BY DEF StaticListButtons
  <2>2. c.static \ {m} \in SUBSET Models
    BY <1>2
  <2> QED BY <1>1, <1>2, <2>1, <2>2, OneWriteOffered
<1> QED BY <1>3, <1>4

LEMMA RewritesAreOffered ==
  ASSUME NEW n, NEW list \in SUBSET Models, NEW e \in StaticModelEditor(list)
  PROVE  Offered(e, n)
<1>1. PICK ms \in {list \ {m} : m \in list}
                    \cup {(list \ {mn[1]}) \cup {mn[2]} : mn \in list \X (Models \ list)} :
        e = Edit("provider-static", "action", << SetStatic(ms) >>)
  BY DEF StaticModelEditor
<1>2. ms \in SUBSET Models
  OBVIOUS
<1>3. SetStatic(ms) \in SingleWrites(n) /\ SetStatic(ms).op = "static" /\ "action" \in Runners
  BY <1>2 DEF SingleWrites, SetStatic, Runners
<1> QED BY <1>1, <1>3, OneWriteOffered

LEMMA KeysAreOffered ==
  ASSUME NEW n, NEW c \in Configs
  PROVE  \A e \in KeyForm(n) \cup KeyProxyForm(c, n) \cup KeyDeleteButton(c) : Offered(e, n)
<1>1. DOMAIN c.keys \subseteq Nat /\ "action" \in Runners /\ "form" \in Runners
  BY DEF Configs, Runners
<1>2. AddKey(n) \in SingleWrites(n) /\ AddKey(n).op = "addKey"
  BY DEF SingleWrites, AddKey
<1>3. \A i \in DOMAIN c.keys : /\ EditKey(i, n) \in SingleWrites(n) /\ EditKey(i, n).op = "editKey"
                              /\ DeleteKey(i) \in SingleWrites(n) /\ DeleteKey(i).op = "deleteKey"
  <2>1. \A i \in DOMAIN c.keys : EditKey(i, n) \in SingleWrites(n) /\ DeleteKey(i) \in SingleWrites(n)
    BY <1>1 DEF SingleWrites
  <2>2. \A i : EditKey(i, n).op = "editKey" /\ DeleteKey(i).op = "deleteKey"
    BY DEF EditKey, DeleteKey
  <2> QED BY <2>1, <2>2
<1>4. \A e \in KeyForm(n) : Offered(e, n)
  BY <1>1, <1>2, OneWriteOffered DEF KeyForm
<1>5. \A e \in KeyProxyForm(c, n) : Offered(e, n)
  BY <1>1, <1>3, OneWriteOffered DEF KeyProxyForm
<1>6. \A e \in KeyDeleteButton(c) : Offered(e, n)
  BY <1>1, <1>3, OneWriteOffered DEF KeyDeleteButton
<1> QED BY <1>4, <1>5, <1>6

LEMMA GroupsAreOffered ==
  ASSUME NEW n, NEW c
  PROVE  \A e \in GroupForm(c, n) \cup GroupDeleteButton(c) : Offered(e, n)
<1>1. "action" \in Runners /\ "form" \in Runners /\ Present(c) \subseteq Groups
  BY DEF Runners, Present
<1>2. \A g \in Groups, v \in {Absent, n} :
        /\ SetGroup(g, v) \in SingleWrites(n)
        /\ SetGroup(g, v).op = "group" /\ SetGroup(g, v).g = g
  BY DEF SingleWrites, SetGroup
<1>3. ASSUME NEW g \in Groups, NEW h \in Groups, NEW rk \in GroupKeys
      PROVE  Offered(Edit(rk, "form", GroupWrites(g, h, n)), n)
  <2>1. CASE g = h
    BY <1>1, <1>2, <2>1, OneWriteOffered DEF GroupWrites
  <2>2. CASE g # h
    <3> DEFINE ws == << SetGroup(h, n), SetGroup(g, Absent) >>
    <3>1. GroupWrites(g, h, n) = ws /\ ws \in WritesOf(n)
      BY <2>2 DEF GroupWrites, WritesOf
    <3>2. ws[1].op = "group" /\ ws[1].g = h /\ ws[2].g = g
      BY <1>2
    <3> HIDE DEF ws
    <3>3. FiledAs(rk, ws)
      BY <2>2, <3>2 DEF FiledAs
    <3> QED BY <1>1, <3>1, <3>3 DEF Offered, Edit
  <2> QED BY <2>1, <2>2
<1>4. \A g \in Groups : "variants-" \o g \in GroupKeys
  BY DEF GroupKeys
<1>5. \A e \in GroupForm(c, n) : Offered(e, n)
  <2> TAKE e \in GroupForm(c, n)
  <2>1. PICK g \in Present(c), h \in Groups :
          e = Edit("variants-" \o g, "form", GroupWrites(g, h, n))
    BY DEF GroupForm
  <2> QED BY <1>1, <1>3, <1>4, <2>1
<1>6. \A e \in GroupDeleteButton(c) : Offered(e, n)
  <2> TAKE e \in GroupDeleteButton(c)
  <2>1. PICK g \in Present(c) : e = Edit("variants-" \o g, "action", << SetGroup(g, Absent) >>)
    BY DEF GroupDeleteButton
  <2>2. "variants-" \o g \in GroupKeys
    BY <1>1, <1>4
  <2> QED BY <1>1, <1>2, <2>1, <2>2, OneWriteOffered
<1> QED BY <1>5, <1>6

LEMMA FormsAreOffered ==
  ASSUME NEW n, NEW c \in Configs
  PROVE  \A e \in FormEdits(c, n) \cup ButtonEdits(c, n) : Offered(e, n)
BY BlocksAreOffered, ListsAreOffered, KeysAreOffered, GroupsAreOffered
   DEF FormEdits, ButtonEdits

-----------------------------------------------------------------------------
(* The types of the state.                                                     *)
TypedAnswer(a) == a \in Answers /\ (IsConfig(a) => a.cfg \in Configs)

TypedRefresh(r) == r \in RefreshTypes /\ TypedAnswer(r.answer)

TypedServer(s) == s.cfg \in Configs /\ s.before \in Configs /\ s.key \in Nat

TypedStore(st) == st.confirmed \in Configs \cup {NothingYet}

TypedEdit(n, e) ==
  /\ e.at \in {"sent", "committed", "answered", "over"}
  /\ TypedAnswer(e.answer)
  /\ UnderWay(e) => /\ e.runner \in Runners /\ e.writes \in WritesOf(n)
                    /\ e.next \in DOMAIN e.writes /\ FiledAs(e.rk, e.writes)

TypedSaves(es) ==
  /\ Len(es) <= MaxEdits
  /\ \A n \in DOMAIN es : TypedEdit(n, es[n])

TypedPage ==
  /\ session.key \in Nat /\ session.checking \in Nat
  /\ phase \in {"idle", "loading", "ready", "error"}
  /\ timer \in {"off", "side", "all"} /\ dirty \in BOOLEAN
  /\ editor.list \subseteq Models

OpenScopes(es) == {n \in DOMAIN es : es[n].at # "over" /\ Scoped(es[n])}

TypesInv ==
  /\ TypedServer(srv) /\ TypedStore(store)
  /\ TypedRefresh(static) /\ TypedRefresh(all)
  /\ TypedSaves(edits) /\ TypedPage
  /\ depth = Cardinality(OpenScopes(edits))

ConsoleInv == ClaimsInv /\ SavesInv /\ TypesInv

(* Answers.                                                                    *)
LEMMA TypedRefusals == TypedAnswer(Denied) /\ TypedAnswer(Failed)
BY DEF TypedAnswer, Denied, Failed, NoConfig, Answer, Answers, Marks, Mark, NoMark, IsConfig

LEMMA ServerMarksAreMarks == ServerMarks \subseteq Marks
BY DEF ServerMarks, Marks

LEMMA SnapshotTyped ==
  ASSUME ClaimsInv, TypedServer(srv), NEW a, Snapshot(a)
  PROVE  TypedAnswer(a) /\ TypedServer(srv')
<1>1. a.mark \in Marks
  BY SnapshotTold, ServerMarksAreMarks DEF ClaimsInv, Told
<1>2. a.kind = "config" /\ a.cfg \in Configs /\ a = Answer(a.cfg, a.mark)
  BY DEF Snapshot, Answer, TypedServer
<1>3. TypedAnswer(a)
  BY <1>1, <1>2 DEF TypedAnswer, Answers, Answer
<1>4. TypedServer(srv')
  BY DEF Snapshot, TypedServer, ClaimsInv, IsServer, ServerFields
<1> QED BY <1>3, <1>4

(* Refreshes.                                                                  *)
LEMMA RefreshTyped ==
  ASSUME NEW r, TypedRefresh(r)
  PROVE  /\ TypedRefresh([r EXCEPT !.wanted = TRUE])
         /\ \A b \in BOOLEAN : TypedRefresh([r EXCEPT !.disturbed = b])
         /\ \A b \in BOOLEAN : TypedRefresh([r EXCEPT !.wanted = TRUE, !.loud = b])
         /\ \A a : TypedAnswer(a) => TypedRefresh([r EXCEPT !.answer = a])
         /\ \A a : TypedAnswer(a) => TypedRefresh([r EXCEPT !.at = "answered", !.answer = a])
         /\ TypedRefresh(Cut(r))
<1>1. \A a : TypedAnswer(a) => TypedRefresh([r EXCEPT !.answer = a])
  BY DEF TypedRefresh, TypedAnswer, RefreshTypes
<1>2. \A a : TypedAnswer(a) => TypedRefresh([r EXCEPT !.at = "answered", !.answer = a])
  BY DEF TypedRefresh, TypedAnswer, RefreshTypes
<1>3. TypedRefresh([r EXCEPT !.wanted = TRUE])
  BY DEF TypedRefresh, RefreshTypes
<1>4. \A b \in BOOLEAN : TypedRefresh([r EXCEPT !.disturbed = b])
  BY DEF TypedRefresh, RefreshTypes
<1>5. \A b \in BOOLEAN : TypedRefresh([r EXCEPT !.wanted = TRUE, !.loud = b])
  BY DEF TypedRefresh, RefreshTypes
<1>6. TypedRefresh(Cut(r))
  BY <1>2, TypedRefusals DEF Cut
<1> QED BY <1>1, <1>2, <1>3, <1>4, <1>5, <1>6

LEMMA RequestsTyped ==
  /\ TypedRefresh(Resting)
  /\ session.key \in Nat => \A b \in BOOLEAN : TypedRefresh(SentStatic(b))
  /\ session'.key \in Nat => \A b \in BOOLEAN : TypedRefresh(SentAll(b))
<1>1. TypedRefresh(Resting)
  BY TypedRefusals DEF Resting, TypedRefresh, RefreshTypes, TypedAnswer
<1>2. ASSUME session.key \in Nat, NEW b \in BOOLEAN PROVE TypedRefresh(SentStatic(b))
  <2>1. (b /\ ~Protected) \in BOOLEAN
    OBVIOUS
  <2> QED BY <1>1, <1>2, <2>1 DEF SentStatic, TypedRefresh, RefreshTypes, Resting
<1>3. ASSUME session'.key \in Nat, NEW b \in BOOLEAN PROVE TypedRefresh(SentAll(b))
  <2>1. (b \/ shown' = None) \in BOOLEAN
    OBVIOUS
  <2> QED BY <1>1, <1>3, <2>1 DEF SentAll, TypedRefresh, RefreshTypes, Resting
<1> QED BY <1>1, <1>2, <1>3

LEMMA DisturbTyped ==
  ASSUME TypedRefresh(static), Disturb
  PROVE  TypedRefresh(static')
<1>1. (static.at # "idle") \in BOOLEAN
  OBVIOUS
<1> QED BY <1>1, RefreshTyped DEF Disturb

LEMMA ReadTyped ==
  ASSUME ClaimsInv, TypedServer(srv), NEW r, NEW q, TypedRefresh(r), Reads(r, q)
  PROVE  TypedRefresh(q) /\ TypedServer(srv')
<1>1. CASE r.key # srv.key
  <2>1. q = [r EXCEPT !.at = "answered", !.answer = Denied] /\ srv' = srv
    BY <1>1 DEF Reads
  <2>2. TypedRefresh([r EXCEPT !.at = "answered", !.answer = Denied])
    BY RefreshTyped, TypedRefusals
  <2> QED BY <2>1, <2>2
<1>2. CASE r.key = srv.key
  <2>1. PICK a : Snapshot(a) /\ q = [r EXCEPT !.at = "answered", !.answer = a]
    BY <1>2 DEF Reads
  <2>2. TypedAnswer(a) /\ TypedServer(srv')
    BY <2>1, SnapshotTyped
  <2>3. TypedRefresh([r EXCEPT !.at = "answered", !.answer = a])
    BY <2>2, RefreshTyped
  <2> QED BY <2>1, <2>2, <2>3
<1> QED BY <1>1, <1>2

LEMMA RefreshAllTyped ==
  ASSUME TypedRefresh(all), NEW loud \in BOOLEAN, session'.key \in Nat, RefreshAll(loud)
  PROVE  TypedRefresh(all')
<1>1. CASE all.at = "idle"
  BY <1>1, RequestsTyped DEF RefreshAll
<1>2. CASE all.at # "idle"
  <2>1. all.loud \in BOOLEAN
    BY DEF TypedRefresh, RefreshTypes
  <2>2. (IF all.wanted THEN all.loud \/ loud ELSE loud) \in BOOLEAN
    BY <2>1
  <2> QED BY <1>2, <2>2, RefreshTyped DEF RefreshAll
<1> QED BY <1>1, <1>2

(* The server.                                                                 *)
LEMMA WriteTyped ==
  ASSUME NEW n, NEW ws \in WritesOf(n), NEW i \in DOMAIN ws
  PROVE  ws[i] \in SingleWrites(n)
<1>1. CASE \E w \in SingleWrites(n) : ws = << w >>
  BY <1>1
<1>2. ASSUME NEW g \in Groups, NEW h \in Groups,
             ws = << SetGroup(h, n), SetGroup(g, Absent) >>
      PROVE  ws[i] \in SingleWrites(n)
  <2>1. SetGroup(h, n) \in SingleWrites(n) /\ SetGroup(g, Absent) \in SingleWrites(n)
    BY DEF SingleWrites
  <2> QED BY <1>2, <2>1
<1> QED BY <1>1, <1>2 DEF WritesOf

(* One write, or the two of a rename.                                           *)
LEMMA WritesOfRename ==
  ASSUME NEW n, NEW ws \in WritesOf(n)
  PROVE  /\ Len(ws) \in {1, 2} /\ DOMAIN ws = 1..Len(ws)
         /\ Len(ws) = 2 => /\ ws[1].op = "group" /\ ws[1].g \in Groups /\ ws[1].v = n
                           /\ ws[2].op = "group" /\ ws[2].g \in Groups
<1>1. CASE \E w \in SingleWrites(n) : ws = << w >>
  BY <1>1
<1>2. ASSUME NEW g \in Groups, NEW h \in Groups,
             ws = << SetGroup(h, n), SetGroup(g, Absent) >>
      PROVE  /\ Len(ws) = 2 /\ DOMAIN ws = 1..2
             /\ ws[1].op = "group" /\ ws[1].g \in Groups /\ ws[1].v = n
             /\ ws[2].op = "group" /\ ws[2].g \in Groups
  <2>1. /\ SetGroup(h, n).op = "group" /\ SetGroup(h, n).g = h /\ SetGroup(h, n).v = n
        /\ SetGroup(g, Absent).op = "group" /\ SetGroup(g, Absent).g = g
    BY DEF SetGroup
  <2> QED BY <1>2, <2>1
<1> QED BY <1>1, <1>2 DEF WritesOf

LEMMA EditNumbers ==
  ASSUME ClaimsInv, TypedSaves(edits)
  PROVE  /\ Len(edits) \in Nat /\ DOMAIN edits = 1..Len(edits)
         /\ DOMAIN edits \subseteq EditIds
         /\ edits = [m \in DOMAIN edits |-> edits[m]]
<1>1. PICK E : edits \in Seq(E)
  BY DEF ClaimsInv, AreEdits
<1>2. MaxEdits \in Nat
  BY ContentAssumption
<1> QED BY <1>1, <1>2 DEF TypedSaves, EditIds

LEMMA CommittedTyped ==
  ASSUME ClaimsInv, TypedServer(srv), NEW cfg \in Configs, srv' = Committed(cfg)
  PROVE  TypedServer(srv')
BY DEF Committed, TypedServer, ClaimsInv, IsServer, ServerFields

LEMMA CommitsTyped ==
  ASSUME ConsoleInv, NEW n \in DOMAIN edits, ServerCommits(n)
  PROVE  TypedServer(srv')
<1> DEFINE w == edits[n].writes[edits[n].next]
<1>1. TypedEdit(n, edits[n]) /\ n \in EditIds
  BY EditNumbers DEF ConsoleInv, TypesInv, TypedSaves
<1>2. CASE ServerAccepts(srv.cfg, w) /\ srv' = Committed(ServerApply(srv.cfg, w))
  <2>1. w \in SingleWrites(n)
    BY <1>1, WriteTyped DEF TypedEdit, ServerCommits, UnderWay
  <2> HIDE DEF w
  <2>2. srv.cfg \in Configs /\ TypedServer(srv)
    BY DEF ConsoleInv, TypesInv, TypedServer
  <2>3. ServerApply(srv.cfg, w) \in Configs
    BY <1>1, <1>2, <2>1, <2>2, Applied
  <2> QED BY <1>2, <2>2, <2>3, CommittedTyped DEF ConsoleInv
<1>3. CASE UNCHANGED srv
  BY <1>3 DEF ConsoleInv, TypesInv, TypedServer
<1> QED BY <1>2, <1>3 DEF ServerCommits, serverVars

LEMMA WorldTyped ==
  ASSUME ConsoleInv, ForeignChange \/ ForeignKey \/ Restart
  PROVE  TypedServer(srv')
<1>1. TypedServer(srv) /\ DOMAIN srv = ServerFields
  BY DEF ConsoleInv, TypesInv, ClaimsInv, IsServer
<1>2. CASE ForeignChange
  <2> DEFINE w == SetKnob("routing", Foreign)
  <2>1. "routing" \in Knobs /\ Foreign \in 0..Foreign
    BY ContentAssumption DEF Foreign
  <2>2. ServerApply(srv.cfg, w) = [srv.cfg EXCEPT !.knob["routing"] = Foreign]
    BY DEF ServerApply, SetKnob
  <2>3. ServerApply(srv.cfg, w) \in Configs
    BY <1>1, <2>1, <2>2, KnobWritten DEF TypedServer
  <2> HIDE DEF w
  <2> QED BY <1>1, <1>2, <2>3, CommittedTyped DEF ForeignChange, ConsoleInv, w
<1>3. CASE ForeignKey
  BY <1>1, <1>3 DEF ForeignKey, TypedServer, ServerFields
<1>4. CASE Restart
  BY <1>1, <1>4 DEF Restart, TypedServer, ServerFields
<1> QED BY <1>2, <1>3, <1>4

(* What the screen shows.                                                      *)
LEMMA PendingTyped ==
  ASSUME ConsoleInv, NEW i \in DOMAIN store.pending
  PROVE  /\ store.pending[i].id \in EditIds
         /\ store.pending[i].writes \in WritesOf(store.pending[i].id)
<1> DEFINE p == store.pending[i]
<1>1. Backed(p, edits)
  BY DEF ConsoleInv, SavesInv, SavesOK, PendingOK
<1>2. p.id \in DOMAIN edits /\ UnderWay(edits[p.id]) /\ p.writes = edits[p.id].writes
  BY <1>1 DEF Backed
<1>3. TypedEdit(p.id, edits[p.id]) /\ p.id \in EditIds
  BY <1>2, EditNumbers DEF ConsoleInv, TypesInv, TypedSaves
<1> QED BY <1>2, <1>3 DEF TypedEdit

LEMMA ShownTyped ==
  ASSUME ConsoleInv
  PROVE  /\ shown \in Configs \cup {NothingYet, None}
         /\ Showing => /\ shown \in Configs /\ Filled(store)
                       /\ shown = Laid(store.confirmed, store.pending)
<1>1. PICK P : store.pending \in Seq(P)
  BY DEF ConsoleInv, SavesInv, SavesOK, PendingOK
<1>2. store.settled \o store.pending = store.pending
  BY <1>1 DEF ConsoleInv, SavesInv, SavesOK
<1>3. CASE shown = None
  BY <1>3 DEF Showing
<1>4. CASE shown = NothingYet
  BY <1>4 DEF Showing
<1>5. CASE shown # None /\ shown # NothingYet
  <2>1. shown = Effective(store)
    BY <1>5 DEF ConsoleInv, SavesInv, ShownOK
  <2>2. Filled(store) /\ shown = Laid(store.confirmed, store.pending)
    BY <1>2, <1>5, <2>1 DEF Effective
  <2>3. store.confirmed \in Configs
    BY <2>2 DEF ConsoleInv, TypesInv, TypedStore, Filled
  <2>4. PICK f : /\ IsLaying(f, store.confirmed, store.pending, Len(store.pending))
                 /\ Laid(store.confirmed, store.pending) = f[Len(store.pending)]
    BY <1>1, LaidIs
  <2>5. \A i \in DOMAIN store.pending : \E n \in EditIds : store.pending[i].writes \in WritesOf(n)
    BY PendingTyped
  <2>6. \A i \in 0..Len(store.pending) : f[i] \in Configs
    BY <1>1, <2>3, <2>4, <2>5, LaidTyped
  <2>7. Len(store.pending) \in 0..Len(store.pending)
    BY <1>1
  <2> QED BY <2>2, <2>4, <2>6, <2>7
<1> QED BY <1>3, <1>4, <1>5

(* Every save an operator begins is one of those offered.                      *)
LEMMA BegunAsOffered ==
  ASSUME ConsoleInv, FlipSwitch \/ SubmitForm \/ SubmitPolicy \/ PressButton \/ SubmitEditor
  PROVE  \E e, types, b : types \in BOOLEAN /\ Offered(e, Next1) /\ Save(e, types, b)
<1>1. TRUE \in BOOLEAN /\ FALSE \in BOOLEAN
  OBVIOUS
<1>2. CASE FlipSwitch
  BY <1>1, <1>2, BlocksAreOffered DEF FlipSwitch
<1>3. CASE SubmitForm
  <2>1. \A e \in FormEdits(shown, Next1) : Offered(e, Next1)
    BY <1>3, ShownTyped, FormsAreOffered DEF SubmitForm
  <2> QED BY <1>1, <1>3, <2>1 DEF SubmitForm
<1>4. CASE SubmitPolicy
  BY <1>1, <1>4, BlocksAreOffered DEF SubmitPolicy
<1>5. CASE PressButton
  <2>1. \A e \in ButtonEdits(shown, Next1) : Offered(e, Next1)
    BY <1>5, ShownTyped, FormsAreOffered DEF PressButton
  <2> QED BY <1>1, <1>5, <2>1 DEF PressButton
<1>6. CASE SubmitEditor
  <2>1. \A e \in StaticModelEditor(editor.list) : Offered(e, Next1)
    BY RewritesAreOffered DEF ConsoleInv, TypesInv, TypedPage
  <2> QED BY <1>1, <1>6, <2>1 DEF SubmitEditor
<1> QED BY <1>2, <1>3, <1>4, <1>5, <1>6

-----------------------------------------------------------------------------
(* The count of open mutation scopes.                                          *)
LEMMA ScopesFinite ==
  ASSUME NEW E, NEW es \in Seq(E)
  PROVE  IsFiniteSet(OpenScopes(es))
<1>1. Len(es) \in Nat /\ DOMAIN es = 1..Len(es)
  OBVIOUS
<1>2. IsFiniteSet(1..Len(es))
  BY <1>1, FS_Interval
<1>3. OpenScopes(es) \subseteq 1..Len(es)
  BY <1>1 DEF OpenScopes
<1> QED BY <1>2, <1>3, FS_Subset

LEMMA ScopeOpens ==
  ASSUME NEW E, NEW es \in Seq(E), NEW e, e.at # "over"
  PROVE  Cardinality(OpenScopes(Append(es, e)))
           = IF Scoped(e) THEN Cardinality(OpenScopes(es)) + 1 ELSE Cardinality(OpenScopes(es))
<1> DEFINE fs == Append(es, e)
           m == Len(es) + 1
<1>1. /\ Len(es) \in Nat /\ DOMAIN es = 1..Len(es) /\ DOMAIN fs = 1..m
      /\ fs[m] = e /\ \A n \in 1..Len(es) : fs[n] = es[n]
  OBVIOUS
<1> HIDE DEF fs
<1>2. m \notin OpenScopes(es) /\ IsFiniteSet(OpenScopes(es))
  BY <1>1, ScopesFinite DEF OpenScopes
<1>3. CASE Scoped(e)
  <2>1. OpenScopes(fs) = OpenScopes(es) \cup {m}
    BY <1>1, <1>3 DEF OpenScopes
  <2>2. Cardinality(OpenScopes(es) \cup {m}) = Cardinality(OpenScopes(es)) + 1
    BY <1>2, FS_AddElement
  <2> QED BY <1>3, <2>1, <2>2 DEF fs
<1>4. CASE ~Scoped(e)
  <2>1. OpenScopes(fs) = OpenScopes(es)
    BY <1>1, <1>4 DEF OpenScopes
  <2> QED BY <1>4, <2>1 DEF fs
<1> QED BY <1>3, <1>4

LEMMA ScopeCloses ==
  ASSUME NEW E, NEW es \in Seq(E), NEW n \in DOMAIN es, es[n].at # "over", NEW e, e.at = "over"
  PROVE  Cardinality(OpenScopes([es EXCEPT ![n] = e]))
           = IF Scoped(es[n]) THEN Cardinality(OpenScopes(es)) - 1
             ELSE Cardinality(OpenScopes(es))
<1> DEFINE fs == [es EXCEPT ![n] = e]
<1>1. DOMAIN fs = DOMAIN es /\ fs[n] = e /\ \A m \in DOMAIN es \ {n} : fs[m] = es[m]
  OBVIOUS
<1> HIDE DEF fs
<1>2. IsFiniteSet(OpenScopes(es))
  BY ScopesFinite
<1>3. OpenScopes(fs) = OpenScopes(es) \ {n}
  BY <1>1 DEF OpenScopes
<1>4. n \in OpenScopes(es) <=> Scoped(es[n])
  BY DEF OpenScopes
<1>5. Cardinality(OpenScopes(es) \ {n})
        = IF n \in OpenScopes(es) THEN Cardinality(OpenScopes(es)) - 1
          ELSE Cardinality(OpenScopes(es))
  BY <1>2, FS_RemoveElement
<1> QED BY <1>3, <1>4, <1>5 DEF fs

LEMMA ScopesStay ==
  ASSUME NEW es, NEW fs, DOMAIN fs = DOMAIN es,
         \A n \in DOMAIN es : /\ fs[n].runner = es[n].runner
                              /\ fs[n].at = "over" <=> es[n].at = "over"
  PROVE  OpenScopes(fs) = OpenScopes(es)
BY DEF OpenScopes, Scoped

-----------------------------------------------------------------------------
(* Types, step by step. What a step leaves alone keeps its type.               *)
ServerStill    == UNCHANGED srv
StoreStill     == store'.confirmed = store.confirmed
RefreshesStill == UNCHANGED <<static, all>>
SavesStill     == UNCHANGED <<edits, depth>>
PageStill      == UNCHANGED <<session, phase, timer, dirty, editor>>

ServerTyped    == TypedServer(srv)
StoreTyped     == TypedStore(store)
RefreshesTyped == TypedRefresh(static) /\ TypedRefresh(all)
SavesTyped     == TypedSaves(edits) /\ depth = Cardinality(OpenScopes(edits))

LEMMA TypesByParts ==
  /\ TypesInv <=> ServerTyped /\ StoreTyped /\ RefreshesTyped /\ SavesTyped /\ TypedPage
  /\ TypesInv' <=> ServerTyped' /\ StoreTyped' /\ RefreshesTyped' /\ SavesTyped' /\ TypedPage'
BY DEF TypesInv, ServerTyped, StoreTyped, RefreshesTyped, SavesTyped

LEMMA StillTyped ==
  ASSUME TypesInv
  PROVE  /\ ServerStill => ServerTyped'
         /\ StoreStill => StoreTyped'
         /\ RefreshesStill => RefreshesTyped'
         /\ SavesStill => SavesTyped'
         /\ PageStill => TypedPage'
BY TypesByParts DEF ServerStill, StoreStill, RefreshesStill, SavesStill, PageStill,
   ServerTyped, StoreTyped, RefreshesTyped, SavesTyped, TypedPage, TypedStore

(* One save changes and stays under way.                                       *)
LEMMA SaveStaysTyped ==
  ASSUME ConsoleInv, NEW n \in DOMAIN edits, NEW e, UNCHANGED depth,
         edits' = [edits EXCEPT ![n] = e], TypedEdit(n, e),
         e.runner = edits[n].runner, e.at # "over", edits[n].at # "over"
  PROVE  SavesTyped'
<1>1. /\ Len(edits) \in Nat /\ DOMAIN edits = 1..Len(edits)
      /\ edits = [m \in DOMAIN edits |-> edits[m]]
  BY EditNumbers DEF ConsoleInv, TypesInv
<1>2. /\ DOMAIN edits' = DOMAIN edits /\ edits'[n] = e
      /\ \A m \in DOMAIN edits \ {n} : edits'[m] = edits[m]
  BY <1>1
<1>3. Len(edits') = Len(edits)
  <2>1. PICK E : edits \in Seq(E)
    BY DEF ConsoleInv, ClaimsInv, AreEdits
  <2> QED BY <2>1
<1>4. TypedSaves(edits')
  BY <1>2, <1>3 DEF ConsoleInv, TypesInv, TypedSaves
<1>5. OpenScopes(edits') = OpenScopes(edits)
  BY <1>2, ScopesStay
<1> QED BY <1>4, <1>5 DEF ConsoleInv, TypesInv, SavesTyped

LEMMA SaveBeginsTyped ==
  ASSUME ConsoleInv, NEW e, NEW types \in BOOLEAN, NEW b, Offered(e, Next1), Save(e, types, b)
  PROVE  TypesInv'
<1>1. ServerTyped'
  BY StillTyped DEF Save, ServerStill, ConsoleInv
<1>2. TypedPage'
  BY DEF Save, ConsoleInv, TypesInv, TypedPage
<1>3. RefreshesTyped'
  BY DisturbTyped DEF Save, ConsoleInv, TypesInv, RefreshesTyped
<1>4. CASE CanBegin(store, e.rk)
  <2>1. PICK E : edits \in Seq(E)
    BY DEF ConsoleInv, ClaimsInv, AreEdits
  <2> DEFINE s == Started(e)
  <2>2. /\ edits' = Append(edits, s) /\ store' = Begin(store, e.rk, e.writes)
        /\ depth' = IF Scoped(e) THEN depth + 1 ELSE depth
    BY <1>4 DEF Save
  <2>3. StoreTyped'
    <3>1. store'.confirmed = store.confirmed
      BY <2>2 DEF Begin, ConsoleInv, ClaimsInv, Holds, IsStore, StoreFields
    <3> QED BY <3>1, StillTyped DEF StoreStill, ConsoleInv
  <2>4. /\ s.at = "sent" /\ s.runner = e.runner /\ s.writes = e.writes /\ s.next = 1
        /\ s.answer = Failed /\ s.rk = e.rk
    BY DEF Started
  <2> HIDE DEF s
  <2>5. /\ 1 \in DOMAIN e.writes /\ e.runner \in Runners /\ e.writes \in WritesOf(Next1)
        /\ FiledAs(e.rk, e.writes)
    <3>1. e.runner \in Runners /\ e.writes \in WritesOf(Next1) /\ FiledAs(e.rk, e.writes)
      BY DEF Offered
    <3>2. 1 \in DOMAIN e.writes
      BY <3>1 DEF WritesOf
    <3> QED BY <3>1, <3>2
  <2>6. TypedEdit(Next1, s)
    BY <2>4, <2>5, TypedRefusals DEF TypedEdit
  <2>7. TypedSaves(edits')
    <3>1. Len(edits') = Len(edits) + 1 /\ DOMAIN edits' = 1..(Len(edits) + 1)
          /\ edits'[Len(edits) + 1] = s /\ \A m \in 1..Len(edits) : edits'[m] = edits[m]
      BY <2>1, <2>2
    <3>2. Len(edits) \in Nat /\ MaxEdits \in Nat /\ Len(edits) < MaxEdits
      BY <2>1, ContentAssumption DEF Save
    <3>3. ASSUME NEW m \in DOMAIN edits' PROVE TypedEdit(m, edits'[m])
      <4>1. CASE m = Len(edits) + 1
        BY <2>6, <3>1, <4>1 DEF Next1
      <4>2. CASE m # Len(edits) + 1
        <5>1. m \in DOMAIN edits /\ edits'[m] = edits[m]
          BY <2>1, <3>1, <4>2
        <5> QED BY <5>1 DEF ConsoleInv, TypesInv, TypedSaves
      <4> QED BY <4>1, <4>2
    <3>4. Len(edits') <= MaxEdits
      BY <3>1, <3>2
    <3> QED BY <3>3, <3>4 DEF TypedSaves
  <2>8. depth' = Cardinality(OpenScopes(edits'))
    <3>1. Scoped(s) <=> Scoped(e)
      BY <2>4 DEF Scoped
    <3>2. s.at # "over"
      BY <2>4
    <3> QED BY <2>1, <2>2, <3>1, <3>2, ScopeOpens DEF ConsoleInv, TypesInv
  <2> QED BY <1>1, <1>2, <1>3, <2>3, <2>7, <2>8, TypesByParts DEF SavesTyped
<1>5. CASE ~CanBegin(store, e.rk)
  <2>1. StoreStill /\ SavesStill
    BY <1>5 DEF Save, StoreStill, SavesStill
  <2> QED BY <1>1, <1>2, <1>3, <2>1, StillTyped, TypesByParts DEF ConsoleInv
<1> QED BY <1>4, <1>5

LEMMA ServerHandlesTyped ==
  ASSUME ConsoleInv, NEW n \in DOMAIN edits,
         ServerCommits(n) \/ ServerAnswers(n) \/ SendNext(n)
  PROVE  TypesInv'
<1>1. StoreStill /\ RefreshesStill /\ PageStill /\ UNCHANGED depth
  BY DEF ServerCommits, ServerAnswers, SendNext, viewVars, formVars, StoreStill,
         RefreshesStill, PageStill
<1>2. ServerTyped'
  <2>1. CASE ServerCommits(n)
    BY <2>1, CommitsTyped DEF ServerTyped
  <2>2. CASE ServerAnswers(n)
    BY <2>2, SnapshotTyped DEF ServerAnswers, ServerTyped, ConsoleInv, TypesInv
  <2>3. CASE SendNext(n)
    BY <2>3, StillTyped DEF SendNext, ServerStill, serverVars, ConsoleInv
  <2> QED BY <2>1, <2>2, <2>3
<1> DEFINE old == edits[n]
<1>3. DOMAIN old = EditFields /\ TypedEdit(n, old) /\ edits = [m \in DOMAIN edits |-> edits[m]]
  BY FieldsOfEdit, EditNumbers DEF ConsoleInv, TypesInv, TypedSaves
<1>4. ASSUME old.at # "over", edits' = [edits EXCEPT ![n].at = "committed"]
      PROVE  SavesTyped'
  <2> DEFINE e == [old EXCEPT !.at = "committed"]
  <2>1. edits' = [edits EXCEPT ![n] = e]
    BY <1>4
  <2>2. TypedEdit(n, e) /\ e.runner = old.runner /\ e.at = "committed"
    BY <1>3, <1>4 DEF TypedEdit, UnderWay, EditFields
  <2>3. e.at # "over"
    BY <2>2
  <2> HIDE DEF e
  <2> QED BY <1>1, <1>4, <2>1, <2>2, <2>3, SaveStaysTyped
<1>5. ASSUME old.at # "over", NEW a, TypedAnswer(a),
             edits' = [edits EXCEPT ![n].at = "answered", ![n].answer = a]
      PROVE  SavesTyped'
  <2> DEFINE e == [old EXCEPT !.at = "answered", !.answer = a]
  <2>1. edits' = [edits EXCEPT ![n] = e]
    BY <1>3, <1>5
  <2>2. TypedEdit(n, e) /\ e.runner = old.runner /\ e.at = "answered"
    BY <1>3, <1>5 DEF TypedEdit, UnderWay, EditFields
  <2>3. e.at # "over"
    BY <2>2
  <2> HIDE DEF e
  <2> QED BY <1>1, <1>5, <2>1, <2>2, <2>3, SaveStaysTyped
<1>6. ASSUME ServerCommits(n) PROVE SavesTyped'
  <2>1. old.at # "over"
    BY <1>6 DEF ServerCommits
  <2>2. TypedAnswer(IF old.key # srv.key THEN Denied ELSE Failed)
    BY TypedRefusals
  <2> HIDE DEF old
  <2> QED BY <1>4, <1>5, <1>6, <2>1, <2>2 DEF ServerCommits, old
<1>7. ASSUME ServerAnswers(n) PROVE SavesTyped'
  <2>1. PICK a : Snapshot(a) /\ edits' = [edits EXCEPT ![n].at = "answered", ![n].answer = a]
    BY <1>7 DEF ServerAnswers
  <2>2. TypedAnswer(a)
    BY <2>1, SnapshotTyped DEF ConsoleInv, TypesInv
  <2>3. old.at # "over"
    BY <1>7 DEF ServerAnswers
  <2> QED BY <1>5, <2>1, <2>2, <2>3
<1>8. ASSUME SendNext(n) PROVE SavesTyped'
  <2>1. /\ old.at = "answered" /\ old.next < Len(old.writes)
        /\ edits' = [edits EXCEPT ![n].at = "sent", ![n].next = @ + 1, ![n].key = session.key]
    BY <1>8 DEF SendNext
  <2>2. old.next + 1 \in DOMAIN old.writes
    <3>1. old.writes \in WritesOf(n) /\ old.next \in DOMAIN old.writes
      BY <1>3, <2>1 DEF TypedEdit, UnderWay
    <3>2. DOMAIN old.writes = 1..Len(old.writes) /\ Len(old.writes) \in Nat
      BY <3>1 DEF WritesOf
    <3> QED BY <2>1, <3>1, <3>2
  <2> DEFINE e == [old EXCEPT !.at = "sent", !.next = @ + 1, !.key = session.key]
  <2>3. edits' = [edits EXCEPT ![n] = e]
    BY <1>3, <2>1 DEF EditFields
  <2>4. /\ e.at = "sent" /\ e.next = old.next + 1 /\ e.writes = old.writes /\ e.rk = old.rk
        /\ e.runner = old.runner /\ e.answer = old.answer
    BY <1>3 DEF EditFields
  <2> HIDE DEF e
  <2>5. TypedEdit(n, e)
    BY <1>3, <2>1, <2>2, <2>4 DEF TypedEdit, UnderWay
  <2>6. e.at # "over" /\ old.at # "over"
    BY <2>1, <2>4
  <2> QED BY <1>1, <2>3, <2>4, <2>5, <2>6, SaveStaysTyped
<1>9. SavesTyped'
  BY <1>6, <1>7, <1>8
<1> QED BY <1>1, <1>2, <1>9, StillTyped, TypesByParts DEF ConsoleInv

LEMMA ConfirmedTyped ==
  ASSUME NEW st, NEW id, NEW a, IsStore(st), TypedStore(st), a.cfg \in Configs,
         a.mark \in ServerMarks
  PROVE  TypedStore(Confirm(st, id, a)) /\ TypedStore(AcceptConfirmed(st, a))
<1>1. DOMAIN st = StoreFields /\ ~(a.mark.rev < 0)
  BY DEF IsStore, ServerMarks
<1>2. TypedStore(Confirm(st, id, a))
  BY <1>1 DEF Confirm, TypedStore, StoreFields
<1>3. TypedStore(AcceptConfirmed(st, a))
  BY <1>1 DEF AcceptConfirmed, TypedStore, StoreFields
<1> QED BY <1>2, <1>3

LEMMA SaveEndsTyped ==
  ASSUME ConsoleInv, NEW n \in DOMAIN edits, SaveSucceeds(n) \/ SaveFails(n)
  PROVE  TypesInv'
<1> DEFINE old == edits[n]
<1>1. /\ UNCHANGED <<srv, all, phase, session>>
      /\ edits' = [edits EXCEPT ![n] = Over(@)]
      /\ depth' = IF Scoped(old) THEN depth - 1 ELSE depth
      /\ old.at = "answered"
  BY DEF SaveSucceeds, SaveFails, Finish
<1>2. DOMAIN old = EditFields /\ TypedEdit(n, old)
  BY FieldsOfEdit DEF ConsoleInv, TypesInv, TypedSaves
<1>3. IsStore(store) /\ TypedStore(store) /\ DOMAIN store = StoreFields
  BY DEF ConsoleInv, ClaimsInv, Holds, IsStore, TypesInv
<1>4. ServerTyped'
  BY <1>1, StillTyped DEF ServerStill, ConsoleInv
<1>5. RefreshesTyped'
  BY <1>1, DisturbTyped DEF SaveSucceeds, SaveFails, ConsoleInv, TypesInv, RefreshesTyped
<1>6. StoreTyped'
  <2>1. CASE SaveSucceeds(n)
    <3>1. IsConfig(old.answer) /\ old.answer.cfg \in Configs /\ old.answer.mark \in ServerMarks
      BY <1>2, <2>1 DEF SaveSucceeds, TypedEdit, TypedAnswer, ConsoleInv, ClaimsInv, AreEdits,
         IsEdit, Heard, Told
    <3>2. store' = Confirm(store, old.id, old.answer) \/ store' = store
      BY <2>1 DEF SaveSucceeds
    <3> QED BY <1>3, <3>1, <3>2, ConfirmedTyped DEF StoreTyped
  <2>2. CASE SaveFails(n)
    <3>1. store'.confirmed = store.confirmed
      BY <1>3, <2>2 DEF SaveFails, Reject, StoreFields
    <3> QED BY <3>1, StillTyped DEF StoreStill, ConsoleInv
  <2> QED BY <2>1, <2>2
<1>7. TypedPage'
  <2>1. CASE SaveSucceeds(n)
    <3>1. timer' \in {"off", "side", "all"}
      BY <2>1 DEF SaveSucceeds, Schedule, ConsoleInv, TypesInv, TypedPage
    <3>2. dirty' \in BOOLEAN
      BY <2>1 DEF SaveSucceeds, ConsoleInv, TypesInv, TypedPage
    <3>3. editor'.list \subseteq Models
      BY <2>1 DEF SaveSucceeds, ConsoleInv, TypesInv, TypedPage, Closed
    <3> QED BY <1>1, <3>1, <3>2, <3>3 DEF ConsoleInv, TypesInv, TypedPage
  <2>2. CASE SaveFails(n)
    BY <2>2, StillTyped DEF SaveFails, PageStill, ConsoleInv
  <2> QED BY <2>1, <2>2
<1>8. SavesTyped'
  <2> DEFINE e == Over(old)
  <2>1. e.at = "over" /\ e.answer = Failed
    BY <1>2 DEF Over, EditFields
  <2>2. TypedEdit(n, e)
    BY <2>1, TypedRefusals DEF TypedEdit, UnderWay
  <2>3. PICK E : edits \in Seq(E)
    BY DEF ConsoleInv, ClaimsInv, AreEdits
  <2>4. edits' = [edits EXCEPT ![n] = e]
    BY <1>1
  <2> HIDE DEF e
  <2>5. /\ Len(edits') = Len(edits) /\ DOMAIN edits' = DOMAIN edits /\ edits'[n] = e
        /\ \A m \in DOMAIN edits \ {n} : edits'[m] = edits[m]
    BY <2>3, <2>4
  <2>6. TypedSaves(edits')
    BY <2>2, <2>5 DEF ConsoleInv, TypesInv, TypedSaves
  <2>7. old.at # "over"
    BY <1>1
  <2>8. depth' = Cardinality(OpenScopes(edits'))
    <3>1. Cardinality(OpenScopes([edits EXCEPT ![n] = e]))
            = IF Scoped(old) THEN Cardinality(OpenScopes(edits)) - 1
              ELSE Cardinality(OpenScopes(edits))
      BY <2>1, <2>3, <2>7, ScopeCloses
    <3>2. depth = Cardinality(OpenScopes(edits))
      BY DEF ConsoleInv, TypesInv
    <3> HIDE DEF old
    <3> QED BY <1>1, <2>4, <3>1, <3>2
  <2> QED BY <2>6, <2>8 DEF SavesTyped
<1> QED BY <1>4, <1>5, <1>6, <1>7, <1>8, TypesByParts

LEMMA TakeTyped ==
  ASSUME ConsoleInv, NEW a, Take(a), IsConfig(a), Heard(srv, a), TypedAnswer(a)
  PROVE  StoreTyped' /\ phase' = "ready"
<1>1. a.cfg \in Configs /\ a.mark \in ServerMarks
  BY DEF Heard, Told, TypedAnswer
<1>2. IsStore(store) /\ TypedStore(store)
  BY DEF ConsoleInv, ClaimsInv, Holds, TypesInv
<1> QED BY <1>1, <1>2, ConfirmedTyped DEF Take, StoreTyped

LEMMA StaticTyped ==
  ASSUME ConsoleInv, TimerFires \/ ServerAnswersStatic \/ StaticArrives
  PROVE  TypesInv'
<1>1. TypedRefresh(static) /\ TypedRefresh(all) /\ TypedPage /\ session.key \in Nat
  BY DEF ConsoleInv, TypesInv, TypedPage
<1>2. CASE TimerFires
  <2>1. ServerStill /\ StoreStill /\ SavesStill /\ UNCHANGED <<all, session, dirty, editor>>
    BY <1>2 DEF TimerFires, serverVars, formVars, ServerStill, StoreStill, SavesStill
  <2>2. TypedPage'
    BY <1>1, <1>2, <2>1 DEF TimerFires, TypedPage
  <2>3. TypedRefresh(static')
    <3>1. (timer = "all") \in BOOLEAN
      OBVIOUS
    <3> QED BY <1>1, <1>2, <3>1, RequestsTyped, RefreshTyped DEF TimerFires
  <2> QED BY <1>1, <2>1, <2>2, <2>3, StillTyped, TypesByParts DEF RefreshesTyped, ConsoleInv
<1>3. CASE ServerAnswersStatic
  <2>1. StoreStill /\ SavesStill /\ PageStill /\ UNCHANGED all
    BY <1>3 DEF ServerAnswersStatic, viewVars, formVars, StoreStill, SavesStill, PageStill
  <2>2. TypedRefresh(static') /\ TypedServer(srv')
    BY <1>1, <1>3, ReadTyped DEF ServerAnswersStatic, ConsoleInv, TypesInv
  <2> QED
    BY <1>1, <2>1, <2>2, StillTyped, TypesByParts DEF RefreshesTyped, ServerTyped, ConsoleInv
<1>4. CASE StaticArrives
  <2>1. ServerStill /\ SavesStill /\ UNCHANGED <<all, session, timer, dirty, editor>>
    BY <1>4 DEF StaticArrives, formVars, ServerStill, SavesStill
  <2>2. TypedRefresh(static')
    BY <1>1, <1>4, RequestsTyped DEF StaticArrives
  <2>3. StoreTyped' /\ phase' \in {"idle", "loading", "ready", "error"}
    <3>1. CASE IsConfig(static.answer) /\ Take(static.answer)
      BY <1>1, <3>1, TakeTyped DEF TypedRefresh, ConsoleInv, ClaimsInv, IsRefresh
    <3>2. CASE UNCHANGED store /\ (phase' = "error" \/ UNCHANGED phase)
      BY <1>1, <3>2, StillTyped DEF StoreStill, TypedPage, ConsoleInv
    <3> QED BY <1>4, <3>1, <3>2 DEF StaticArrives, Keep
  <2>4. TypedPage'
    BY <1>1, <2>1, <2>3 DEF TypedPage
  <2> QED BY <1>1, <2>1, <2>2, <2>3, <2>4, StillTyped, TypesByParts DEF RefreshesTyped, ConsoleInv
<1> QED BY <1>2, <1>3, <1>4

LEMMA OrphansTyped ==
  ASSUME ConsoleInv, edits' = Orphaned, UNCHANGED depth
  PROVE  SavesTyped'
<1>1. PICK E : edits \in Seq(E)
  BY DEF ConsoleInv, ClaimsInv, AreEdits
<1>2. Len(edits) \in Nat /\ DOMAIN edits = 1..Len(edits)
  BY <1>1
<1> DEFINE F == {edits'[n] : n \in DOMAIN edits}
<1>3. edits' \in [1..Len(edits) -> F]
  BY <1>2 DEF Orphaned
<1>4. Len(edits') = Len(edits) /\ DOMAIN edits' = DOMAIN edits
  BY <1>2, <1>3
<1>5. ASSUME NEW n \in DOMAIN edits
      PROVE  /\ edits'[n].at = edits[n].at /\ edits'[n].runner = edits[n].runner
             /\ TypedEdit(n, edits'[n])
  <2>1. TypedEdit(n, edits[n]) /\ DOMAIN edits[n] = EditFields
    BY FieldsOfEdit DEF ConsoleInv, TypesInv, TypedSaves
  <2>2. CASE edits[n].at = "over"
    BY <2>1, <2>2 DEF Orphaned
  <2>3. CASE edits[n].at # "over"
    <3> DEFINE e == edits[n]
    <3>1. edits'[n] = [e EXCEPT !.orphan = TRUE]
      BY <2>3 DEF Orphaned
    <3> HIDE DEF e
    <3> QED BY <2>1, <3>1 DEF TypedEdit, UnderWay, EditFields, e
  <2> QED BY <2>2, <2>3
<1>6. TypedSaves(edits')
  BY <1>4, <1>5 DEF ConsoleInv, TypesInv, TypedSaves
<1>7. OpenScopes(edits') = OpenScopes(edits)
  BY <1>4, <1>5, ScopesStay
<1> QED BY <1>6, <1>7 DEF ConsoleInv, TypesInv, SavesTyped

LEMMA AllTyped ==
  ASSUME ConsoleInv, ServerAnswersAll \/ AllArrives \/ PressRefresh
  PROVE  TypesInv'
<1>1. TypedRefresh(static) /\ TypedRefresh(all) /\ TypedPage /\ session.key \in Nat
  BY DEF ConsoleInv, TypesInv, TypedPage
<1>2. CASE ServerAnswersAll
  <2>1. StoreStill /\ SavesStill /\ PageStill /\ UNCHANGED static
    BY <1>2 DEF ServerAnswersAll, viewVars, formVars, StoreStill, SavesStill, PageStill
  <2>2. TypedRefresh(all') /\ TypedServer(srv')
    BY <1>1, <1>2, ReadTyped DEF ServerAnswersAll, ConsoleInv, TypesInv
  <2> QED
    BY <1>1, <2>1, <2>2, StillTyped, TypesByParts DEF RefreshesTyped, ServerTyped, ConsoleInv
<1>3. CASE PressRefresh
  <2>1. /\ ServerStill /\ StoreStill /\ SavesStill
        /\ UNCHANGED <<static, session, timer, dirty, editor>>
    BY <1>3 DEF PressRefresh, Keep, formVars, ServerStill, StoreStill, SavesStill
  <2>2. TypedPage'
    BY <1>1, <1>3, <2>1 DEF PressRefresh, Keep, TypedPage
  <2>3. TypedRefresh(all')
    <3>1. RefreshAll(TRUE) /\ session'.key \in Nat
      BY <1>1, <1>3, <2>1 DEF PressRefresh
    <3> QED BY <1>1, <3>1, RefreshAllTyped
  <2> QED BY <1>1, <2>1, <2>2, <2>3, StillTyped, TypesByParts DEF RefreshesTyped, ConsoleInv
<1>4. CASE AllArrives
  <2>1. ServerStill /\ UNCHANGED <<static, depth, timer, dirty, editor>>
    BY <1>4 DEF AllArrives, formVars, ServerStill
  <2>2. CASE LoggedOut
    <3>1. StoreTyped'
      BY <2>2 DEF LoggedOut, Clear, EmptyStore, StoreTyped, TypedStore
    <3>2. SavesTyped'
      BY <2>1, <2>2, OrphansTyped DEF LoggedOut
    <3>3. session'.key = 0 /\ session'.checking = session.checking
      BY <2>2 DEF LoggedOut, ConsoleInv, SavesInv, SessionOK
    <3>4. TypedPage'
      BY <1>1, <2>1, <2>2, <3>3 DEF LoggedOut, TypedPage
    <3>5. TypedRefresh(all')
      BY <1>4, <3>3, RequestsTyped DEF AllArrives
    <3> QED BY <1>1, <2>1, <3>1, <3>2, <3>4, <3>5, StillTyped, TypesByParts
            DEF RefreshesTyped, ConsoleInv
  <2>3. CASE /\ UNCHANGED <<session, edits>>
             /\ \/ IsConfig(all.answer) /\ Take(all.answer)
                \/ UNCHANGED store /\ (phase' = "error" \/ UNCHANGED phase)
    <3>1. SavesStill
      BY <2>1, <2>3 DEF SavesStill
    <3>2. StoreTyped' /\ phase' \in {"idle", "loading", "ready", "error"}
      <4>1. CASE IsConfig(all.answer) /\ Take(all.answer)
        BY <1>1, <4>1, TakeTyped DEF TypedRefresh, ConsoleInv, ClaimsInv, IsRefresh
      <4>2. CASE UNCHANGED store /\ (phase' = "error" \/ UNCHANGED phase)
        BY <1>1, <4>2, StillTyped DEF StoreStill, TypedPage, ConsoleInv
      <4> QED BY <2>3, <4>1, <4>2
    <3>3. TypedPage'
      BY <1>1, <2>1, <2>3, <3>2 DEF TypedPage
    <3>4. TypedRefresh(all')
      <4>1. session'.key \in Nat /\ all.loud \in BOOLEAN
        BY <1>1, <2>3 DEF TypedRefresh, RefreshTypes
      <4> QED BY <1>4, <4>1, RequestsTyped DEF AllArrives
    <3> QED BY <1>1, <2>1, <3>1, <3>2, <3>3, <3>4, StillTyped, TypesByParts
            DEF RefreshesTyped, ConsoleInv
  <2> QED BY <1>4, <2>2, <2>3 DEF AllArrives, Keep
<1> QED BY <1>2, <1>3, <1>4

LEMMA SessionsTyped ==
  ASSUME ConsoleInv, SubmitKey \/ KeyChecked
  PROVE  TypesInv'
<1>1. TypedRefresh(static) /\ TypedRefresh(all) /\ TypedPage /\ session.key \in Nat
      /\ session.checking \in Nat /\ srv.key \in Nat
      /\ DOMAIN session = {"key", "checking", "open"}
  BY DEF ConsoleInv, TypesInv, TypedPage, TypedServer, SavesInv, SessionOK
<1>2. CASE SubmitKey
  <2>1. /\ ServerStill /\ StoreStill /\ SavesStill /\ RefreshesStill
        /\ UNCHANGED <<phase, timer, dirty, editor>>
    BY <1>2 DEF SubmitKey, serverVars, viewVars, formVars, ServerStill, StoreStill, SavesStill,
                RefreshesStill
  <2>2. session'.key \in Nat /\ session'.checking \in Nat
    BY <1>1, <1>2 DEF SubmitKey
  <2>3. TypedPage'
    BY <1>1, <2>1, <2>2 DEF TypedPage
  <2> QED BY <2>1, <2>3, StillTyped, TypesByParts DEF ConsoleInv
<1>3. CASE KeyChecked
  <2>1. /\ ServerStill /\ UNCHANGED <<depth, editor, timer>>
        /\ TypedRefresh(static')
    BY <1>1, <1>3, DisturbTyped DEF KeyChecked, serverVars, ServerStill
  <2>2. ASSUME session' = [session EXCEPT !.checking = 0, !.open = TRUE],
               phase' = "ready" \/ phase' = "loading", dirty' = FALSE,
               UNCHANGED <<store, edits>>, RefreshAll(FALSE)
        PROVE  TypesInv'
    <3>1. session'.key \in Nat /\ session'.checking \in Nat
      BY <1>1, <2>2
    <3>2. TypedPage'
      BY <1>1, <2>1, <2>2, <3>1 DEF TypedPage
    <3>3. TypedRefresh(all')
      BY <1>1, <2>2, <3>1, RefreshAllTyped
    <3>4. StoreStill /\ SavesStill
      BY <2>1, <2>2 DEF StoreStill, SavesStill
    <3> QED BY <2>1, <3>2, <3>3, <3>4, StillTyped, TypesByParts DEF RefreshesTyped, ConsoleInv
  <2>3. ASSUME session' = [session EXCEPT !.checking = 0, !.key = 0], phase' = "idle",
               store' = Clear(store), edits' = Orphaned, UNCHANGED <<all, dirty>>
        PROVE  TypesInv'
    <3>1. session'.key \in Nat /\ session'.checking \in Nat
      BY <1>1, <2>3
    <3>2. TypedPage'
      BY <1>1, <2>1, <2>3, <3>1 DEF TypedPage
    <3>3. StoreTyped'
      BY <2>3 DEF Clear, EmptyStore, StoreTyped, TypedStore
    <3>4. SavesTyped'
      BY <2>1, <2>3, OrphansTyped
    <3>5. TypedRefresh(all')
      BY <1>1, <2>3
    <3> QED BY <2>1, <3>2, <3>3, <3>4, <3>5, StillTyped, TypesByParts DEF RefreshesTyped, ConsoleInv
  <2> QED BY <1>3, <2>2, <2>3 DEF KeyChecked
<1> QED BY <1>2, <1>3

LEMMA QuietTyped ==
  ASSUME ConsoleInv,
         OpenEditor \/ CloseEditor \/ Type \/ Leave \/ ForeignChange \/ ForeignKey
           \/ UNCHANGED vars
  PROVE  TypesInv'
<1>1. StoreStill /\ SavesStill /\ UNCHANGED <<session, phase, timer, all>>
  BY DEF OpenEditor, CloseEditor, Type, Leave, ForeignChange, ForeignKey, vars, viewVars,
         formVars, StoreStill, SavesStill
<1>2. TypedRefresh(static) /\ TypedRefresh(all) /\ TypedPage
  BY DEF ConsoleInv, TypesInv
<1>3. ServerTyped'
  <2>1. CASE ForeignChange \/ ForeignKey
    BY <2>1, WorldTyped DEF ServerTyped
  <2>2. CASE ~(ForeignChange \/ ForeignKey)
    <3>1. ServerStill
      BY <2>2 DEF OpenEditor, CloseEditor, Type, Leave, vars, serverVars, ServerStill
    <3> QED BY <3>1, StillTyped DEF ConsoleInv
  <2> QED BY <2>1, <2>2
<1>4. RefreshesTyped'
  <2>1. CASE Type \/ Leave
    <3>1. Disturb
      BY <2>1 DEF Type, Leave
    <3> QED BY <1>1, <1>2, <3>1, DisturbTyped DEF RefreshesTyped
  <2>2. CASE ~(Type \/ Leave)
    <3>1. UNCHANGED static
      BY <2>2 DEF OpenEditor, CloseEditor, ForeignChange, ForeignKey, vars
    <3> QED BY <1>1, <1>2, <3>1 DEF RefreshesTyped
  <2> QED BY <2>1, <2>2
<1>5. TypedPage'
  <2>1. dirty' \in BOOLEAN
    BY <1>2 DEF OpenEditor, CloseEditor, Type, Leave, ForeignChange, ForeignKey, vars,
       formVars, TypedPage
  <2>2. editor'.list \subseteq Models
    <3>1. CASE OpenEditor
      <4>1. shown \in Configs /\ editor'.list = shown.static
        BY <3>1, ShownTyped DEF OpenEditor
      <4> QED BY <4>1 DEF Configs
    <3>2. CASE CloseEditor
      BY <3>2 DEF CloseEditor, Closed
    <3>3. CASE ~(OpenEditor \/ CloseEditor)
      <4>1. UNCHANGED editor
        BY <3>3 DEF Type, Leave, ForeignChange, ForeignKey, vars, formVars
      <4> QED BY <1>2, <4>1 DEF TypedPage
    <3> QED BY <3>1, <3>2, <3>3
  <2> QED BY <1>1, <1>2, <2>1, <2>2 DEF TypedPage
<1> QED BY <1>1, <1>3, <1>4, <1>5, StillTyped, TypesByParts DEF ConsoleInv

LEMMA RestartTyped ==
  ASSUME ConsoleInv, Restart
  PROVE  TypesInv'
<1>1. StoreStill /\ PageStill /\ UNCHANGED depth
  BY DEF Restart, viewVars, formVars, StoreStill, PageStill
<1>2. ServerTyped'
  BY WorldTyped DEF ServerTyped
<1>3. RefreshesTyped'
  BY RefreshTyped DEF Restart, ConsoleInv, TypesInv, RefreshesTyped
<1>4. PICK E : edits \in Seq(E)
  BY DEF ConsoleInv, ClaimsInv, AreEdits
<1>5. Len(edits) \in Nat /\ DOMAIN edits = 1..Len(edits)
  BY <1>4
<1> DEFINE F == {edits'[n] : n \in DOMAIN edits}
<1>6. edits' \in [1..Len(edits) -> F]
  BY <1>5 DEF Restart
<1>7. Len(edits') = Len(edits) /\ DOMAIN edits' = DOMAIN edits
  BY <1>5, <1>6
<1>8. ASSUME NEW n \in DOMAIN edits
      PROVE  /\ edits'[n].at = "over" <=> edits[n].at = "over"
             /\ edits'[n].runner = edits[n].runner
             /\ TypedEdit(n, edits'[n])
  <2> DEFINE e == edits[n]
  <2>1. TypedEdit(n, e) /\ DOMAIN e = EditFields
    BY FieldsOfEdit DEF ConsoleInv, TypesInv, TypedSaves
  <2>2. edits'[n] = Cut(e)
    BY DEF Restart
  <2> HIDE DEF e
  <2>3. /\ Cut(e).at = "over" <=> e.at = "over"
        /\ Cut(e).runner = e.runner
        /\ TypedEdit(n, Cut(e))
    BY <2>1, TypedRefusals DEF TypedEdit, UnderWay, EditFields, Cut
  <2> QED BY <2>2, <2>3 DEF e
<1>9. TypedSaves(edits')
  BY <1>7, <1>8 DEF ConsoleInv, TypesInv, TypedSaves
<1>10. OpenScopes(edits') = OpenScopes(edits)
  BY <1>7, <1>8, ScopesStay
<1>11. SavesTyped'
  BY <1>1, <1>9, <1>10 DEF ConsoleInv, TypesInv, SavesTyped
<1> QED BY <1>1, <1>2, <1>3, <1>11, StillTyped, TypesByParts DEF ConsoleInv

LEMMA LoseTyped ==
  ASSUME ConsoleInv, Lose
  PROVE  TypesInv'
<1>1. ServerStill /\ StoreStill /\ PageStill /\ UNCHANGED <<static, depth>>
  BY DEF Lose, viewVars, formVars, ServerStill, StoreStill, PageStill
<1>2. TypedRefresh(static) /\ TypedRefresh(all)
  BY DEF ConsoleInv, TypesInv
<1>3. ASSUME NEW n \in DOMAIN edits, edits[n].at = "answered",
             edits' = [edits EXCEPT ![n].answer = Failed]
      PROVE  SavesTyped'
  <2> DEFINE old == edits[n]
             e == [old EXCEPT !.answer = Failed]
  <2>1. TypedEdit(n, old) /\ DOMAIN old = EditFields
    BY FieldsOfEdit DEF ConsoleInv, TypesInv, TypedSaves
  <2>2. edits' = [edits EXCEPT ![n] = e]
    BY <1>3
  <2>3. TypedEdit(n, e) /\ e.at = old.at /\ e.runner = old.runner
    BY <2>1, TypedRefusals DEF TypedEdit, UnderWay, EditFields
  <2> HIDE DEF e
  <2>4. e.at # "over" /\ old.at # "over"
    BY <1>3, <2>3
  <2> QED BY <1>1, <2>2, <2>3, <2>4, SaveStaysTyped
<1>4. CASE UNCHANGED all /\ SavesTyped'
  BY <1>1, <1>2, <1>4, StillTyped, TypesByParts DEF RefreshesTyped, ConsoleInv
<1>5. CASE all' = [all EXCEPT !.answer = Failed] /\ UNCHANGED edits
  <2>1. TypedRefresh(all')
    BY <1>2, <1>5, RefreshTyped, TypedRefusals
  <2>2. SavesStill
    BY <1>1, <1>5 DEF SavesStill
  <2> QED BY <1>1, <1>2, <2>1, <2>2, StillTyped, TypesByParts DEF RefreshesTyped, ConsoleInv
<1> QED BY <1>3, <1>4, <1>5 DEF Lose

LEMMA TypesStart == Init => TypesInv
<1> SUFFICES ASSUME Init PROVE TypesInv
  OBVIOUS
<1> DEFINE g == CHOOSE g \in Groups : TRUE
<1>1. /\ srv = [cfg |-> FirstConfig(g), before |-> FirstConfig(g),
                mark |-> Mark(1, 0), key |-> 1, torn |-> FALSE]
      /\ store = EmptyStore(1) /\ phase = "idle"
      /\ session = [key |-> 0, checking |-> 0, open |-> FALSE]
      /\ edits = << >> /\ depth = 0 /\ dirty = FALSE /\ editor = Closed
      /\ timer = "off" /\ static = Resting /\ all = Resting
  BY DEF Init
<1>2. MaxEdits \in Nat /\ Declared \subseteq Models
  BY ContentAssumption
<1>3. FirstConfig(g) \in Configs
  <2> DEFINE K == [id : KeyIds, proxy : 0..MaxEdits]
             ks == << Key(FirstKeys[1], NoProxy), Key(FirstKeys[2], NoProxy) >>
  <2>1. Key(101, NoProxy) \in K /\ Key(102, NoProxy) \in K
    <3>1. 101 \in KeyIds /\ 102 \in KeyIds
      <4>1. Len(FirstKeys) = 2 /\ FirstKeys[1] = 101 /\ FirstKeys[2] = 102
        BY DEF FirstKeys
      <4>2. DOMAIN FirstKeys = 1..2
        BY DEF FirstKeys
      <4>3. 101 \in Range(FirstKeys) /\ 102 \in Range(FirstKeys)
        BY <4>1, <4>2 DEF Range
      <4> QED BY <4>3 DEF KeyIds
    <3>2. 0 \in 0..MaxEdits
      BY <1>2
    <3> QED BY <3>1, <3>2 DEF Key, NoProxy
  <2>2. ks = << Key(101, NoProxy), Key(102, NoProxy) >>
    BY DEF FirstKeys
  <2>3. ks \in Seq(K)
    <3> HIDE DEF K, ks
    <3> QED BY <2>1, <2>2
  <2>4. [i \in Groups |-> IF i = g THEN 0 ELSE Absent] \in [Groups -> {Absent} \cup 0..MaxEdits]
    BY <1>2
  <2>5. [k \in Knobs |-> 0] \in [Knobs -> 0..Foreign]
    BY <1>2 DEF Foreign
  <2> HIDE DEF g, ks
  <2>6. FirstConfig(g) = [knob |-> [k \in Knobs |-> 0], static |-> Declared, keys |-> ks,
                          group |-> [i \in Groups |-> IF i = g THEN 0 ELSE Absent]]
    BY DEF FirstConfig, ks
  <2> QED BY <1>2, <2>3, <2>4, <2>5, <2>6 DEF Configs
<1> HIDE DEF g
<1>4. TypedServer(srv)
  BY <1>1, <1>3 DEF TypedServer
<1>5. TypedStore(store)
  BY <1>1 DEF EmptyStore, TypedStore
<1>6. TypedRefresh(static) /\ TypedRefresh(all)
  BY <1>1, RequestsTyped
<1>7. Len(edits) = 0 /\ DOMAIN edits = {}
  BY <1>1
<1>8. TypedSaves(edits)
  BY <1>2, <1>7 DEF TypedSaves
<1>9. TypedPage
  BY <1>1 DEF TypedPage, Closed
<1>10. depth = Cardinality(OpenScopes(edits))
  <2>1. OpenScopes(edits) = {}
    BY <1>7 DEF OpenScopes
  <2> QED BY <1>1, <2>1, FS_EmptySet
<1> QED BY <1>4, <1>5, <1>6, <1>8, <1>9, <1>10 DEF TypesInv

LEMMA TypesStep == ConsoleInv /\ [Next]_vars => TypesInv'
<1> SUFFICES ASSUME ConsoleInv, [Next]_vars PROVE TypesInv'
  OBVIOUS
<1>1. CASE FlipSwitch \/ SubmitForm \/ SubmitPolicy \/ PressButton \/ SubmitEditor
  <2>1. PICK e, types, b : types \in BOOLEAN /\ Offered(e, Next1) /\ Save(e, types, b)
    BY <1>1, BegunAsOffered
  <2> QED BY <2>1, SaveBeginsTyped
<1>2. ASSUME NEW n \in DOMAIN edits, SaveStep(n) PROVE TypesInv'
  BY <1>2, ServerHandlesTyped, SaveEndsTyped DEF SaveStep
<1> QED
  BY <1>1, <1>2, StaticTyped, AllTyped, SessionsTyped, QuietTyped, RestartTyped, LoseTyped
     DEF Next, OperatorStep, NetworkStep, WorldStep

(* Claims, saves and types hold together: what the other proofs start from.    *)
LEMMA ConsoleHolds == Spec => []ConsoleInv
<1>1. Init => ConsoleInv
  BY ClaimsStart, SavesStart, TypesStart DEF ConsoleInv
<1>2. ConsoleInv /\ [Next]_vars => ConsoleInv'
  BY ClaimsStep, SavesStep, TypesStep DEF ConsoleInv
<1> QED BY <1>1, <1>2, PTL DEF Spec

(* The state keeps its types, what the screen shows is always a whole          *)
(* configuration (or none), and the coordinator's depth is exactly the number  *)
(* of saves under way that opened a mutation scope: no path through a save, a  *)
(* logout or a restart leaves a scope open or closes one twice.                *)
THEOREM ConfigTypeCorrect == Spec => []ConfigTypeOK
<1>1. ConsoleInv => ConfigTypeOK
  <2> SUFFICES ASSUME ConsoleInv PROVE ConfigTypeOK
    OBVIOUS
  <2>1. srv.mark \in Marks /\ store.mark \in Marks
    BY ServerMarksAreMarks DEF ConsoleInv, ClaimsInv, IsServer, Holds, IsStore
  <2>2. srv.cfg \in Configs /\ srv.before \in Configs
    BY DEF ConsoleInv, TypesInv, TypedServer
  <2>3. store.confirmed \in Configs \cup {NothingYet}
    BY DEF ConsoleInv, TypesInv, TypedStore
  <2>4. static \in RefreshTypes /\ all \in RefreshTypes
    BY DEF ConsoleInv, TypesInv, TypedRefresh
  <2>5. /\ phase \in {"idle", "loading", "ready", "error"}
        /\ timer \in {"off", "side", "all"} /\ dirty \in BOOLEAN
    BY DEF ConsoleInv, TypesInv, TypedPage
  <2>6. depth = Cardinality({n \in DOMAIN edits : edits[n].at # "over" /\ Scoped(edits[n])})
    BY DEF ConsoleInv, TypesInv, OpenScopes
  <2> QED BY <2>1, <2>2, <2>3, <2>4, <2>5, <2>6, ShownTyped DEF ConfigTypeOK
<1> QED BY <1>1, ConsoleHolds, PTL

-----------------------------------------------------------------------------
(* What a save under way shows. The preview of save n changes a block that is  *)
(* saved as a value to n, or not at all.                                       *)
LEMMA KnobOfWrite ==
  ASSUME NEW c \in Configs, NEW n \in EditIds, NEW w \in SingleWrites(n), NEW k \in Knobs
  PROVE  /\ PreviewWrite(c, w).knob[k] \in {c.knob[k], n}
         /\ w.op = "knob" /\ w.k = k => PreviewWrite(c, w).knob[k] = n
<1>1. DOMAIN c = {"knob", "static", "keys", "group"} /\ DOMAIN c.knob = Knobs
  BY DEF Configs
<1>2. CASE w.op = "knob" /\ w.k \in Knobs /\ w.v = n
  BY <1>1, <1>2 DEF PreviewWrite, ServerApply
<1>3. CASE w.op = "static" /\ w.ms \in SUBSET Models
  BY <1>1, <1>3 DEF PreviewWrite, ServerApply
<1>4. CASE w.op = "addKey" /\ w.v = n
  BY <1>1, <1>4 DEF PreviewWrite
<1>5. CASE w.op = "editKey" /\ w.i \in Nat /\ w.v = n
  BY <1>1, <1>5 DEF PreviewWrite, ServerApply
<1>6. CASE w.op = "deleteKey" /\ w.i \in Nat
  BY <1>6 DEF PreviewWrite
<1>7. CASE w.op = "group" /\ w.g \in Groups /\ w.v \in {Absent, n}
  BY <1>1, <1>7 DEF PreviewWrite, ServerApply
<1> QED BY <1>2, <1>3, <1>4, <1>5, <1>6, <1>7, KindsOfWrite

LEMMA KnobOfPreview ==
  ASSUME NEW c \in Configs, NEW n \in EditIds, NEW ws \in WritesOf(n), NEW k \in Knobs
  PROVE  /\ Preview(c, ws).knob[k] \in {c.knob[k], n}
         /\ ws[1].op = "knob" /\ ws[1].k = k => Preview(c, ws).knob[k] = n
<1>1. ASSUME NEW w \in SingleWrites(n), ws = << w >>
      PROVE  /\ Preview(c, ws).knob[k] \in {c.knob[k], n}
             /\ ws[1].op = "knob" /\ ws[1].k = k => Preview(c, ws).knob[k] = n
  <2>1. ws[1] = w /\ Preview(c, ws) = PreviewWrite(c, w)
    BY <1>1, PreviewOfOne
  <2> QED BY <2>1, KnobOfWrite
<1>2. ASSUME NEW g \in Groups, NEW h \in Groups,
             ws = << SetGroup(h, n), SetGroup(g, Absent) >>
      PROVE  /\ Preview(c, ws).knob[k] \in {c.knob[k], n}
             /\ ws[1].op = "knob" /\ ws[1].k = k => Preview(c, ws).knob[k] = n
  <2> DEFINE v == SetGroup(h, n)
             w == SetGroup(g, Absent)
             d == PreviewWrite(c, v)
  <2>1. v \in SingleWrites(n) /\ w \in SingleWrites(n)
    BY DEF SingleWrites
  <2>2. Preview(c, ws) = PreviewWrite(d, w)
    BY <1>2, PreviewOfTwo
  <2>3. ws[1] = v /\ v.op = "group"
    BY <1>2 DEF SetGroup
  <2> HIDE DEF v, w
  <2>4. d \in Configs /\ d.knob[k] \in {c.knob[k], n}
    BY <2>1, Previewed, KnobOfWrite
  <2> HIDE DEF d
  <2>5. PreviewWrite(d, w).knob[k] \in {d.knob[k], n}
    BY <2>1, <2>4, KnobOfWrite
  <2> QED BY <2>2, <2>3, <2>4, <2>5
<1> QED BY <1>1, <1>2 DEF WritesOf

LEMMA KnobsSaved ==
  ASSUME NEW n, NEW ws \in WritesOf(n), ws[1].op = "knob"
  PROVE  ws[1].k \in Knobs
<1>1. 1 \in DOMAIN ws
  BY DEF WritesOf
<1>2. ws[1] \in SingleWrites(n)
  BY <1>1, WriteTyped
<1> QED BY <1>2, KindsOfWrite

(* A value that is on its way stays on the screen until its own answer: only a *)
(* later save of the same block can be seen in its place.                      *)
THEOREM PendingEditsStayVisible == Spec => []PendingEditStaysVisible
<1>1. ASSUME ConsoleInv, NEW n \in DOMAIN edits, UnderWay(edits[n]),
             HasPending(store, edits[n].id), Showing, edits[n].writes[1].op = "knob"
      PROVE  shown.knob[edits[n].writes[1].k] \in n..Len(edits)
  <2> DEFINE q == store.pending
             c == store.confirmed
             k == edits[n].writes[1].k
             N == Len(edits)
  <2>1. edits[n].id = n
    BY <1>1, FieldsOfEdit DEF NumberedEdit, ConsoleInv
  <2>2. PICK j \in DOMAIN q : q[j].id = n
    BY <1>1, <2>1 DEF HasPending
  <2>3. PICK P : q \in Seq(P)
    BY <1>1 DEF ConsoleInv, SavesInv, SavesOK, PendingOK
  <2>4. Len(q) \in Nat /\ DOMAIN q = 1..Len(q) /\ j \in 1..Len(q)
    BY <2>2, <2>3
  <2>5. N \in Nat /\ DOMAIN edits = 1..N /\ n \in 1..N
    BY <1>1, EditNumbers DEF ConsoleInv, TypesInv
  <2>6. \A i \in DOMAIN q : Backed(q[i], edits) /\ q[i].id \in EditIds /\ q[i].writes \in WritesOf(q[i].id)
    BY <1>1, PendingTyped DEF ConsoleInv, SavesInv, SavesOK, PendingOK
  <2>7. \A i \in DOMAIN q : q[i].id \in 1..N
    BY <2>5, <2>6 DEF Backed
  <2>8. \A i \in DOMAIN q : i > j => q[i].id > n
    <3>1. Ascending(q)
      BY <1>1 DEF ConsoleInv, SavesInv, SavesOK, PendingOK
    <3> QED BY <2>2, <2>4, <2>7, <3>1 DEF Ascending
  <2>9. q[j].writes = edits[n].writes
    BY <2>2, <2>6 DEF Backed
  <2>10. k \in Knobs
    BY <1>1, <2>2, <2>6, <2>9, KnobsSaved
  <2>11. c \in Configs /\ shown = Laid(c, q)
    BY <1>1, ShownTyped DEF ConsoleInv, TypesInv, TypedStore, Filled
  <2>12. PICK f : IsLaying(f, c, q, Len(q)) /\ Laid(c, q) = f[Len(q)]
    BY <2>3, LaidIs
  <2>13. \A m \in 0..Len(q) : f[m] \in Configs
    BY <2>3, <2>6, <2>11, <2>12, LaidTyped
  <2>14. \A m \in 1..Len(q) : f[m] = Preview(f[m - 1], q[m].writes)
    <3> DEFINE M == Len(q)
    <3>1. f = [i \in 0..M |-> IF i = 0 THEN c ELSE Preview(f[i - 1], q[i].writes)]
      BY <2>12 DEF IsLaying
    <3>2. M \in Nat
      BY <2>4
    <3> HIDE DEF M, q, c
    <3>3. ASSUME NEW m \in 1..M PROVE f[m] = Preview(f[m - 1], q[m].writes)
      <4>1. m \in 0..M /\ m # 0
        BY <3>2
      <4>2. f[m] = IF m = 0 THEN c ELSE Preview(f[m - 1], q[m].writes)
        BY <3>1, <4>1
      <4> QED BY <4>1, <4>2
    <3> QED BY <3>3 DEF M
  <2> DEFINE T == {m \in j..Len(q) : f[m].knob[k] \notin n..N}
  <2>15. T = {}
    <3> SUFFICES ASSUME T # {} PROVE FALSE
      OBVIOUS
    <3>1. T \subseteq Nat
      BY <2>4
    <3>2. PICK m \in T : \A i \in T : m <= i
      <4> HIDE DEF T
      <4> QED BY <3>1, Smallest
    <3>3. m \in j..Len(q) /\ f[m].knob[k] \notin n..N /\ m - 1 \in 0..Len(q) /\ m \in DOMAIN q
      BY <2>4, <3>2
    <3>4. f[m - 1] \in Configs /\ f[m] = Preview(f[m - 1], q[m].writes)
      BY <2>4, <2>13, <2>14, <3>3
    <3>5. CASE m = j
      <4>1. f[m].knob[k] = n
        BY <1>1, <2>2, <2>6, <2>9, <2>10, <3>4, <3>5, KnobOfPreview
      <4> QED BY <2>5, <3>3, <4>1
    <3>6. CASE m # j
      <4>1. m - 1 \in j..Len(q) /\ ~(m <= m - 1) /\ m > j
        BY <2>4, <3>3, <3>6
      <4>2. f[m - 1].knob[k] \in n..N
        BY <3>2, <4>1
      <4>3. q[m].id \in n..N
        BY <2>5, <2>7, <2>8, <3>3, <4>1
      <4>4. f[m].knob[k] \in {f[m - 1].knob[k], q[m].id}
        BY <2>6, <2>10, <3>3, <3>4, KnobOfPreview
      <4> QED BY <3>3, <4>2, <4>3, <4>4
    <3> QED BY <3>5, <3>6
  <2>16. Len(q) \in j..Len(q)
    BY <2>4
  <2> QED BY <2>11, <2>12, <2>15, <2>16
<1>2. ConsoleInv => PendingEditStaysVisible
  BY <1>1 DEF PendingEditStaysVisible
<1> QED BY <1>2, ConsoleHolds, PTL

-----------------------------------------------------------------------------
(* Agreement. A store without a configuration has no mark and no edits.        *)
StoreOK == ~Filled(store) => store.mark = Mark(NoMark, NoMark) /\ store.pending = << >>

(* The argument is made twice: for the configuration as a whole, and for the   *)
(* ids of its keys, which only the saves that add or delete one change.        *)
KeyNames(ks) == [i \in DOMAIN ks |-> ks[i].id]

Kinds == {"whole", "names"}
Part(k, c) == IF k = "names" THEN KeyNames(c.keys) ELSE c

(* There is a mark L since which the server has not changed its configuration  *)
(* (or its key ids). Whatever is known under a mark from L on is as there ...  *)
Fits(k, a, c, L) == IsConfig(a) /\ NotOlder(a.mark, L) => Part(k, a.cfg) = Part(k, c)

Since(k, L) ==
  /\ NotOlder(srv.mark, L)
  /\ Filled(store) /\ NotOlder(store.mark, L) => Part(k, store.confirmed) = Part(k, srv.cfg)
  /\ Fits(k, static.answer, srv.cfg, L) /\ Fits(k, all.answer, srv.cfg, L)
  /\ \A n \in DOMAIN edits : Fits(k, edits[n].answer, srv.cfg, L)

(* ... and the store holds it, or a save has yet to bring it (or to fail       *)
(* halfway), or nothing is held and no answer that will be taken is older.     *)
Caught(L) == Filled(store) /\ NotOlder(store.mark, L)

RenamesKeys(e) == e.writes[1].op \in {"addKey", "deleteKey"}

Covers(k, e, L) ==
  /\ k = "names" => RenamesKeys(e)
  /\ \/ e.at = "committed"
     \/ e.at = "sent" /\ e.next # 1
     \/ e.at = "answered" /\ IsConfig(e.answer)
          /\ (e.next # Len(e.writes) \/ NotOlder(e.answer.mark, L))
     \/ e.at = "answered" /\ ~IsConfig(e.answer) /\ e.next # 1

Covered(k, L) == \E n \in DOMAIN edits : Covers(k, edits[n], L)

Coming(r)  == r.at = "answered" /\ r.fetch /\ IsConfig(r.answer)
Welcome(r) == Coming(r) /\ ~r.disturbed

Waiting(L) ==
  /\ ~Filled(store)
  /\ Welcome(static) => NotOlder(static.answer.mark, L)
  /\ Coming(all) => NotOlder(all.answer.mark, L)

View(k, L) == Since(k, L) /\ (Caught(L) \/ Covered(k, L) \/ Waiting(L))

Viewing == ~missed /\ ~srv.torn => \A k \in Kinds : \E L \in ServerMarks : View(k, L)

(* Marks of the server are in one order.                                       *)
LEMMA MarkOrder ==
  ASSUME NEW a \in ServerMarks, NEW b \in ServerMarks, NEW c \in ServerMarks
  PROVE  /\ NotOlder(a, a)
         /\ NotOlder(a, b) /\ NotOlder(b, c) => NotOlder(a, c)
         /\ NotOlder(a, b) /\ NotOlder(b, a) => a = b
BY DEF ServerMarks, NotOlder

(* How an answer follows from what was there before the step: it is the same,  *)
(* it says nothing, or it is what the server says now.                         *)
Follows(r, q) ==
  \/ q.answer = r.answer /\ (Welcome(q) => Welcome(r)) /\ (Coming(q) => Coming(r))
  \/ ~IsConfig(q.answer)
  \/ q.answer = Answer(srv.cfg, srv.mark)

EditsFollow ==
  \A n \in DOMAIN edits' :
    \/ n \in DOMAIN edits /\ edits'[n].answer = edits[n].answer
    \/ ~IsConfig(edits'[n].answer)
    \/ edits'[n].answer = Answer(srv.cfg, srv.mark)

AnswersFollow == Follows(static, static') /\ Follows(all, all') /\ EditsFollow

CoversStay(k, L) ==
  \A n \in DOMAIN edits :
    Covers(k, edits[n], L) => n \in DOMAIN edits' /\ Covers(k, edits'[n], L)

ServerKeeps(k) ==
  /\ Part(k, srv'.cfg) = Part(k, srv.cfg)
  /\ \A L \in ServerMarks : NotOlder(srv.mark, L) => NotOlder(srv'.mark, L)

ServerStays ==
  /\ srv'.cfg = srv.cfg /\ (srv.torn => srv'.torn)
  /\ \A L \in ServerMarks : NotOlder(srv.mark, L) => NotOlder(srv'.mark, L)

StoreStays == store'.confirmed = store.confirmed /\ store'.mark = store.mark

LEMMA SinceCarried ==
  ASSUME NEW k \in Kinds, NEW L \in ServerMarks, Since(k, L), ServerKeeps(k), AnswersFollow,
         Filled(store') /\ NotOlder(store'.mark, L) => Part(k, store'.confirmed) = Part(k, srv.cfg)
  PROVE  Since(k, L)'
<1>1. NotOlder(srv'.mark, L) /\ Part(k, srv'.cfg) = Part(k, srv.cfg)
  BY DEF Since, ServerKeeps
<1>2. Fits(k, Answer(srv.cfg, srv.mark), srv.cfg, L)
  BY DEF Fits, Answer
<1>3. Fits(k, static'.answer, srv.cfg, L) /\ Fits(k, all'.answer, srv.cfg, L)
  BY <1>2 DEF AnswersFollow, Follows, Since, Fits
<1>4. \A n \in DOMAIN edits' : Fits(k, edits'[n].answer, srv.cfg, L)
  BY <1>2 DEF AnswersFollow, EditsFollow, Since, Fits
<1>5. /\ \A a : Fits(k, a, srv.cfg, L) => Fits(k, a, srv'.cfg, L)
  BY <1>1 DEF Fits
<1> QED BY <1>1, <1>3, <1>4, <1>5 DEF Since

LEMMA WaitingCarried ==
  ASSUME NEW k, NEW L \in ServerMarks, Since(k, L), Waiting(L), AnswersFollow, ~Filled(store')
  PROVE  Waiting(L)'
<1>1. Answer(srv.cfg, srv.mark).mark = srv.mark /\ NotOlder(srv.mark, L)
  BY DEF Answer, Since
<1>2. ASSUME Welcome(static') PROVE NotOlder(static'.answer.mark, L)
  BY <1>1, <1>2 DEF AnswersFollow, Follows, Waiting, Welcome, Coming
<1>3. ASSUME Coming(all') PROVE NotOlder(all'.answer.mark, L)
  BY <1>1, <1>3 DEF AnswersFollow, Follows, Waiting, Coming
<1> QED BY <1>2, <1>3 DEF Waiting, Welcome, Coming

LEMMA KeptAsAWhole ==
  ASSUME ServerStays, NEW k
  PROVE  ServerKeeps(k)
BY DEF ServerStays, ServerKeeps, Part

LEMMA ViewCarried ==
  ASSUME NEW k \in Kinds, NEW L \in ServerMarks, View(k, L), ServerKeeps(k), AnswersFollow,
         StoreStays, CoversStay(k, L)
  PROVE  View(k, L)'
<1>1. Since(k, L) /\ (Caught(L) \/ Covered(k, L) \/ Waiting(L))
  BY DEF View
<1>2. Since(k, L)'
  BY <1>1, SinceCarried DEF Since, StoreStays, Filled
<1>3. CASE Caught(L)
  BY <1>2, <1>3 DEF Caught, StoreStays, Filled, View
<1>4. CASE Covered(k, L)
  <2>1. Covered(k, L)'
    BY <1>4 DEF Covered, CoversStay
  <2> QED BY <1>2, <2>1 DEF View
<1>5. CASE Waiting(L)
  <2>1. ~Filled(store')
    BY <1>5 DEF Waiting, StoreStays, Filled
  <2>2. Waiting(L)'
    BY <1>1, <1>5, <2>1, WaitingCarried
  <2> QED BY <1>2, <2>2 DEF View
<1> QED BY <1>1, <1>3, <1>4, <1>5

(* A step that leaves the contents alone.                                      *)
LEMMA ViewKept ==
  ASSUME Viewing, ServerStays, AnswersFollow, StoreStays, missed => missed',
         \A k \in Kinds, L \in ServerMarks : CoversStay(k, L)
  PROVE  Viewing'
<1> SUFFICES ASSUME ~missed', ~srv'.torn, NEW k \in Kinds
             PROVE  \E L \in ServerMarks : View(k, L)'
  BY DEF Viewing
<1>1. PICK L \in ServerMarks : View(k, L)
  BY DEF Viewing, ServerStays
<1>2. ServerKeeps(k)
  BY KeptAsAWhole
<1> QED BY <1>1, <1>2, ViewCarried

(* With the server's mark as L, what is known is what the server says.         *)
LEMMA SinceNow ==
  ASSUME ClaimsInv', ~srv'.torn, NEW k, NEW L, L = srv'.mark
  PROVE  L \in ServerMarks /\ Since(k, L)'
<1>1. L \in ServerMarks
  BY DEF ClaimsInv, IsServer
<1>2. ASSUME NEW c, NEW m, Told(srv', c, m), NotOlder(m, L) PROVE c = srv'.cfg
  BY <1>1, <1>2, MarkOrder DEF Told
<1>3. \A a : Heard(srv', a) => Fits(k, a, srv'.cfg, L)
  BY <1>2 DEF Heard, Fits, Part
<1>4. Fits(k, static'.answer, srv'.cfg, L) /\ Fits(k, all'.answer, srv'.cfg, L)
  BY <1>3 DEF ClaimsInv, IsRefresh
<1>5. \A n \in DOMAIN edits' : Fits(k, edits'[n].answer, srv'.cfg, L)
  BY <1>3 DEF ClaimsInv, AreEdits, IsEdit
<1>6. Filled(store') /\ NotOlder(store'.mark, L) => Part(k, store'.confirmed) = Part(k, srv'.cfg)
  BY <1>2 DEF ClaimsInv, Holds, Part
<1>7. NotOlder(srv'.mark, L)
  BY <1>1, MarkOrder
<1> QED BY <1>1, <1>4, <1>5, <1>6, <1>7 DEF Since

LEMMA ViewNow ==
  ASSUME ClaimsInv', ~srv'.torn, NEW k, NEW L, L = srv'.mark, Caught(L)' \/ Covered(k, L)'
  PROVE  \E M \in ServerMarks : View(k, M)'
<1>1. L \in ServerMarks /\ Since(k, L)'
  BY SinceNow
<1> QED BY <1>1 DEF View

(* One save changes: the others are as they were.                              *)
LEMMA OneSaveFollows ==
  ASSUME ConsoleInv, NEW n \in DOMAIN edits, NEW e, edits' = [edits EXCEPT ![n] = e]
  PROVE  /\ \/ e.answer = edits[n].answer
            \/ ~IsConfig(e.answer)
            \/ e.answer = Answer(srv.cfg, srv.mark)
            => EditsFollow
         /\ \A k \in Kinds, L \in ServerMarks :
              (Covers(k, edits[n], L) => Covers(k, e, L)) => CoversStay(k, L)
<1>1. edits = [m \in DOMAIN edits |-> edits[m]]
  BY EditNumbers DEF ConsoleInv, TypesInv
<1>2. /\ DOMAIN edits' = DOMAIN edits /\ edits'[n] = e
      /\ \A m \in DOMAIN edits \ {n} : edits'[m] = edits[m]
  BY <1>1
<1> QED BY <1>2 DEF EditsFollow, CoversStay

LEMMA SavesAsTheyWere ==
  ASSUME UNCHANGED edits
  PROVE  EditsFollow /\ \A k \in Kinds, L \in ServerMarks : CoversStay(k, L)
BY DEF EditsFollow, CoversStay

LEMMA ServerAsItWas ==
  ASSUME UNCHANGED srv
  PROVE  ServerStays
BY DEF ServerStays

LEMMA RefreshAsItWas ==
  ASSUME NEW r, NEW q, r = q
  PROVE  Follows(r, q)
BY DEF Follows

LEMMA RefreshRestarts ==
  /\ \A r : Follows(r, Resting)
  /\ \A r, config : Follows(r, SentStatic(config))
  /\ \A r, loud : Follows(r, SentAll(loud))
<1>1. ~IsConfig(Failed)
  BY DEF IsConfig, Failed, NoConfig, Answer
<1>2. Resting.answer = Failed
  BY DEF Resting
<1>3. \A config : SentStatic(config).answer = Failed
  BY DEF SentStatic, Resting
<1>4. \A loud : SentAll(loud).answer = Failed
  BY DEF SentAll, Resting
<1> QED BY <1>1, <1>2, <1>3, <1>4 DEF Follows

LEMMA Refusals == ~IsConfig(Failed) /\ ~IsConfig(Denied)
BY DEF IsConfig, Failed, Denied, NoConfig, Answer

LEMMA RefreshDisturbed ==
  ASSUME ConsoleInv, Disturb \/ UNCHANGED static
  PROVE  Follows(static, static')
<1>1. CASE UNCHANGED static
  BY <1>1, RefreshAsItWas
<1>2. CASE Disturb
  <2>1. DOMAIN static = RefreshFields
    BY DEF ConsoleInv, ClaimsInv, IsRefresh
  <2>2. /\ static'.answer = static.answer /\ static'.at = static.at
        /\ static'.fetch = static.fetch /\ static'.disturbed = (static.at # "idle")
    BY <1>2, <2>1 DEF Disturb, RefreshFields
  <2> QED BY <2>2 DEF Follows, Welcome, Coming
<1> QED BY <1>1, <1>2

(* A read: what the server says now, a refusal, or a torn snapshot.            *)
LEMMA ReadFollows ==
  ASSUME ConsoleInv, NEW r, NEW q, IsRefresh(srv, r), Reads(r, q), ~srv'.torn
  PROVE  Follows(r, q) /\ ServerStays
<1>1. DOMAIN r = RefreshFields /\ DOMAIN srv = ServerFields
  BY DEF IsRefresh, ConsoleInv, ClaimsInv, IsServer
<1>2. CASE r.key # srv.key
  <2>1. q = [r EXCEPT !.at = "answered", !.answer = Denied] /\ UNCHANGED srv
    BY <1>2 DEF Reads
  <2>2. q.answer = Denied
    BY <1>1, <2>1 DEF RefreshFields
  <2> QED BY <2>1, <2>2, Refusals, ServerAsItWas DEF Follows
<1>3. CASE r.key = srv.key
  <2>1. PICK a : Snapshot(a) /\ q = [r EXCEPT !.at = "answered", !.answer = a]
    BY <1>3 DEF Reads
  <2>2. q.answer = a
    BY <1>1, <2>1 DEF RefreshFields
  <2>3. a = Answer(srv.cfg, srv.mark) /\ UNCHANGED srv
    BY <1>1, <2>1 DEF Snapshot, ServerFields
  <2> QED BY <2>2, <2>3, ServerAsItWas DEF Follows
<1> QED BY <1>2, <1>3

-----------------------------------------------------------------------------
(* The view, action by action.                                                 *)
ViewInv == StoreOK /\ Viewing

LEMMA ViewOfSave ==
  ASSUME ConsoleInv, ViewInv, NEW e, NEW types, NEW b, Save(e, types, b)
  PROVE  ViewInv'
<1>1. ServerStays /\ (missed => missed') /\ UNCHANGED all
  BY ServerAsItWas DEF Save
<1>2. Follows(static, static') /\ Follows(all, all')
  BY <1>1, RefreshDisturbed, RefreshAsItWas DEF Save
<1>3. Filled(store) /\ DOMAIN store = StoreFields
  BY ShownTyped DEF Save, ConsoleInv, ClaimsInv, Holds, IsStore
<1>4. StoreStays
  BY <1>3 DEF Save, Begin, StoreStays, StoreFields
<1>5. EditsFollow /\ \A k \in Kinds, L \in ServerMarks : CoversStay(k, L)
  <2>1. CASE UNCHANGED edits
    BY <2>1, SavesAsTheyWere
  <2>2. CASE edits' = Append(edits, Started(e))
    <3>1. PICK E : edits \in Seq(E)
      BY DEF ConsoleInv, ClaimsInv, AreEdits
    <3> DEFINE s == Started(e)
    <3>2. s.answer = Failed
      BY DEF Started
    <3> HIDE DEF s
    <3>3. /\ DOMAIN edits' = 1..(Len(edits) + 1) /\ edits'[Len(edits) + 1] = s
          /\ DOMAIN edits = 1..Len(edits) /\ Len(edits) \in Nat
          /\ \A m \in DOMAIN edits : edits'[m] = edits[m]
      BY <2>2, <3>1 DEF s
    <3>4. \A m \in DOMAIN edits' : m \in DOMAIN edits \/ edits'[m] = s
      BY <3>3
    <3>5. \A m \in DOMAIN edits : m \in DOMAIN edits'
      BY <3>3
    <3> QED BY <3>2, <3>3, <3>4, <3>5, Refusals DEF EditsFollow, CoversStay
  <2> QED BY <2>1, <2>2 DEF Save
<1>6. Viewing'
  BY <1>1, <1>2, <1>4, <1>5, ViewKept DEF ViewInv, AnswersFollow
<1>7. StoreOK'
  BY <1>3, <1>4 DEF StoreOK, StoreStays, Filled
<1> QED BY <1>6, <1>7 DEF ViewInv

(* Steps that leave the store alone.                                           *)
LEMMA StoreUntouched ==
  ASSUME StoreOK, UNCHANGED store
  PROVE  StoreOK' /\ StoreStays
BY DEF StoreOK, StoreStays, Filled

(* Only the saves that add or delete a key change the ids of the keys.         *)
LEMMA NamesOfWrite ==
  ASSUME NEW n \in EditIds, NEW c \in Configs, NEW w \in SingleWrites(n), ServerAccepts(c, w),
         w.op \notin {"addKey", "deleteKey"}
  PROVE  KeyNames(ServerApply(c, w).keys) = KeyNames(c.keys)
<1>1. DOMAIN c = {"knob", "static", "keys", "group"}
  BY DEF Configs
<1>2. CASE w.op = "knob"
  BY <1>1, <1>2 DEF ServerApply
<1>3. CASE w.op = "static"
  BY <1>1, <1>3 DEF ServerApply
<1>4. CASE w.op = "group"
  BY <1>1, <1>4 DEF ServerApply
<1>5. CASE w.op = "editKey" /\ w.i \in DOMAIN c.keys
  <2> DEFINE ks == ServerApply(c, w).keys
  <2>1. ks = [c.keys EXCEPT ![w.i].proxy = w.v]
    BY <1>1, <1>5 DEF ServerApply
  <2>2. ASSUME NEW i \in DOMAIN c.keys PROVE DOMAIN c.keys[i] = {"id", "proxy"}
    <3> DEFINE K == [id : KeyIds, proxy : 0..MaxEdits]
    <3>1. c.keys \in Seq(K)
      BY DEF Configs
    <3>2. \A x \in K : DOMAIN x = {"id", "proxy"}
      OBVIOUS
    <3> HIDE DEF K
    <3>3. c.keys[i] \in K
      BY <3>1
    <3> QED BY <3>2, <3>3
  <2> HIDE DEF ks
  <2>3. DOMAIN ks = DOMAIN c.keys
    BY <2>1
  <2>4. \A i \in DOMAIN c.keys : ks[i].id = c.keys[i].id
    BY <2>1, <2>2
  <2>5. KeyNames(ks) = KeyNames(c.keys)
    BY <2>3, <2>4 DEF KeyNames
  <2> QED BY <2>5 DEF ks
<1> QED BY <1>2, <1>3, <1>4, <1>5, KindsOfWrite DEF ServerAccepts

LEMMA OtherNamesStay ==
  ASSUME ConsoleInv, NEW n \in DOMAIN edits, edits[n].at = "sent", ~RenamesKeys(edits[n]),
         ServerAccepts(srv.cfg, edits[n].writes[edits[n].next]),
         srv' = Committed(ServerApply(srv.cfg, edits[n].writes[edits[n].next]))
  PROVE  /\ KeyNames(srv'.cfg.keys) = KeyNames(srv.cfg.keys)
         /\ \A L \in ServerMarks : NotOlder(srv.mark, L) => NotOlder(srv'.mark, L)
         /\ srv.torn => srv'.torn
<1> DEFINE old == edits[n]
           w == old.writes[old.next]
<1>1. DOMAIN srv = ServerFields /\ srv.mark \in ServerMarks /\ srv.cfg \in Configs
  BY DEF ConsoleInv, ClaimsInv, IsServer, TypesInv, TypedServer
<1>2. n \in EditIds /\ old.writes \in WritesOf(n) /\ old.next \in DOMAIN old.writes
  <2>1. TypedEdit(n, old) /\ n \in EditIds
    BY EditNumbers DEF ConsoleInv, TypesInv, TypedSaves
  <2> QED BY <2>1 DEF TypedEdit, UnderWay
<1>3. w \in SingleWrites(n)
  BY <1>2, WriteTyped
<1>4. w.op \notin {"addKey", "deleteKey"}
  BY <1>2, WritesOfRename DEF RenamesKeys
<1> HIDE DEF w
<1>5. srv' = Committed(ServerApply(srv.cfg, w)) /\ ServerAccepts(srv.cfg, w)
  BY DEF w
<1>6. srv'.cfg = ServerApply(srv.cfg, w) /\ srv'.torn = srv.torn
  BY <1>1, <1>5 DEF Committed, ServerFields
<1>7. srv'.mark \in ServerMarks /\ NotOlder(srv'.mark, srv.mark)
  BY <1>1, <1>5 DEF Committed, ServerFields, ServerMarks, NotOlder
<1> QED BY <1>1, <1>2, <1>3, <1>4, <1>5, <1>6, <1>7, NamesOfWrite, MarkOrder

LEMMA ViewOfCommit ==
  ASSUME ConsoleInv, ConsoleInv', ViewInv, NEW n \in DOMAIN edits, ServerCommits(n)
  PROVE  ViewInv'
<1> DEFINE old == edits[n]
<1>1. UNCHANGED <<store, static, all>> /\ old.at = "sent"
  BY DEF ServerCommits, viewVars
<1>2. DOMAIN old = EditFields /\ edits = [m \in DOMAIN edits |-> edits[m]]
  BY FieldsOfEdit, EditNumbers DEF ConsoleInv, TypesInv
<1>3. ASSUME edits' = [edits EXCEPT ![n].at = "committed"],
             srv' = Committed(ServerApply(srv.cfg, old.writes[old.next])),
             ServerAccepts(srv.cfg, old.writes[old.next]), missed => missed'
      PROVE  Viewing'
  <2> DEFINE e == [old EXCEPT !.at = "committed"]
  <2>1. edits' = [edits EXCEPT ![n] = e]
    BY <1>3
  <2>2. e.at = "committed" /\ e.answer = old.answer /\ e.writes = old.writes
    BY <1>2 DEF EditFields
  <2> HIDE DEF e
  <2>3. edits'[n] = e /\ n \in DOMAIN edits'
    BY <1>2, <2>1
  <2> SUFFICES ASSUME ~missed', ~srv'.torn, NEW k \in Kinds
               PROVE  \E L \in ServerMarks : View(k, L)'
    BY DEF Viewing
  <2>4. CASE k = "whole" \/ RenamesKeys(old)
    <3>1. PICK L : L = srv'.mark
      OBVIOUS
    <3>2. Covers(k, e, L)
      BY <2>2, <2>4 DEF Covers, RenamesKeys
    <3>3. Covered(k, L)'
      BY <2>3, <3>2 DEF Covered, Covers, RenamesKeys, IsConfig, NotOlder
    <3> QED BY <3>1, <3>3, ViewNow DEF ConsoleInv
  <2>5. CASE k = "names" /\ ~RenamesKeys(old)
    <3>1. ServerKeeps(k) /\ (srv.torn => srv'.torn)
      BY <1>1, <1>3, <2>5, OtherNamesStay DEF ServerKeeps, Part
    <3>2. EditsFollow
      BY <2>1, <2>2, OneSaveFollows
    <3>3. PICK L \in ServerMarks : View(k, L)
      BY <1>3, <3>1 DEF ViewInv, Viewing
    <3>4. CoversStay(k, L)
      BY <2>1, <2>5, OneSaveFollows DEF Covers
    <3> QED BY <1>1, <3>1, <3>2, <3>3, <3>4, RefreshAsItWas, StoreUntouched, ViewCarried
            DEF AnswersFollow, ViewInv
  <2> QED BY <2>4, <2>5 DEF Kinds
<1>4. ASSUME NEW a, ~IsConfig(a), UNCHANGED <<srv, missed>>,
             edits' = [edits EXCEPT ![n].at = "answered", ![n].answer = a]
      PROVE  Viewing'
  <2> DEFINE e == [old EXCEPT !.at = "answered", !.answer = a]
  <2>1. edits' = [edits EXCEPT ![n] = e]
    BY <1>2, <1>4
  <2>2. e.answer = a /\ e.at = "answered" /\ e.next = old.next /\ e.writes = old.writes
    BY <1>2 DEF EditFields
  <2> HIDE DEF e
  <2>3. EditsFollow
    BY <1>4, <2>1, <2>2, OneSaveFollows
  <2>4. \A k \in Kinds, L \in ServerMarks : Covers(k, old, L) => Covers(k, e, L)
    BY <1>1, <1>4, <2>2 DEF Covers, RenamesKeys
  <2>5. \A k \in Kinds, L \in ServerMarks : CoversStay(k, L)
    BY <2>1, <2>4, OneSaveFollows
  <2> QED
    BY <1>1, <1>4, <2>3, <2>5, ServerAsItWas, RefreshAsItWas, StoreUntouched, ViewKept
       DEF AnswersFollow, ViewInv
<1>5. Viewing'
  <2>1. ~IsConfig(IF old.key # srv.key THEN Denied ELSE Failed)
    BY Refusals
  <2> HIDE DEF old
  <2> QED BY <1>3, <1>4, <2>1 DEF ServerCommits, serverVars, old
<1> QED BY <1>1, <1>5, StoreUntouched DEF ViewInv

LEMMA ViewOfAnswer ==
  ASSUME ConsoleInv, ViewInv, NEW n \in DOMAIN edits, ServerAnswers(n)
  PROVE  ViewInv'
<1> DEFINE old == edits[n]
<1>1. UNCHANGED <<store, static, all, missed>> /\ old.at = "committed"
  BY DEF ServerAnswers, viewVars
<1>2. /\ DOMAIN old = EditFields /\ edits = [m \in DOMAIN edits |-> edits[m]]
      /\ DOMAIN srv = ServerFields
  BY FieldsOfEdit, EditNumbers DEF ConsoleInv, TypesInv, ClaimsInv, IsServer
<1>3. PICK a : Snapshot(a) /\ edits' = [edits EXCEPT ![n].at = "answered", ![n].answer = a]
  BY DEF ServerAnswers
<1>4. ASSUME ~missed', ~srv'.torn, NEW k \in Kinds PROVE \E L \in ServerMarks : View(k, L)'
  <2>1. a = Answer(srv.cfg, srv.mark) /\ UNCHANGED srv
    BY <1>2, <1>3, <1>4 DEF Snapshot, ServerFields
  <2> DEFINE e == [old EXCEPT !.at = "answered", !.answer = a]
  <2>2. edits' = [edits EXCEPT ![n] = e]
    BY <1>2, <1>3
  <2>3. e.answer = a /\ e.at = "answered" /\ e.writes = old.writes
    BY <1>2 DEF EditFields
  <2> HIDE DEF e
  <2>4. EditsFollow
    BY <2>1, <2>2, <2>3, OneSaveFollows
  <2>5. PICK L \in ServerMarks : View(k, L)
    BY <1>1, <1>4, <2>1 DEF ViewInv, Viewing
  <2>6. Covers(k, old, L) => Covers(k, e, L)
    BY <2>1, <2>3, <2>5 DEF Covers, RenamesKeys, Answer, IsConfig, View, Since
  <2>7. CoversStay(k, L)
    BY <2>2, <2>6, OneSaveFollows
  <2>8. ServerKeeps(k)
    BY <2>1, ServerAsItWas, KeptAsAWhole
  <2>9. View(k, L)'
    BY <1>1, <2>4, <2>5, <2>7, <2>8, RefreshAsItWas, StoreUntouched, ViewCarried
       DEF AnswersFollow, ViewInv
  <2> QED BY <2>9
<1>5. Viewing'
  BY <1>4 DEF Viewing
<1> QED BY <1>1, <1>5, StoreUntouched DEF ViewInv

LEMMA ViewOfNextWrite ==
  ASSUME ConsoleInv, ViewInv, NEW n \in DOMAIN edits, SendNext(n)
  PROVE  ViewInv'
<1> DEFINE old == edits[n]
<1>1. UNCHANGED <<srv, store, static, all, missed>>
  BY DEF SendNext, viewVars, serverVars
<1>2. /\ DOMAIN old = EditFields /\ edits = [m \in DOMAIN edits |-> edits[m]]
      /\ old.next \in Nat \ {0}
  BY FieldsOfEdit, EditNumbers DEF ConsoleInv, TypesInv, NumberedEdit
<1> DEFINE e == [old EXCEPT !.at = "sent", !.next = @ + 1, !.key = session.key]
<1>3. edits' = [edits EXCEPT ![n] = e]
  BY <1>2 DEF SendNext, EditFields
<1>4. e.answer = old.answer /\ e.at = "sent" /\ e.next # 1 /\ e.writes = old.writes
  BY <1>2 DEF EditFields
<1> HIDE DEF e
<1>5. EditsFollow
  BY <1>3, <1>4, OneSaveFollows
<1>6. \A k \in Kinds, L \in ServerMarks : Covers(k, old, L) => Covers(k, e, L)
  BY <1>4 DEF Covers, RenamesKeys
<1>7. \A k \in Kinds, L \in ServerMarks : CoversStay(k, L)
  BY <1>3, <1>6, OneSaveFollows
<1>8. Viewing'
  BY <1>1, <1>5, <1>7, ServerAsItWas, RefreshAsItWas, StoreUntouched, ViewKept
     DEF AnswersFollow, ViewInv
<1> QED BY <1>1, <1>8, StoreUntouched DEF ViewInv

(* What the store makes of an answer: it keeps a configuration that is not     *)
(* older, or takes one that is not older than its own.                         *)
Merged(st, su, a) ==
  \/ /\ Filled(st) /\ su.confirmed = st.confirmed /\ su.mark = st.mark
     /\ NotOlder(st.mark, a.mark)
  \/ /\ su.confirmed = a.cfg /\ su.mark = a.mark
     /\ Filled(st) => NotOlder(a.mark, st.mark)

LEMMA AnswerMerged ==
  ASSUME NEW s, NEW st, NEW a, Holds(s, st), a.mark \in ServerMarks,
         ~Filled(st) => st.mark = Mark(NoMark, NoMark)
  PROVE  /\ Merged(st, AcceptConfirmed(st, a), a)
         /\ \A id : HasPending(st, id) => Merged(st, Confirm(st, id, a), a)
<1>1. a.mark.epoch \in Nat /\ a.mark.rev \in Nat /\ ~(a.mark.rev < 0)
  BY DEF ServerMarks
<1>2. /\ DOMAIN st = StoreFields
      /\ st.mark.epoch \in Nat \cup {NoMark} /\ st.mark.rev \in Nat \cup {NoMark}
  BY DEF Holds, IsStore, Marks
<1>3. Filled(st) => st.mark.epoch \in Nat /\ st.mark.rev \in Nat
  BY DEF Holds, Told, ServerMarks
<1>4. ~Filled(st) => st.mark.epoch = NoMark /\ st.mark.rev = NoMark
  BY DEF Mark
<1>5. ~Filled(st) => ~Outdated(st, a.mark)
  BY <1>1, <1>4 DEF Outdated, EpochIsOlder, EpochIsNewer, NoMark
<1>6. Filled(st) /\ Outdated(st, a.mark) => NotOlder(st.mark, a.mark)
  BY <1>1, <1>3 DEF Outdated, EpochIsOlder, EpochIsNewer, NotOlder
<1>7. Filled(st) /\ ~Outdated(st, a.mark) => NotOlder(a.mark, st.mark)
  BY <1>1, <1>3 DEF Outdated, EpochIsOlder, EpochIsNewer, NotOlder
<1>8. NewMark(st, a.mark) = a.mark
  BY MarkTaken
<1>9. Merged(st, AcceptConfirmed(st, a), a)
  <2>1. CASE Outdated(st, a.mark)
    BY <1>5, <1>6, <2>1 DEF AcceptConfirmed, Merged
  <2>2. CASE ~Outdated(st, a.mark)
    <3> DEFINE su == AcceptConfirmed(st, a)
    <3>1. su.confirmed = a.cfg /\ su.mark = a.mark
      BY <1>2, <1>8, <2>2 DEF AcceptConfirmed, StoreFields
    <3> QED BY <1>7, <2>2, <3>1 DEF Merged
  <2> QED BY <2>1, <2>2
<1>10. ASSUME NEW id, HasPending(st, id) PROVE Merged(st, Confirm(st, id, a), a)
  <2> DEFINE su == Confirm(st, id, a)
  <2>1. CASE Outdated(st, a.mark)
    <3>1. su.confirmed = st.confirmed /\ su.mark = st.mark
      BY <1>1, <1>2, <1>10, <2>1 DEF Confirm, StoreFields
    <3> QED BY <1>5, <1>6, <2>1, <3>1 DEF Merged
  <2>2. CASE ~Outdated(st, a.mark)
    <3>1. su.confirmed = a.cfg /\ su.mark = a.mark
      BY <1>1, <1>2, <1>8, <1>10, <2>2 DEF Confirm, StoreFields
    <3> QED BY <1>7, <2>2, <3>1 DEF Merged
  <2> QED BY <2>1, <2>2
<1> QED BY <1>9, <1>10

LEMMA Nothing ==
  NothingYet \notin Configs
BY DEF NothingYet, Configs

(* An answer that fits is merged: the store fits, and is not left behind.      *)
LEMMA ViewMerged ==
  ASSUME ConsoleInv, NEW k, NEW L \in ServerMarks, Since(k, L), NEW a, Merged(store, store', a),
         IsConfig(a), a.cfg \in Configs, a.mark \in ServerMarks, Fits(k, a, srv.cfg, L)
  PROVE  /\ Filled(store')
         /\ NotOlder(store'.mark, L) => Part(k, store'.confirmed) = Part(k, srv.cfg)
         /\ Caught(L) \/ NotOlder(a.mark, L) => Caught(L)'
<1>1. Filled(store) => store.mark \in ServerMarks
  BY DEF ConsoleInv, ClaimsInv, Holds, Told
<1>2. CASE /\ Filled(store) /\ store'.confirmed = store.confirmed /\ store'.mark = store.mark
           /\ NotOlder(store.mark, a.mark)
  <2>1. Filled(store')
    BY <1>2 DEF Filled
  <2>2. NotOlder(store'.mark, L) => Part(k, store'.confirmed) = Part(k, srv.cfg)
    BY <1>2 DEF Since
  <2>3. NotOlder(a.mark, L) => NotOlder(store.mark, L)
    BY <1>1, <1>2, MarkOrder
  <2> QED BY <1>2, <2>1, <2>2, <2>3 DEF Caught
<1>3. CASE /\ store'.confirmed = a.cfg /\ store'.mark = a.mark
           /\ Filled(store) => NotOlder(a.mark, store.mark)
  <2>1. Filled(store')
    BY <1>3, Nothing DEF Filled
  <2>2. NotOlder(store'.mark, L) => Part(k, store'.confirmed) = Part(k, srv.cfg)
    BY <1>3 DEF Fits
  <2>3. Caught(L) => NotOlder(a.mark, L)
    BY <1>1, <1>3, MarkOrder DEF Caught
  <2> QED BY <1>3, <2>1, <2>2, <2>3 DEF Caught
<1> QED BY <1>2, <1>3 DEF Merged

(* A step that merges an answer and leaves the server alone: with the answer   *)
(* the store catches up, unless something else still covers it.                *)
LEMMA ViewAfterMerge ==
  ASSUME ConsoleInv, ConsoleInv', ViewInv, UNCHANGED srv, AnswersFollow,
         NEW a, Merged(store, store', a), IsConfig(a), Heard(srv, a), a.cfg \in Configs,
         \A k \in Kinds, L \in ServerMarks : Since(k, L) => Fits(k, a, srv.cfg, L),
         \A k \in Kinds, L \in ServerMarks :
           Covered(k, L) => Covered(k, L)' \/ NotOlder(a.mark, L),
         \A L \in ServerMarks : Waiting(L) => NotOlder(a.mark, L),
         missed' = (missed /\ store'.mark # srv.mark)
  PROVE  Viewing'
<1>1. a.mark \in ServerMarks
  BY DEF Heard, Told
<1>2. CASE missed
  <2> SUFFICES ASSUME ~missed', ~srv'.torn, NEW k \in Kinds
               PROVE  \E L \in ServerMarks : View(k, L)'
    BY DEF Viewing
  <2>1. store'.mark = srv.mark
    BY <1>2
  <2>2. Filled(store')
    BY Nothing DEF Merged, Filled
  <2>3. PICK L : L = srv'.mark
    OBVIOUS
  <2>4. L \in ServerMarks
    BY <2>3 DEF ConsoleInv, ClaimsInv, IsServer
  <2>5. Caught(L)'
    BY <2>1, <2>2, <2>3, <2>4, MarkOrder DEF Caught
  <2> QED BY <2>3, <2>5, ViewNow DEF ConsoleInv
<1>3. CASE ~missed
  <2> SUFFICES ASSUME ~srv'.torn, NEW k \in Kinds PROVE \E L \in ServerMarks : View(k, L)'
    BY DEF Viewing
  <2>1. PICK L \in ServerMarks : View(k, L)
    BY <1>3 DEF ViewInv, Viewing
  <2>2. Since(k, L) /\ (Caught(L) \/ Covered(k, L) \/ Waiting(L))
    BY <2>1 DEF View
  <2>3. Fits(k, a, srv.cfg, L)
    BY <2>2
  <2>4. /\ NotOlder(store'.mark, L) => Part(k, store'.confirmed) = Part(k, srv.cfg)
        /\ Caught(L) \/ NotOlder(a.mark, L) => Caught(L)'
    BY <1>1, <2>2, <2>3, ViewMerged
  <2>5. Since(k, L)'
    BY <2>2, <2>4, ServerAsItWas, KeptAsAWhole, SinceCarried
  <2>6. Caught(L)' \/ Covered(k, L)'
    BY <2>2, <2>4
  <2> QED BY <2>5, <2>6 DEF View
<1> QED BY <1>2, <1>3

(* A step that empties the store.                                              *)
LEMMA ViewEmptied ==
  ASSUME ViewInv, UNCHANGED srv, AnswersFollow, ~Filled(store'), missed => missed', ~Coming(all'),
         ~missed' => \A k \in Kinds, L \in ServerMarks :
                       Since(k, L) /\ Welcome(static') => NotOlder(static'.answer.mark, L)
  PROVE  Viewing'
<1> SUFFICES ASSUME ~missed', ~srv'.torn, NEW k \in Kinds
             PROVE  \E L \in ServerMarks : View(k, L)'
  BY DEF Viewing
<1>1. PICK L \in ServerMarks : View(k, L)
  BY DEF ViewInv, Viewing
<1>2. Since(k, L)
  BY <1>1 DEF View
<1>3. Since(k, L)'
  BY <1>2, ServerAsItWas, KeptAsAWhole, SinceCarried
<1>4. Waiting(L)'
  <2>1. Welcome(static') => NotOlder(static'.answer.mark, L)
    BY <1>2
  <2> QED BY <2>1 DEF Waiting, Welcome, Coming
<1> QED BY <1>3, <1>4 DEF View

LEMMA StoreAfterMerge ==
  ASSUME NEW a, Merged(store, store', a), a.cfg \in Configs
  PROVE  StoreOK'
BY Nothing DEF Merged, StoreOK, Filled

LEMMA HeardSave ==
  ASSUME ConsoleInv, NEW n \in DOMAIN edits, IsConfig(edits[n].answer)
  PROVE  /\ Heard(srv, edits[n].answer) /\ edits[n].answer.cfg \in Configs
         /\ edits[n].answer.mark \in ServerMarks
BY DEF ConsoleInv, ClaimsInv, AreEdits, IsEdit, Heard, Told, TypesInv, TypedSaves, TypedEdit,
       TypedAnswer

LEMMA ViewOfSaveEnd ==
  ASSUME ConsoleInv, ConsoleInv', ViewInv, NEW n \in DOMAIN edits, SaveSucceeds(n) \/ SaveFails(n)
  PROVE  ViewInv'
<1> DEFINE old == edits[n]
           e == Over(old)
<1>1. UNCHANGED <<srv, all>> /\ edits' = [edits EXCEPT ![n] = e] /\ old.at = "answered"
  BY DEF SaveSucceeds, SaveFails, Finish
<1>2. /\ DOMAIN old = EditFields /\ old.id = n /\ edits = [m \in DOMAIN edits |-> edits[m]]
      /\ DOMAIN store = StoreFields
  BY FieldsOfEdit, EditNumbers
     DEF ConsoleInv, TypesInv, NumberedEdit, ClaimsInv, Holds, IsStore
<1>3. e.answer = Failed
  BY <1>2 DEF Over, EditFields
<1> HIDE DEF e
<1>4. EditsFollow
  BY <1>1, <1>3, OneSaveFollows, Refusals
<1>5. AnswersFollow
  <2>1. Disturb \/ UNCHANGED static
    BY DEF SaveSucceeds, SaveFails
  <2> QED BY <1>1, <1>4, <2>1, RefreshDisturbed, RefreshAsItWas DEF AnswersFollow
<1>6. /\ DOMAIN edits' = DOMAIN edits
      /\ \A m \in DOMAIN edits \ {n} : edits'[m] = edits[m]
  BY <1>1, <1>2
<1>7. ASSUME SaveSucceeds(n), ~HasPending(store, n) PROVE ViewInv'
  <2>1. missed' = TRUE /\ UNCHANGED store
    BY <1>2, <1>7 DEF SaveSucceeds
  <2>2. Viewing'
    BY <2>1 DEF Viewing
  <2> QED BY <2>1, <2>2, StoreUntouched DEF ViewInv
<1>8. ASSUME SaveSucceeds(n), HasPending(store, n) PROVE ViewInv'
  <2> DEFINE a == old.answer
  <2>1. /\ IsConfig(a) /\ old.next = Len(old.writes) /\ store' = Confirm(store, n, a)
        /\ missed' = (missed /\ store'.mark # srv.mark)
    BY <1>2, <1>8 DEF SaveSucceeds
  <2>2. Heard(srv, a) /\ a.cfg \in Configs /\ a.mark \in ServerMarks
    BY <2>1, HeardSave
  <2>3. Holds(srv, store) /\ (~Filled(store) => store.mark = Mark(NoMark, NoMark))
    BY DEF ConsoleInv, ClaimsInv, ViewInv, StoreOK
  <2>4. Merged(store, store', a)
    <3> HIDE DEF a
    <3> QED BY <1>8, <2>1, <2>2, <2>3, AnswerMerged
  <2>5. \A k \in Kinds, L \in ServerMarks : Since(k, L) => Fits(k, a, srv.cfg, L)
    BY DEF Since
  <2>6. ASSUME NEW k \in Kinds, NEW L \in ServerMarks, Covered(k, L)
        PROVE  Covered(k, L)' \/ NotOlder(a.mark, L)
    <3>1. PICK m \in DOMAIN edits : Covers(k, edits[m], L)
      BY <2>6 DEF Covered
    <3>2. CASE m = n
      <4>1. Covers(k, old, L)
        BY <3>1, <3>2
      <4> QED BY <1>1, <2>1, <4>1 DEF Covers
    <3>3. CASE m # n
      BY <1>6, <3>1, <3>3 DEF Covered
    <3> QED BY <3>2, <3>3
  <2>7. Filled(store)
    <3>1. DOMAIN store.pending # {}
      BY <1>8 DEF HasPending
    <3> QED BY <3>1 DEF ViewInv, StoreOK
  <2>8. \A L \in ServerMarks : Waiting(L) => NotOlder(a.mark, L)
    BY <2>7 DEF Waiting
  <2> HIDE DEF a
  <2>9. Viewing'
    BY <1>1, <1>5, <2>1, <2>2, <2>4, <2>5, <2>6, <2>8, ViewAfterMerge
  <2> QED BY <2>2, <2>4, <2>9, StoreAfterMerge DEF ViewInv
<1>9. ASSUME SaveFails(n) PROVE ViewInv'
  <2>1. /\ ~IsConfig(old.answer) /\ store' = Reject(store, n)
        /\ missed' = (missed \/ old.next > 1)
    BY <1>2, <1>9 DEF SaveFails
  <2>2. StoreStays /\ store'.pending = Without(store.pending, n)
    BY <1>2, <2>1 DEF Reject, StoreStays, StoreFields
  <2>3. StoreOK'
    <3>1. store.pending = << >> => store'.pending = << >>
      BY <2>2 DEF Without
    <3> QED BY <2>2, <3>1 DEF ViewInv, StoreOK, StoreStays, Filled
  <2>4. CASE old.next > 1
    BY <2>1, <2>3, <2>4 DEF Viewing, ViewInv
  <2>5. CASE ~(old.next > 1)
    <3>1. old.next = 1
      BY <2>5, FieldsOfEdit DEF NumberedEdit, ConsoleInv
    <3>2. \A k \in Kinds, L \in ServerMarks : ~Covers(k, old, L)
      BY <1>1, <2>1, <3>1 DEF Covers
    <3>3. \A k \in Kinds, L \in ServerMarks : CoversStay(k, L)
      BY <1>1, <3>2, OneSaveFollows
    <3>4. Viewing'
      BY <1>1, <1>5, <2>1, <2>2, <3>3, ServerAsItWas, ViewKept DEF ViewInv
    <3> QED BY <2>3, <3>4 DEF ViewInv
  <2> QED BY <2>4, <2>5
<1> QED BY <1>7, <1>8, <1>9

(* Refreshes.                                                                  *)
LEMMA ViewOfTake ==
  ASSUME ConsoleInv, ConsoleInv', ViewInv, UNCHANGED <<srv, edits>>,
         Follows(static, static'), Follows(all, all'),
         NEW a, Take(a),
         (a = static.answer /\ Welcome(static)) \/ (a = all.answer /\ Coming(all))
  PROVE  ViewInv'
<1>1. IsConfig(a) /\ Heard(srv, a) /\ TypedAnswer(a)
  BY DEF Welcome, Coming, ConsoleInv, ClaimsInv, IsRefresh, TypesInv, TypedRefresh
<1>2. a.cfg \in Configs /\ a.mark \in ServerMarks
  BY <1>1 DEF TypedAnswer, Heard, Told
<1>3. Holds(srv, store) /\ (~Filled(store) => store.mark = Mark(NoMark, NoMark))
  BY DEF ConsoleInv, ClaimsInv, ViewInv, StoreOK
<1>4. Merged(store, store', a) /\ missed' = (missed /\ store'.mark # srv.mark)
  BY <1>2, <1>3, AnswerMerged DEF Take
<1>5. \A k \in Kinds, L \in ServerMarks : Since(k, L) => Fits(k, a, srv.cfg, L)
  BY DEF Since
<1>6. \A L \in ServerMarks : Waiting(L) => NotOlder(a.mark, L)
  BY DEF Waiting
<1>7. \A k \in Kinds, L \in ServerMarks : Covered(k, L) => Covered(k, L)'
  BY DEF Covered
<1>8. AnswersFollow
  BY SavesAsTheyWere DEF AnswersFollow
<1>9. Viewing'
  BY <1>1, <1>2, <1>4, <1>5, <1>6, <1>7, <1>8, ViewAfterMerge
<1> QED BY <1>2, <1>4, <1>9, StoreAfterMerge DEF ViewInv

(* Steps that leave the server, the store and the saves alone.                 *)
LEMMA ViewElsewhere ==
  ASSUME ViewInv, UNCHANGED <<store, edits>>, ServerStays, missed => missed',
         Follows(static, static'), Follows(all, all')
  PROVE  ViewInv'
<1>1. AnswersFollow /\ \A k \in Kinds, L \in ServerMarks : CoversStay(k, L)
  BY SavesAsTheyWere DEF AnswersFollow
<1>2. StoreOK' /\ StoreStays
  BY StoreUntouched DEF ViewInv
<1> QED BY <1>1, <1>2, ViewKept DEF ViewInv

LEMMA ViewOfStatic ==
  ASSUME ConsoleInv, ConsoleInv', ViewInv, TimerFires \/ ServerAnswersStatic \/ StaticArrives
  PROVE  ViewInv'
<1>1. Follows(all, all')
  BY RefreshAsItWas DEF TimerFires, ServerAnswersStatic, StaticArrives
<1>2. CASE TimerFires
  <2>1. UNCHANGED <<srv, missed, store, edits>>
    BY <1>2 DEF TimerFires, serverVars
  <2>2. Follows(static, static')
    <3>1. DOMAIN static = RefreshFields
      BY DEF ConsoleInv, ClaimsInv, IsRefresh
    <3>2. CASE static' = [static EXCEPT !.wanted = TRUE]
      BY <3>1, <3>2 DEF Follows, Welcome, Coming, RefreshFields
    <3> QED BY <1>2, <3>2, RefreshRestarts, RefreshAsItWas DEF TimerFires
  <2> QED BY <1>1, <2>1, <2>2, ServerAsItWas, ViewElsewhere
<1>3. CASE ServerAnswersStatic
  <2>1. UNCHANGED <<missed, store, edits>> /\ Reads(static, static')
    BY <1>3 DEF ServerAnswersStatic, viewVars
  <2>2. CASE srv'.torn
    BY <2>1, <2>2, StoreUntouched DEF Viewing, ViewInv
  <2>3. CASE ~srv'.torn
    <3>1. Follows(static, static') /\ ServerStays
      BY <2>1, <2>3, ReadFollows DEF ConsoleInv, ClaimsInv
    <3> QED BY <1>1, <2>1, <3>1, ViewElsewhere
  <2> QED BY <2>2, <2>3
<1>4. CASE StaticArrives
  <2>1. UNCHANGED <<srv, edits>> /\ static.at = "answered"
    BY <1>4 DEF StaticArrives
  <2>2. Follows(static, static')
    BY <1>4, RefreshRestarts DEF StaticArrives
  <2>3. CASE /\ ~static.disturbed /\ static.fetch /\ IsConfig(static.answer)
             /\ Take(static.answer)
    <3>1. Welcome(static)
      BY <2>1, <2>3 DEF Welcome, Coming
    <3> QED BY <1>1, <2>1, <2>2, <2>3, <3>1, ViewOfTake
  <2>4. CASE UNCHANGED <<store, missed>>
    BY <1>1, <2>1, <2>2, <2>4, ServerAsItWas, ViewElsewhere
  <2> QED BY <1>4, <2>3, <2>4 DEF StaticArrives, Keep
<1> QED BY <1>2, <1>3, <1>4

LEMMA PressedFollows ==
  ASSUME ConsoleInv, NEW loud, RefreshAll(loud)
  PROVE  Follows(all, all')
<1>1. DOMAIN all = RefreshFields
  BY DEF ConsoleInv, ClaimsInv, IsRefresh
<1>2. CASE all.at = "idle"
  BY <1>2, RefreshRestarts DEF RefreshAll
<1>3. CASE all.at # "idle"
  <2>1. all'.answer = all.answer /\ all'.at = all.at /\ all'.fetch = all.fetch
        /\ all'.disturbed = all.disturbed
    BY <1>1, <1>3 DEF RefreshAll, RefreshFields
  <2> QED BY <2>1 DEF Follows, Welcome, Coming
<1> QED BY <1>2, <1>3

(* A session ends: saves become orphans, but cover what they covered.          *)
LEMMA OrphansFollow ==
  ASSUME ConsoleInv, edits' = Orphaned
  PROVE  EditsFollow
<1>1. ASSUME NEW n \in DOMAIN edits PROVE edits'[n].answer = edits[n].answer
  <2>1. DOMAIN edits[n] = EditFields
    BY FieldsOfEdit DEF ConsoleInv
  <2> DEFINE e == edits[n]
  <2>2. CASE e.at = "over"
    BY <2>2 DEF Orphaned
  <2>3. CASE e.at # "over"
    <3>1. edits'[n] = [e EXCEPT !.orphan = TRUE]
      BY <2>3 DEF Orphaned
    <3> HIDE DEF e
    <3> QED BY <2>1, <3>1 DEF EditFields, e
  <2> QED BY <2>2, <2>3
<1>2. DOMAIN edits' = DOMAIN edits
  BY DEF Orphaned
<1> QED BY <1>1, <1>2 DEF EditsFollow

LEMMA Emptied ==
  ASSUME store' = Clear(store)
  PROVE  ~Filled(store') /\ StoreOK'
BY DEF Clear, EmptyStore, Filled, StoreOK

LEMMA ViewOfAll ==
  ASSUME ConsoleInv, ConsoleInv', ViewInv, ServerAnswersAll \/ PressRefresh \/ AllArrives
  PROVE  ViewInv'
<1>1. CASE ServerAnswersAll
  <2>1. UNCHANGED <<missed, store, edits, static>> /\ Reads(all, all')
    BY <1>1 DEF ServerAnswersAll, viewVars
  <2>2. CASE srv'.torn
    BY <2>1, <2>2, StoreUntouched DEF Viewing, ViewInv
  <2>3. CASE ~srv'.torn
    <3>1. Follows(all, all') /\ ServerStays
      BY <2>1, <2>3, ReadFollows DEF ConsoleInv, ClaimsInv
    <3> QED BY <2>1, <3>1, RefreshAsItWas, ViewElsewhere
  <2> QED BY <2>2, <2>3
<1>2. CASE PressRefresh
  <2>1. UNCHANGED <<srv, missed, store, edits, static>> /\ RefreshAll(TRUE)
    BY <1>2 DEF PressRefresh, Keep
  <2> QED BY <2>1, PressedFollows, RefreshAsItWas, ServerAsItWas, ViewElsewhere
<1>3. CASE AllArrives
  <2>1. UNCHANGED <<srv, static>> /\ all.at = "answered"
        /\ Follows(static, static') /\ Follows(all, all')
    BY <1>3, RefreshRestarts, RefreshAsItWas DEF AllArrives
  <2>2. CASE LoggedOut /\ missed' = (missed \/ Leftover)
    <3>1. store' = Clear(store) /\ edits' = Orphaned
      BY <2>2 DEF LoggedOut
    <3>2. ~Coming(all')
      <4>1. Resting.at = "idle" /\ \A loud : SentAll(loud).at = "sent"
        BY DEF Resting, SentAll
      <4> QED BY <1>3, <4>1 DEF AllArrives, Coming
    <3>3. ASSUME ~missed', NEW k \in Kinds, NEW L \in ServerMarks, Since(k, L), Welcome(static')
          PROVE  NotOlder(static'.answer.mark, L)
      <4>1. static.answer.mark = srv.mark
        BY <2>1, <2>2, <3>3 DEF Leftover, Welcome, Coming
      <4> QED BY <2>1, <3>3, <4>1 DEF Since
    <3>4. AnswersFollow
      BY <2>1, <3>1, OrphansFollow DEF AnswersFollow
    <3>5. missed => missed'
      BY <2>2
    <3>6. Viewing'
      BY <2>1, <3>1, <3>2, <3>3, <3>4, <3>5, Emptied, ViewEmptied
    <3> QED BY <3>1, <3>6, Emptied DEF ViewInv
  <2>3. CASE UNCHANGED <<store, missed, edits>>
    BY <2>1, <2>3, ServerAsItWas, ViewElsewhere
  <2>4. CASE all.fetch /\ IsConfig(all.answer) /\ Take(all.answer) /\ UNCHANGED edits
    <3>1. Coming(all)
      BY <2>1, <2>4 DEF Coming
    <3> QED BY <2>1, <2>4, <3>1, ViewOfTake
  <2> QED BY <1>3, <2>2, <2>3, <2>4 DEF AllArrives, Keep
<1> QED BY <1>1, <1>2, <1>3

LEMMA ViewOfSessions ==
  ASSUME ConsoleInv, ViewInv, SubmitKey \/ KeyChecked
  PROVE  ViewInv'
<1>1. UNCHANGED <<srv, missed>>
  BY DEF SubmitKey, KeyChecked, serverVars
<1>2. CASE SubmitKey
  BY <1>1, <1>2, RefreshAsItWas, ServerAsItWas, ViewElsewhere DEF SubmitKey, viewVars
<1>3. CASE KeyChecked
  <2>1. Disturb /\ Follows(static, static')
    BY <1>3, RefreshDisturbed DEF KeyChecked
  <2>2. CASE UNCHANGED <<store, edits>> /\ RefreshAll(FALSE)
    BY <1>1, <2>1, <2>2, PressedFollows, ServerAsItWas, ViewElsewhere
  <2>3. CASE store' = Clear(store) /\ edits' = Orphaned /\ UNCHANGED all
    <3>1. all.at = "idle"
      BY <1>3 DEF KeyChecked, ConsoleInv, SavesInv, SessionOK
    <3>2. ~Coming(all')
      BY <2>3, <3>1 DEF Coming
    <3>3. ~Welcome(static')
      <4>1. DOMAIN static = RefreshFields
        BY DEF ConsoleInv, ClaimsInv, IsRefresh
      <4>2. static'.at = static.at /\ static'.disturbed = (static.at # "idle")
        BY <2>1, <4>1 DEF Disturb, RefreshFields
      <4> QED BY <4>2 DEF Welcome, Coming
    <3>4. AnswersFollow
      BY <2>1, <2>3, RefreshAsItWas, OrphansFollow DEF AnswersFollow
    <3>5. Viewing'
      BY <1>1, <2>3, <3>2, <3>3, <3>4, Emptied, ViewEmptied
    <3> QED BY <2>3, <3>5, Emptied DEF ViewInv
  <2> QED BY <1>3, <2>2, <2>3 DEF KeyChecked
<1> QED BY <1>2, <1>3

LEMMA ViewOfQuiet ==
  ASSUME ConsoleInv, ViewInv,
         OpenEditor \/ CloseEditor \/ Type \/ Leave \/ ForeignChange \/ ForeignKey
           \/ UNCHANGED vars
  PROVE  ViewInv'
<1>1. UNCHANGED <<store, edits, all>>
  BY DEF OpenEditor, CloseEditor, Type, Leave, ForeignChange, ForeignKey, vars, viewVars
<1>2. Follows(all, all')
  BY <1>1, RefreshAsItWas
<1>3. CASE ForeignChange
  <2>1. missed' = TRUE
    BY <1>3 DEF ForeignChange
  <2> QED BY <1>1, <2>1, StoreUntouched DEF Viewing, ViewInv
<1>4. CASE ForeignKey
  <2>1. UNCHANGED <<static, missed>> /\ srv' = [srv EXCEPT !.key = @ + 1]
    BY <1>4 DEF ForeignKey
  <2>2. ServerStays
    BY <2>1 DEF ServerStays, ConsoleInv, ClaimsInv, IsServer, ServerFields
  <2> QED BY <1>1, <1>2, <2>1, <2>2, RefreshAsItWas, ViewElsewhere
<1>5. CASE ~ForeignChange /\ ~ForeignKey
  <2>1. UNCHANGED <<srv, missed>>
    BY <1>5 DEF OpenEditor, CloseEditor, Type, Leave, vars, serverVars
  <2>2. Disturb \/ UNCHANGED static
    BY <1>5 DEF OpenEditor, CloseEditor, Type, Leave, vars
  <2> QED BY <1>1, <1>2, <2>1, <2>2, RefreshDisturbed, ServerAsItWas, ViewElsewhere
<1> QED BY <1>3, <1>4, <1>5

LEMMA CutFollows ==
  ASSUME NEW s, NEW r, IsRefresh(s, r)
  PROVE  Follows(r, Cut(r))
<1>1. CASE r.at \in {"sent", "committed"}
  <2>1. Cut(r).answer = Failed
    BY <1>1 DEF Cut, IsRefresh, RefreshFields
  <2> QED BY <2>1, Refusals DEF Follows
<1>2. CASE r.at \notin {"sent", "committed"}
  BY <1>2, RefreshAsItWas DEF Cut
<1> QED BY <1>1, <1>2

LEMMA ViewOfRestart ==
  ASSUME ConsoleInv, ViewInv, Restart
  PROVE  ViewInv'
<1>1. UNCHANGED store /\ (missed => missed')
  BY DEF Restart, viewVars
<1>2. Follows(static, static') /\ Follows(all, all')
  BY CutFollows DEF Restart, ConsoleInv, ClaimsInv
<1>3. ServerStays
  <2>1. srv.mark \in ServerMarks /\ DOMAIN srv = ServerFields
    BY DEF ConsoleInv, ClaimsInv, IsServer
  <2>2. srv'.cfg = srv.cfg /\ srv'.torn = srv.torn /\ srv'.mark = Mark(srv.mark.epoch + 1, 0)
    BY <2>1 DEF Restart, ServerFields
  <2>3. srv'.mark \in ServerMarks /\ NotOlder(srv'.mark, srv.mark)
    BY <2>1, <2>2 DEF Mark, ServerMarks, NotOlder
  <2> QED BY <2>1, <2>2, <2>3, MarkOrder DEF ServerStays
<1>4. CASE \E n \in DOMAIN edits : edits[n].at = "committed"
  <2>1. missed' = TRUE
    BY <1>4 DEF Restart
  <2> QED BY <1>1, <2>1, StoreUntouched DEF Viewing, ViewInv
<1>5. CASE \A n \in DOMAIN edits : edits[n].at # "committed"
  <2>1. ASSUME NEW n \in DOMAIN edits
        PROVE  /\ edits'[n].answer = edits[n].answer \/ ~IsConfig(edits'[n].answer)
               /\ \A k \in Kinds, L \in ServerMarks :
                    Covers(k, edits[n], L) => Covers(k, edits'[n], L)
    <3> DEFINE e == edits[n]
    <3>1. DOMAIN e = EditFields /\ e.at # "committed" /\ edits'[n] = Cut(e)
      BY <1>5, FieldsOfEdit DEF Restart, ConsoleInv
    <3> HIDE DEF e
    <3>2. CASE e.at = "sent"
      <4>1. Cut(e).at = "answered" /\ Cut(e).answer = Failed /\ Cut(e).next = e.next
            /\ Cut(e).writes = e.writes
        BY <3>1, <3>2 DEF Cut, EditFields
      <4> QED BY <3>1, <3>2, <4>1, Refusals DEF Covers, RenamesKeys, e
    <3>3. CASE e.at # "sent"
      BY <3>1, <3>3 DEF Cut, e
    <3> QED BY <3>2, <3>3
  <2>2. DOMAIN edits' = DOMAIN edits
    BY DEF Restart
  <2>3. EditsFollow /\ \A k \in Kinds, L \in ServerMarks : CoversStay(k, L)
    BY <2>1, <2>2 DEF EditsFollow, CoversStay
  <2>4. Viewing'
    BY <1>1, <1>2, <1>3, <2>3, StoreUntouched, ViewKept DEF AnswersFollow, ViewInv
  <2> QED BY <1>1, <2>4, StoreUntouched DEF ViewInv
<1> QED BY <1>4, <1>5

LEMMA ViewOfLoss ==
  ASSUME ConsoleInv, ViewInv, Lose
  PROVE  ViewInv'
<1>1. UNCHANGED <<srv, store, static>>
  BY DEF Lose, viewVars
<1>2. CASE missed' = TRUE
  BY <1>1, <1>2, StoreUntouched DEF Viewing, ViewInv
<1>3. CASE all' = [all EXCEPT !.answer = Failed] /\ UNCHANGED <<edits, missed>>
  <2>1. all'.answer = Failed
    BY <1>3 DEF ConsoleInv, ClaimsInv, IsRefresh, RefreshFields
  <2>2. Follows(all, all')
    BY <2>1, Refusals DEF Follows
  <2> QED BY <1>1, <1>3, <2>2, ServerAsItWas, RefreshAsItWas, ViewElsewhere
<1> QED BY <1>2, <1>3 DEF Lose

LEMMA ViewStart == Init => ViewInv
<1> SUFFICES ASSUME Init PROVE ViewInv
  OBVIOUS
<1>1. store = EmptyStore(1) /\ edits = << >> /\ static = Resting /\ all = Resting
      /\ srv.mark = Mark(1, 0)
  BY DEF Init
<1>2. ~Filled(store) /\ StoreOK
  BY <1>1 DEF EmptyStore, Filled, StoreOK
<1>3. srv.mark \in ServerMarks
  BY <1>1 DEF Mark, ServerMarks
<1>4. Resting.answer = Failed /\ Resting.at = "idle"
  BY DEF Resting
<1>5. \A k \in Kinds : Since(k, srv.mark)
  BY <1>1, <1>2, <1>3, <1>4, MarkOrder, Refusals DEF Since, Fits
<1>6. Waiting(srv.mark)
  BY <1>1, <1>2, <1>4 DEF Waiting, Welcome, Coming
<1> QED BY <1>2, <1>3, <1>5, <1>6 DEF ViewInv, Viewing, View

LEMMA ViewStep == ConsoleInv /\ ConsoleInv' /\ ViewInv /\ [Next]_vars => ViewInv'
<1> SUFFICES ASSUME ConsoleInv, ConsoleInv', ViewInv, [Next]_vars PROVE ViewInv'
  OBVIOUS
<1>1. CASE FlipSwitch \/ SubmitForm \/ SubmitPolicy \/ PressButton \/ SubmitEditor
  BY <1>1, ViewOfSave DEF FlipSwitch, SubmitForm, SubmitPolicy, PressButton, SubmitEditor
<1>2. ASSUME NEW n \in DOMAIN edits, SaveStep(n) PROVE ViewInv'
  BY <1>2, ViewOfCommit, ViewOfAnswer, ViewOfNextWrite, ViewOfSaveEnd DEF SaveStep
<1> QED
  BY <1>1, <1>2, ViewOfStatic, ViewOfAll, ViewOfSessions, ViewOfQuiet, ViewOfRestart, ViewOfLoss
     DEF Next, OperatorStep, NetworkStep, WorldStep

LEMMA ViewHolds == Spec => [](ConsoleInv /\ ViewInv)
<1>1. Init => ConsoleInv /\ ViewInv
  BY ClaimsStart, SavesStart, TypesStart, ViewStart DEF ConsoleInv
<1>2. ConsoleInv /\ [Next]_vars => ConsoleInv'
  BY ClaimsStep, SavesStep, TypesStep DEF ConsoleInv
<1>3. ConsoleInv /\ ViewInv /\ [Next]_vars => (ConsoleInv /\ ViewInv)'
  BY <1>2, ViewStep
<1> QED BY <1>1, <1>3, PTL DEF Spec

(* When every save has been answered, the screen shows the server's            *)
(* configuration, for any number of saves, refreshes, restarts and sessions in *)
(* any order, unless something changed without an answer we were to take.      *)
THEOREM ScreensAgree == Spec => []Agreement
<1>1. ASSUME ConsoleInv, ViewInv, Showing, ~missed, ~srv.torn,
             \A n \in DOMAIN edits : ~UnderWay(edits[n])
      PROVE  shown = srv.cfg
  <2>1. PICK L \in ServerMarks : View("whole", L)
    BY <1>1 DEF ViewInv, Viewing, Kinds
  <2>2. ~Covered("whole", L)
    BY <1>1 DEF Covered, Covers, UnderWay
  <2>3. Filled(store) /\ shown = Laid(store.confirmed, store.pending)
    BY <1>1, ShownTyped
  <2>4. store.confirmed = srv.cfg
    BY <2>1, <2>2, <2>3 DEF View, Caught, Waiting, Since, Part
  <2>5. PICK P : store.pending \in Seq(P)
    BY <1>1 DEF ConsoleInv, SavesInv, SavesOK, PendingOK
  <2>6. DOMAIN store.pending = {}
    BY <1>1 DEF ConsoleInv, SavesInv, SavesOK, PendingOK, Backed
  <2>7. Len(store.pending) = 0
    BY <2>5, <2>6
  <2>8. PICK f : /\ IsLaying(f, store.confirmed, store.pending, Len(store.pending))
                 /\ Laid(store.confirmed, store.pending) = f[Len(store.pending)]
    BY <2>5, LaidIs
  <2>9. f[0] = store.confirmed
    BY <2>7, <2>8 DEF IsLaying
  <2> QED BY <2>3, <2>4, <2>7, <2>8, <2>9
<1>2. ConsoleInv /\ ViewInv => Agreement
  BY <1>1 DEF Agreement
<1> QED BY <1>2, ViewHolds, PTL

-----------------------------------------------------------------------------
(* Steps, as the saves and the server's settings see them: either the server   *)
(* commits one write, or it keeps its keys and groups and no save gets further *)
(* than an answer.                                                             *)

(* The new id of a rename has been written.                                    *)
NewIdWritten(e) ==
  /\ Len(e.writes) = 2
  /\ \/ e.next = 2
     \/ e.at = "committed"
     \/ e.at = "answered" /\ IsConfig(e.answer)

FirstSent(e) == e.at = "sent" /\ e.next = 1

Committing(n) ==
  /\ edits[n].at = "sent"
  /\ ServerAccepts(srv.cfg, edits[n].writes[edits[n].next])
  /\ srv' = Committed(ServerApply(srv.cfg, edits[n].writes[edits[n].next]))
  /\ edits' = [edits EXCEPT ![n].at = "committed"]

GoesOn(e, f) ==
  /\ f.rk = e.rk /\ (e.orphan => f.orphan)
  /\ UnderWay(f) => /\ UnderWay(e)
                    /\ f.writes = e.writes /\ f.sees = e.sees /\ f.blind = e.blind
  /\ UnderWay(f) /\ NewIdWritten(f) => NewIdWritten(e)
  /\ FirstSent(f) => FirstSent(e)
  /\ ~(e.at = "sent" /\ f.at = "committed")

BegunNow(f) ==
  \E e : /\ Showing /\ CanBegin(store, e.rk) /\ FiledAs(e.rk, e.writes)
         /\ f = Started(e)

SavesGoOn ==
  /\ DOMAIN edits \subseteq DOMAIN edits'
  /\ \A n \in DOMAIN edits : GoesOn(edits[n], edits'[n])
  /\ \A n \in DOMAIN edits' \ DOMAIN edits : BegunNow(edits'[n])

SettingsStay == srv'.cfg.group = srv.cfg.group /\ srv'.cfg.keys = srv.cfg.keys

Uneventful == SavesGoOn /\ SettingsStay

LEMMA SameGoesOn == \A x : GoesOn(x, x)
BY DEF GoesOn

(* One save goes on, and all of them stay as they are.                         *)
LEMMA OneGoesOn ==
  ASSUME ConsoleInv, NEW n \in DOMAIN edits, NEW e, edits' = [edits EXCEPT ![n] = e],
         GoesOn(edits[n], e)
  PROVE  SavesGoOn
<1>1. edits = [m \in DOMAIN edits |-> edits[m]]
  BY EditNumbers DEF ConsoleInv, TypesInv
<1>2. /\ DOMAIN edits' = DOMAIN edits /\ edits'[n] = e
      /\ \A m \in DOMAIN edits \ {n} : edits'[m] = edits[m]
  BY <1>1
<1> QED BY <1>2, SameGoesOn DEF SavesGoOn

LEMMA AllStay ==
  ASSUME UNCHANGED edits
  PROVE  SavesGoOn
BY SameGoesOn DEF SavesGoOn

LEMMA SaveIsUneventful ==
  ASSUME ConsoleInv, NEW e, NEW types, NEW b, Offered(e, Next1), Save(e, types, b)
  PROVE  Uneventful
<1>1. SettingsStay
  BY DEF Save, SettingsStay
<1>2. CASE CanBegin(store, e.rk)
  <2>1. PICK E : edits \in Seq(E)
    BY DEF ConsoleInv, ClaimsInv, AreEdits
  <2> DEFINE s == Started(e)
  <2>2. BegunNow(s)
    BY <1>2 DEF BegunNow, Save, Offered
  <2>3. edits' = Append(edits, s)
    BY <1>2 DEF Save
  <2> HIDE DEF s
  <2>4. /\ DOMAIN edits' = 1..(Len(edits) + 1) /\ edits'[Len(edits) + 1] = s
        /\ DOMAIN edits = 1..Len(edits) /\ Len(edits) \in Nat
        /\ \A m \in DOMAIN edits : edits'[m] = edits[m]
    BY <2>1, <2>3
  <2>5. \A m \in DOMAIN edits' \ DOMAIN edits : edits'[m] = s
    BY <2>4
  <2>6. DOMAIN edits \subseteq DOMAIN edits'
    BY <2>4
  <2>7. SavesGoOn
    BY <2>2, <2>4, <2>5, <2>6, SameGoesOn DEF SavesGoOn
  <2> QED BY <1>1, <2>7 DEF Uneventful
<1>3. CASE ~CanBegin(store, e.rk)
  BY <1>1, <1>3, AllStay DEF Save, Uneventful
<1> QED BY <1>2, <1>3

LEMMA SaveStepOrCommit ==
  ASSUME ConsoleInv, NEW n \in DOMAIN edits, SaveStep(n)
  PROVE  Uneventful \/ Committing(n)
<1> DEFINE old == edits[n]
<1>1. /\ DOMAIN old = EditFields /\ edits = [m \in DOMAIN edits |-> edits[m]]
      /\ DOMAIN srv = ServerFields /\ old.next \in Nat \ {0}
  BY FieldsOfEdit, EditNumbers DEF ConsoleInv, TypesInv, ClaimsInv, IsServer, NumberedEdit
<1>2. ASSUME SettingsStay, NEW e, edits' = [edits EXCEPT ![n] = e], GoesOn(old, e)
      PROVE  Uneventful
  BY <1>2, OneGoesOn DEF Uneventful
<1>3. ASSUME SettingsStay, NEW a, edits' = [edits EXCEPT ![n].at = "answered", ![n].answer = a],
             UnderWay(old), old.at = "committed" \/ ~IsConfig(a)
      PROVE  Uneventful
  <2> DEFINE e == [old EXCEPT !.at = "answered", !.answer = a]
  <2>1. edits' = [edits EXCEPT ![n] = e]
    BY <1>1, <1>3
  <2>2. /\ e.rk = old.rk /\ e.writes = old.writes /\ e.next = old.next /\ e.sees = old.sees
        /\ e.blind = old.blind /\ e.orphan = old.orphan
        /\ e.at = "answered" /\ e.answer = a
    BY <1>1 DEF EditFields
  <2> HIDE DEF e
  <2>3. GoesOn(old, e)
    BY <1>3, <2>2 DEF GoesOn, NewIdWritten, FirstSent
  <2> QED BY <1>2, <1>3, <2>1, <2>3
<1>4. CASE ServerCommits(n)
  <2> DEFINE a == IF old.key # srv.key THEN Denied ELSE Failed
  <2>1. CASE /\ edits' = [edits EXCEPT ![n].at = "answered", ![n].answer = a]
             /\ UNCHANGED serverVars
    <3>1. ~IsConfig(a)
      BY Refusals
    <3>2. SettingsStay
      BY <2>1 DEF serverVars, SettingsStay
    <3>3. UnderWay(old)
      BY <1>4 DEF ServerCommits, UnderWay
    <3> HIDE DEF a
    <3> QED BY <1>3, <2>1, <3>1, <3>2, <3>3
  <2> QED BY <1>4, <2>1 DEF ServerCommits, Committing
<1>5. CASE ServerAnswers(n)
  <2>1. PICK a : Snapshot(a) /\ edits' = [edits EXCEPT ![n].at = "answered", ![n].answer = a]
    BY <1>5 DEF ServerAnswers
  <2>2. SettingsStay
    BY <1>1, <2>1 DEF Snapshot, SettingsStay, ServerFields
  <2>3. UnderWay(old) /\ old.at = "committed"
    BY <1>5 DEF ServerAnswers, UnderWay
  <2> QED BY <1>3, <2>1, <2>2, <2>3
<1>6. CASE SendNext(n)
  <2> DEFINE e == [old EXCEPT !.at = "sent", !.next = @ + 1, !.key = session.key]
  <2>1. edits' = [edits EXCEPT ![n] = e]
    BY <1>1, <1>6 DEF SendNext, EditFields
  <2>2. /\ e.rk = old.rk /\ e.writes = old.writes /\ e.next = old.next + 1 /\ e.sees = old.sees
        /\ e.blind = old.blind /\ e.orphan = old.orphan /\ e.at = "sent"
    BY <1>1 DEF EditFields
  <2>3. old.at = "answered" /\ IsConfig(old.answer) /\ SettingsStay
    BY <1>6 DEF SendNext, serverVars, SettingsStay
  <2> HIDE DEF e
  <2>4. e.next # 1
    BY <1>1, <2>2
  <2>5. GoesOn(old, e)
    BY <2>2, <2>3, <2>4 DEF GoesOn, NewIdWritten, UnderWay, FirstSent
  <2> QED BY <1>2, <2>1, <2>3, <2>5
<1>7. CASE SaveSucceeds(n) \/ SaveFails(n)
  <2> DEFINE e == Over(old)
  <2>1. edits' = [edits EXCEPT ![n] = e] /\ SettingsStay
    BY <1>7 DEF SaveSucceeds, SaveFails, Finish, SettingsStay
  <2>2. e.at = "over" /\ e.rk = old.rk /\ e.orphan = old.orphan
    BY <1>1 DEF Over, EditFields
  <2> HIDE DEF e
  <2>3. GoesOn(old, e)
    BY <2>2 DEF GoesOn, UnderWay, FirstSent
  <2> QED BY <1>2, <2>1, <2>3
<1> QED BY <1>4, <1>5, <1>6, <1>7 DEF SaveStep

(* Refreshes, sessions and the world.                                          *)
LEMMA OthersAreUneventful ==
  ASSUME ConsoleInv,
         TimerFires \/ ServerAnswersStatic \/ StaticArrives \/ ServerAnswersAll
           \/ PressRefresh \/ SubmitKey \/ OpenEditor \/ CloseEditor \/ Type \/ Leave
           \/ ForeignChange \/ ForeignKey \/ UNCHANGED vars
  PROVE  Uneventful
<1>1. UNCHANGED edits
  BY DEF TimerFires, ServerAnswersStatic, StaticArrives, ServerAnswersAll, PressRefresh, SubmitKey,
         OpenEditor, CloseEditor, Type, Leave, ForeignChange, ForeignKey, vars
<1>2. DOMAIN srv = ServerFields /\ srv.cfg \in Configs
  BY DEF ConsoleInv, ClaimsInv, IsServer, TypesInv, TypedServer
<1>3. SettingsStay
  <2>1. CASE ServerAnswersStatic \/ ServerAnswersAll
    <3>1. UNCHANGED srv \/ srv' = [srv EXCEPT !.torn = TRUE]
      BY <2>1 DEF ServerAnswersStatic, ServerAnswersAll, Reads, Snapshot
    <3> QED BY <1>2, <3>1 DEF SettingsStay, ServerFields
  <2>2. CASE ForeignChange
    <3> DEFINE w == SetKnob("routing", Foreign)
    <3>1. ServerApply(srv.cfg, w) = [srv.cfg EXCEPT !.knob["routing"] = Foreign]
      BY DEF ServerApply, SetKnob
    <3>2. /\ ServerApply(srv.cfg, w).group = srv.cfg.group
          /\ ServerApply(srv.cfg, w).keys = srv.cfg.keys
      BY <1>2, <3>1 DEF Configs
    <3> HIDE DEF w
    <3>3. srv' = Committed(ServerApply(srv.cfg, w))
      BY <2>2 DEF ForeignChange, w
    <3>4. srv'.cfg = ServerApply(srv.cfg, w)
      BY <1>2, <3>3 DEF Committed, ServerFields
    <3> QED BY <3>2, <3>4 DEF SettingsStay
  <2>3. CASE ForeignKey
    BY <1>2, <2>3 DEF ForeignKey, SettingsStay, ServerFields
  <2>4. CASE UNCHANGED srv
    BY <2>4 DEF SettingsStay
  <2> QED BY <2>1, <2>2, <2>3, <2>4 DEF TimerFires, StaticArrives, PressRefresh, SubmitKey,
             OpenEditor, CloseEditor, Type, Leave, serverVars, vars
<1> QED BY <1>1, <1>3, AllStay DEF Uneventful

LEMMA SessionEndIsUneventful ==
  ASSUME ConsoleInv, AllArrives \/ KeyChecked
  PROVE  Uneventful
<1>1. SettingsStay
  BY DEF AllArrives, KeyChecked, serverVars, SettingsStay
<1>2. CASE edits' = Orphaned
  <2>1. ASSUME NEW n \in DOMAIN edits PROVE GoesOn(edits[n], edits'[n])
    <3>1. DOMAIN edits[n] = EditFields
      BY FieldsOfEdit DEF ConsoleInv
    <3>2. CASE edits[n].at = "over"
      BY <1>2, <3>2, SameGoesOn DEF Orphaned
    <3>3. CASE edits[n].at # "over"
      <4> DEFINE e == [edits[n] EXCEPT !.orphan = TRUE]
      <4>1. edits'[n] = e
        BY <1>2, <3>3 DEF Orphaned
      <4>2. /\ e.rk = edits[n].rk /\ e.writes = edits[n].writes /\ e.next = edits[n].next
            /\ e.at = edits[n].at /\ e.answer = edits[n].answer
            /\ e.sees = edits[n].sees /\ e.blind = edits[n].blind /\ e.orphan = TRUE
        BY <3>1 DEF EditFields
      <4> HIDE DEF e
      <4> QED BY <4>1, <4>2 DEF GoesOn, UnderWay, NewIdWritten, FirstSent
    <3> QED BY <3>2, <3>3
  <2>2. DOMAIN edits' = DOMAIN edits
    BY <1>2 DEF Orphaned
  <2>3. SavesGoOn
    BY <2>1, <2>2 DEF SavesGoOn
  <2> QED BY <1>1, <2>3 DEF Uneventful
<1>3. CASE UNCHANGED edits
  BY <1>1, <1>3, AllStay DEF Uneventful
<1> QED BY <1>2, <1>3 DEF AllArrives, KeyChecked, LoggedOut

LEMMA BreaksAreUneventful ==
  ASSUME ConsoleInv, Restart \/ Lose
  PROVE  Uneventful
<1>1. DOMAIN srv = ServerFields /\ \A n \in DOMAIN edits : DOMAIN edits[n] = EditFields
  BY FieldsOfEdit DEF ConsoleInv, ClaimsInv, IsServer
<1>2. SettingsStay
  BY <1>1 DEF Restart, Lose, SettingsStay, ServerFields
<1>3. CASE Restart
  <2>1. ASSUME NEW n \in DOMAIN edits PROVE GoesOn(edits[n], Cut(edits[n]))
    <3> DEFINE e == [edits[n] EXCEPT !.at = "answered", !.answer = Failed]
    <3>1. CASE edits[n].at \in {"sent", "committed"}
      <4>1. Cut(edits[n]) = e
        BY <3>1 DEF Cut
      <4>2. /\ e.rk = edits[n].rk /\ e.writes = edits[n].writes /\ e.next = edits[n].next
            /\ e.at = "answered" /\ e.answer = Failed /\ e.sees = edits[n].sees
            /\ e.blind = edits[n].blind /\ e.orphan = edits[n].orphan
        BY <1>1 DEF EditFields
      <4> HIDE DEF e
      <4> QED BY <3>1, <4>1, <4>2, Refusals DEF GoesOn, UnderWay, NewIdWritten, FirstSent
    <3>2. CASE edits[n].at \notin {"sent", "committed"}
      BY <3>2, SameGoesOn DEF Cut
    <3> QED BY <3>1, <3>2
  <2>2. DOMAIN edits' = DOMAIN edits /\ \A n \in DOMAIN edits : edits'[n] = Cut(edits[n])
    BY <1>3 DEF Restart
  <2>3. SavesGoOn
    BY <2>1, <2>2 DEF SavesGoOn
  <2> QED BY <1>2, <2>3 DEF Uneventful
<1>4. ASSUME NEW n \in DOMAIN edits, edits[n].at = "answered", IsConfig(edits[n].answer),
             edits' = [edits EXCEPT ![n].answer = Failed]
      PROVE  Uneventful
  <2> DEFINE e == [edits[n] EXCEPT !.answer = Failed]
  <2>1. edits' = [edits EXCEPT ![n] = e]
    BY <1>4
  <2>2. /\ e.rk = edits[n].rk /\ e.writes = edits[n].writes /\ e.next = edits[n].next
        /\ e.at = edits[n].at /\ e.answer = Failed /\ e.sees = edits[n].sees
        /\ e.blind = edits[n].blind /\ e.orphan = edits[n].orphan
    BY <1>1 DEF EditFields
  <2> HIDE DEF e
  <2>3. GoesOn(edits[n], e)
    BY <1>4, <2>2, Refusals DEF GoesOn, UnderWay, NewIdWritten, FirstSent
  <2>4. SavesGoOn
    BY <2>1, <2>3, OneGoesOn
  <2> QED BY <1>2, <2>4 DEF Uneventful
<1>5. CASE UNCHANGED edits
  BY <1>2, <1>5, AllStay DEF Uneventful
<1> QED BY <1>3, <1>4, <1>5 DEF Lose

LEMMA EveryStep ==
  ConsoleInv /\ [Next]_vars => Uneventful \/ \E n \in DOMAIN edits : Committing(n)
<1> SUFFICES ASSUME ConsoleInv, [Next]_vars
             PROVE  Uneventful \/ \E n \in DOMAIN edits : Committing(n)
  OBVIOUS
<1>1. CASE FlipSwitch \/ SubmitForm \/ SubmitPolicy \/ PressButton \/ SubmitEditor
  BY <1>1, BegunAsOffered, SaveIsUneventful
<1>2. ASSUME NEW n \in DOMAIN edits, SaveStep(n) PROVE Uneventful \/ Committing(n)
  BY <1>2, SaveStepOrCommit
<1> QED
  BY <1>1, <1>2, OthersAreUneventful, SessionEndIsUneventful, BreaksAreUneventful
     DEF Next, OperatorStep, NetworkStep, WorldStep

(* What a commit is.                                                           *)
LEMMA CommitOfOne ==
  ASSUME ConsoleInv, NEW n \in DOMAIN edits, Committing(n)
  PROVE  /\ DOMAIN edits' = DOMAIN edits
         /\ \A m \in DOMAIN edits \ {n} : edits'[m] = edits[m]
         /\ edits'[n].at = "committed" /\ edits'[n].rk = edits[n].rk
         /\ edits'[n].writes = edits[n].writes /\ edits'[n].orphan = edits[n].orphan
<1>1. DOMAIN edits[n] = EditFields /\ edits = [m \in DOMAIN edits |-> edits[m]]
  BY FieldsOfEdit, EditNumbers DEF ConsoleInv, TypesInv
<1> DEFINE e == [edits[n] EXCEPT !.at = "committed"]
<1>2. edits' = [edits EXCEPT ![n] = e]
  BY DEF Committing
<1>3. /\ e.at = "committed" /\ e.rk = edits[n].rk
      /\ e.writes = edits[n].writes /\ e.orphan = edits[n].orphan
  BY <1>1 DEF EditFields
<1> HIDE DEF e
<1>4. /\ DOMAIN edits' = DOMAIN edits /\ edits'[n] = e
      /\ \A m \in DOMAIN edits \ {n} : edits'[m] = edits[m]
  BY <1>1, <1>2
<1> QED BY <1>3, <1>4

LEMMA CommittedSettings ==
  ASSUME ConsoleInv, NEW n \in DOMAIN edits, Committing(n)
  PROVE  /\ srv'.cfg = ServerApply(srv.cfg, edits[n].writes[edits[n].next])
         /\ srv.cfg \in Configs /\ ServerAccepts(srv.cfg, edits[n].writes[edits[n].next])
<1>1. DOMAIN srv = ServerFields /\ srv.cfg \in Configs
  BY DEF ConsoleInv, ClaimsInv, IsServer, TypesInv, TypedServer
<1> DEFINE c == ServerApply(srv.cfg, edits[n].writes[edits[n].next])
<1>2. srv' = Committed(c) /\ ServerAccepts(srv.cfg, edits[n].writes[edits[n].next])
  BY DEF Committing
<1> HIDE DEF c
<1>3. srv'.cfg = c
  BY <1>1, <1>2 DEF Committed, ServerFields
<1> QED BY <1>1, <1>2, <1>3 DEF c

LEMMA CommittedWriteIs ==
  ASSUME ConsoleInv, NEW n \in DOMAIN edits, Committing(n)
  PROVE  LET old == edits[n] IN
         /\ n \in EditIds /\ n # Absent /\ old.at = "sent"
         /\ old.writes[old.next] \in SingleWrites(n) /\ FiledAs(old.rk, old.writes)
         /\ old.next = 1 \/ (old.next = 2 /\ Len(old.writes) = 2)
         /\ Len(old.writes) = 1 \/ Len(old.writes) = 2
         /\ Len(old.writes) = 2 =>
              /\ old.writes[1].op = "group" /\ old.writes[1].g \in Groups /\ old.writes[1].v = n
              /\ old.writes[2].op = "group" /\ old.writes[2].g \in Groups
<1> DEFINE old == edits[n]
           ws == old.writes
           i == old.next
<1>1. TypedEdit(n, old) /\ n \in EditIds
  BY EditNumbers DEF ConsoleInv, TypesInv, TypedSaves
<1>2. n # Absent
  BY <1>1 DEF EditIds, Absent
<1>3. old.at = "sent"
  BY DEF Committing
<1>4. ws \in WritesOf(n) /\ i \in DOMAIN ws /\ FiledAs(old.rk, ws)
  BY <1>1, <1>3 DEF TypedEdit, UnderWay
<1> HIDE DEF ws, i
<1>5. /\ Len(ws) \in {1, 2} /\ DOMAIN ws = 1..Len(ws)
      /\ Len(ws) = 2 => /\ ws[1].op = "group" /\ ws[1].g \in Groups /\ ws[1].v = n
                        /\ ws[2].op = "group" /\ ws[2].g \in Groups
  BY <1>4, WritesOfRename
<1>6. ws[i] \in SingleWrites(n)
  BY <1>4, WriteTyped
<1>7. i = 1 \/ (i = 2 /\ Len(ws) = 2)
  <2>1. CASE Len(ws) = 1
    BY <1>4, <1>5, <2>1
  <2>2. CASE Len(ws) = 2
    BY <1>4, <1>5, <2>2
  <2> QED BY <1>5, <2>1, <2>2
<1> QED BY <1>1, <1>2, <1>3, <1>4, <1>5, <1>6, <1>7 DEF ws, i

-----------------------------------------------------------------------------
(* Renaming a group: what was written under the new id stays, unless another   *)
(* save of a group is about.                                                   *)
OtherGroupSave(n) == \E m \in DOMAIN edits \ {n} : edits[m].rk \in GroupKeys

RenameInv ==
  \A n \in DOMAIN edits :
    UnderWay(edits[n]) /\ NewIdWritten(edits[n])
    => srv.cfg.group[edits[n].writes[1].g] # Absent \/ OtherGroupSave(n)

RenameStep ==
  \A n \in DOMAIN edits :
    Commits(n) /\ Len(edits[n].writes) > 1
    => \/ \E g \in Groups : srv'.cfg.group[g] # Absent
       \/ \E m \in DOMAIN edits \ {n} : edits[m].rk \in GroupKeys

LEMMA RenameCarried ==
  ASSUME RenameInv, Uneventful
  PROVE  RenameInv' /\ RenameStep
<1>1. RenameInv'
  <2> SUFFICES ASSUME NEW n \in DOMAIN edits', UnderWay(edits'[n]), NewIdWritten(edits'[n])
               PROVE  srv'.cfg.group[edits'[n].writes[1].g] # Absent \/ OtherGroupSave(n)'
    BY DEF RenameInv, UnderWay, NewIdWritten, IsConfig
  <2>1. n \in DOMAIN edits /\ GoesOn(edits[n], edits'[n])
    <3>1. \A e : ~NewIdWritten(Started(e))
      <4> TAKE e
      <4> DEFINE s == Started(e)
      <4>1. s.next = 1 /\ s.at = "sent"
        BY DEF Started
      <4> HIDE DEF s
      <4>2. ~NewIdWritten(s)
        BY <4>1 DEF NewIdWritten
      <4> QED BY <4>2 DEF s
    <3> QED BY <3>1 DEF Uneventful, SavesGoOn, BegunNow
  <2>2. /\ UnderWay(edits[n]) /\ NewIdWritten(edits[n])
        /\ edits'[n].writes[1].g = edits[n].writes[1].g
    BY <2>1 DEF GoesOn
  <2>3. OtherGroupSave(n) => OtherGroupSave(n)'
    BY DEF OtherGroupSave, Uneventful, SavesGoOn, GoesOn
  <2> QED BY <2>1, <2>2, <2>3 DEF RenameInv, Uneventful, SettingsStay
<1>2. RenameStep
  BY DEF RenameStep, Uneventful, SavesGoOn, GoesOn, Commits
<1> QED BY <1>1, <1>2

(* The write of save n is committed.                                           *)
LEMMA GroupOfWrite ==
  ASSUME NEW n \in EditIds, NEW c \in Configs, NEW w \in SingleWrites(n), ServerAccepts(c, w)
  PROVE  /\ w.op # "group" => ServerApply(c, w).group = c.group
         /\ w.op = "group" => /\ w.g \in Groups
                              /\ ServerApply(c, w).group = [c.group EXCEPT ![w.g] = w.v]
<1>1. DOMAIN c = {"knob", "static", "keys", "group"}
  BY DEF Configs
<1>2. w.op \in {"knob", "static", "addKey", "editKey", "deleteKey", "group"}
  BY KindsOfWrite
<1>3. CASE w.op = "group"
  <2>1. ServerApply(c, w) = [c EXCEPT !.group[w.g] = w.v]
    BY <1>3 DEF ServerApply
  <2>2. w.g \in Groups
    BY <1>3, KindsOfWrite
  <2> QED BY <1>1, <1>3, <2>1, <2>2
<1>4. CASE w.op # "group"
  <2>1. CASE w.op = "knob"
    BY <1>1, <2>1 DEF ServerApply
  <2>2. CASE w.op = "static"
    BY <1>1, <2>2 DEF ServerApply
  <2>3. CASE w.op = "addKey"
    BY <1>1, <2>3 DEF ServerApply
  <2>4. CASE w.op = "editKey"
    BY <1>1, <2>4 DEF ServerApply
  <2>5. CASE w.op = "deleteKey"
    BY <1>1, <2>5 DEF ServerApply
  <2> QED BY <1>2, <1>4, <2>1, <2>2, <2>3, <2>4, <2>5
<1> QED BY <1>3, <1>4

LEMMA RenameAtCommit ==
  ASSUME ConsoleInv, RenameInv, NEW n \in DOMAIN edits, Committing(n)
  PROVE  RenameInv' /\ RenameStep
<1> DEFINE old == edits[n]
           w == old.writes[old.next]
           c == ServerApply(srv.cfg, w)
<1>1. /\ DOMAIN edits' = DOMAIN edits
      /\ \A m \in DOMAIN edits \ {n} : edits'[m] = edits[m]
      /\ edits'[n].rk = old.rk /\ edits'[n].writes = old.writes
  BY CommitOfOne
<1>2. srv'.cfg = c /\ srv.cfg \in Configs /\ ServerAccepts(srv.cfg, w)
  BY CommittedSettings
<1>3. /\ n \in EditIds /\ n # Absent /\ old.at = "sent" /\ w \in SingleWrites(n)
      /\ FiledAs(old.rk, old.writes)
  BY CommittedWriteIs
<1>4. /\ old.next = 1 \/ (old.next = 2 /\ Len(old.writes) = 2)
      /\ Len(old.writes) = 1 \/ Len(old.writes) = 2
      /\ Len(old.writes) = 2 =>
            /\ old.writes[1].op = "group" /\ old.writes[1].g \in Groups /\ old.writes[1].v = n
            /\ old.writes[2].op = "group" /\ old.writes[2].g \in Groups
  BY CommittedWriteIs
<1>5. \A m \in DOMAIN edits : OtherGroupSave(m)' <=> OtherGroupSave(m)
  BY <1>1 DEF OtherGroupSave
<1> HIDE DEF w
<1>6. /\ w.op # "group" => c.group = srv.cfg.group
      /\ w.op = "group" => /\ w.g \in Groups
                           /\ c.group = [srv.cfg.group EXCEPT ![w.g] = w.v]
  BY <1>2, <1>3, GroupOfWrite
<1>7. DOMAIN srv.cfg.group = Groups
  BY <1>2 DEF Configs
<1>8. w.op = "group" => old.rk \in GroupKeys
  BY <1>3, <1>4 DEF FiledAs, w
<1> HIDE DEF c, old
<1>9. ASSUME Len(old.writes) = 2
      PROVE  c.group[old.writes[1].g] # Absent \/ OtherGroupSave(n)
  <2>1. CASE old.next = 1
    BY <1>3, <1>4, <1>6, <1>7, <1>9, <2>1 DEF w
  <2>2. CASE old.next = 2
    <3>1. srv.cfg.group[old.writes[1].g] # Absent \/ OtherGroupSave(n)
      BY <1>3, <1>9, <2>2 DEF RenameInv, NewIdWritten, UnderWay, old
    <3>2. old.writes[1].g # w.g /\ w.op = "group"
      BY <1>3, <1>4, <1>9, <2>2 DEF FiledAs, w
    <3>3. c.group[old.writes[1].g] = srv.cfg.group[old.writes[1].g]
      BY <1>4, <1>6, <1>7, <1>9, <3>2
    <3> QED BY <3>1, <3>3
  <2> QED BY <1>4, <2>1, <2>2
<1>10. RenameInv'
  <2> SUFFICES ASSUME NEW m \in DOMAIN edits', UnderWay(edits'[m]), NewIdWritten(edits'[m])
               PROVE  srv'.cfg.group[edits'[m].writes[1].g] # Absent \/ OtherGroupSave(m)'
    BY DEF RenameInv, UnderWay, NewIdWritten, IsConfig
  <2>1. CASE m = n
    <3>1. Len(old.writes) = 2
      BY <1>1, <2>1 DEF NewIdWritten, old
    <3> QED BY <1>1, <1>2, <1>5, <1>9, <2>1, <3>1 DEF old
  <2>2. CASE m # n
    <3>1. m \in DOMAIN edits /\ edits'[m] = edits[m]
      BY <1>1, <2>2
    <3>2. srv.cfg.group[edits[m].writes[1].g] # Absent \/ OtherGroupSave(m)
      BY <3>1 DEF RenameInv
    <3>3. CASE w.op = "group"
      <4>1. OtherGroupSave(m)
        BY <1>8, <2>2, <3>3 DEF OtherGroupSave, old
      <4> QED BY <1>5, <3>1, <4>1
    <3>4. CASE w.op # "group"
      BY <1>2, <1>5, <1>6, <3>1, <3>2, <3>4
    <3> QED BY <3>3, <3>4
  <2> QED BY <2>1, <2>2
<1>11. RenameStep
  <2> SUFFICES ASSUME NEW m \in DOMAIN edits, Commits(m), Len(edits[m].writes) > 1
               PROVE  \/ \E g \in Groups : srv'.cfg.group[g] # Absent
                      \/ OtherGroupSave(m)
    BY DEF RenameStep, OtherGroupSave
  <2>1. m = n
    BY <1>1 DEF Commits
  <2>2. Len(old.writes) > 1
    BY <2>1 DEF old
  <2>3. CASE Len(old.writes) = 1
    <3>1. FALSE
      BY <2>2, <2>3
    <3> QED BY <3>1
  <2>4. CASE Len(old.writes) = 2
    BY <1>2, <1>4, <1>9, <2>1, <2>4
  <2> QED BY <1>4, <2>3, <2>4
<1> QED BY <1>10, <1>11

(* However a rename of a variant group fails or is interrupted, at every one   *)
(* of its writes the provider has a group: the new id before the old one is    *)
(* emptied (planVariantGroupSave() lists the new one first).                   *)
THEOREM RenamesKeepAGroup == Spec => RenameKeepsTheGroup
<1>1. Init => ConsoleInv /\ RenameInv
  BY ClaimsStart, SavesStart, TypesStart DEF ConsoleInv, RenameInv, Init
<1>2. ConsoleInv /\ RenameInv /\ [Next]_vars => RenameInv' /\ RenameStep
  BY EveryStep, RenameCarried, RenameAtCommit
<1>3. ConsoleInv /\ RenameInv /\ [Next]_vars => (ConsoleInv /\ RenameInv)'
  BY <1>2, ClaimsStep, SavesStep, TypesStep DEF ConsoleInv
<1>4. ConsoleInv /\ RenameInv /\ [Next]_vars =>
        [\A n \in DOMAIN edits :
           Commits(n) /\ Len(edits[n].writes) > 1
           => \/ \E g \in Groups : srv'.cfg.group[g] # Absent
              \/ \E m \in DOMAIN edits \ {n} : edits[m].rk \in GroupKeys]_vars
  BY <1>2 DEF RenameStep
<1> QED BY <1>1, <1>3, <1>4, PTL DEF Spec, RenameKeepsTheGroup
-----------------------------------------------------------------------------
(* Deleting a key by its position. Previews change the ids of the keys shown   *)
(* only where a key is being added.                                            *)
LEMMA NamesOfPreviewWrite ==
  ASSUME NEW n \in EditIds, NEW c \in Configs, NEW w \in SingleWrites(n), w.op # "addKey"
  PROVE  KeyNames(PreviewWrite(c, w).keys) = KeyNames(c.keys)
<1>1. CASE w.op = "deleteKey"
  BY <1>1 DEF PreviewWrite
<1>2. CASE w.op = "editKey"
  <2>1. CASE w.i \in DOMAIN c.keys
    <3>1. ServerAccepts(c, w)
      BY <2>1 DEF ServerAccepts
    <3>2. PreviewWrite(c, w) = ServerApply(c, w)
      BY <1>2, <2>1 DEF PreviewWrite
    <3> QED BY <1>2, <3>1, <3>2, NamesOfWrite
  <2>2. CASE w.i \notin DOMAIN c.keys
    BY <1>2, <2>2 DEF PreviewWrite
  <2> QED BY <2>1, <2>2
<1>3. CASE w.op \notin {"deleteKey", "editKey"}
  <2>1. ServerAccepts(c, w)
    BY <1>3 DEF ServerAccepts
  <2>2. PreviewWrite(c, w) = ServerApply(c, w)
    BY <1>3 DEF PreviewWrite
  <2> QED BY <1>3, <2>1, <2>2, NamesOfWrite
<1> QED BY <1>1, <1>2, <1>3

LEMMA NamesOfPreview ==
  ASSUME NEW n \in EditIds, NEW c \in Configs, NEW ws \in WritesOf(n), ws[1].op # "addKey"
  PROVE  KeyNames(Preview(c, ws).keys) = KeyNames(c.keys)
<1>1. ASSUME NEW w \in SingleWrites(n), ws = << w >>
      PROVE  KeyNames(Preview(c, ws).keys) = KeyNames(c.keys)
  <2>1. ws[1] = w /\ Preview(c, ws) = PreviewWrite(c, w)
    BY <1>1, PreviewOfOne
  <2> QED BY <2>1, NamesOfPreviewWrite
<1>2. ASSUME NEW g \in Groups, NEW h \in Groups,
             ws = << SetGroup(h, n), SetGroup(g, Absent) >>
      PROVE  KeyNames(Preview(c, ws).keys) = KeyNames(c.keys)
  <2> DEFINE v == SetGroup(h, n)
             w == SetGroup(g, Absent)
             d == PreviewWrite(c, v)
  <2>1. v \in SingleWrites(n) /\ w \in SingleWrites(n)
    BY DEF SingleWrites
  <2>2. Preview(c, ws) = PreviewWrite(d, w)
    BY <1>2, PreviewOfTwo
  <2>3. v.op = "group" /\ w.op = "group"
    BY DEF SetGroup
  <2> HIDE DEF v, w
  <2>4. d \in Configs /\ KeyNames(d.keys) = KeyNames(c.keys)
    BY <2>1, <2>3, Previewed, NamesOfPreviewWrite
  <2> HIDE DEF d
  <2>5. KeyNames(PreviewWrite(d, w).keys) = KeyNames(d.keys)
    BY <2>1, <2>3, <2>4, NamesOfPreviewWrite
  <2> QED BY <2>2, <2>4, <2>5
<1> QED BY <1>1, <1>2 DEF WritesOf

LEMMA NamesLaid ==
  ASSUME NEW c \in Configs, NEW E, NEW es \in Seq(E),
         \A i \in DOMAIN es :
           es[i].id \in EditIds /\ es[i].writes \in WritesOf(es[i].id) /\ es[i].writes[1].op # "addKey"
  PROVE  KeyNames(Laid(c, es).keys) = KeyNames(c.keys)
<1>1. PICK f : IsLaying(f, c, es, Len(es)) /\ Laid(c, es) = f[Len(es)]
  BY LaidIs
<1>2. \A m \in 0..Len(es) : f[m] \in Configs
  BY <1>1, LaidTyped
<1> DEFINE M == Len(es)
           Same(m) == KeyNames(f[m].keys) = KeyNames(c.keys)
           T == {m \in 0..M : ~Same(m)}
<1>3. M \in Nat /\ DOMAIN es = 1..M
  OBVIOUS
<1>4. f = [k \in 0..M |-> IF k = 0 THEN c ELSE Preview(f[k - 1], es[k].writes)]
  BY <1>1 DEF IsLaying
<1> HIDE DEF M
<1>5. f[0] = c
  BY <1>3, <1>4
<1>6. ASSUME NEW m \in 1..M PROVE f[m] = Preview(f[m - 1], es[m].writes)
  <2>1. m \in 0..M /\ m # 0
    BY <1>3
  <2>2. f[m] = IF m = 0 THEN c ELSE Preview(f[m - 1], es[m].writes)
    BY <1>4, <2>1
  <2> QED BY <2>1, <2>2
<1>7. T = {}
  <2> SUFFICES ASSUME T # {} PROVE FALSE
    OBVIOUS
  <2>1. T \subseteq Nat
    BY <1>3
  <2>2. PICK m \in T : \A k \in T : m <= k
    <3> HIDE DEF T
    <3> QED BY <2>1, Smallest
  <2>3. m # 0
    BY <1>5, <2>2
  <2>4. m \in 1..M /\ m - 1 \in 0..M /\ ~(m <= m - 1) /\ ~Same(m)
    BY <1>3, <2>2, <2>3
  <2>5. Same(m - 1)
    BY <2>2, <2>4
  <2>6. f[m - 1] \in Configs /\ f[m] = Preview(f[m - 1], es[m].writes)
    BY <1>2, <1>6, <2>4 DEF M
  <2>7. es[m].id \in EditIds /\ es[m].writes \in WritesOf(es[m].id) /\ es[m].writes[1].op # "addKey"
    BY <1>3, <2>4
  <2>8. KeyNames(f[m].keys) = KeyNames(f[m - 1].keys)
    BY <2>6, <2>7, NamesOfPreview
  <2> QED BY <2>4, <2>5, <2>8
<1>8. M \in 0..M
  BY <1>3
<1>9. Same(M)
  BY <1>7, <1>8
<1> QED BY <1>1, <1>9 DEF M

(* No session has ended with a save under way.                                 *)
NoOrphans == \A m \in DOMAIN edits : ~edits[m].orphan

(* A save that adds or deletes a key is the only one of its resource.          *)
LEMMA KeySaveIsPending ==
  ASSUME ConsoleInv, NoOrphans, NEW n \in DOMAIN edits, UnderWay(edits[n]), RenamesKeys(edits[n])
  PROVE  \E i \in DOMAIN store.pending : store.pending[i].id = n /\ store.pending[i].rk = "keys"
<1>1. PendingOK(store.pending, edits)
  BY DEF ConsoleInv, SavesInv, SavesOK
<1>2. PICK i \in DOMAIN store.pending : store.pending[i].id = n
  BY <1>1 DEF PendingOK, NoOrphans
<1>3. store.pending[i].rk = edits[n].rk
  BY <1>1, <1>2 DEF PendingOK, Backed
<1>4. TypedEdit(n, edits[n])
  BY DEF ConsoleInv, TypesInv, TypedSaves
<1>5. edits[n].rk = "keys"
  BY <1>4 DEF TypedEdit, FiledAs, RenamesKeys
<1> QED BY <1>2, <1>3, <1>5

LEMMA OneKeySave ==
  ASSUME ConsoleInv, NoOrphans, NEW m \in DOMAIN edits, NEW n \in DOMAIN edits,
         UnderWay(edits[m]), RenamesKeys(edits[m]), UnderWay(edits[n]), RenamesKeys(edits[n])
  PROVE  m = n
<1>1. PICK i \in DOMAIN store.pending : store.pending[i].id = m /\ store.pending[i].rk = "keys"
  BY KeySaveIsPending
<1>2. PICK j \in DOMAIN store.pending : store.pending[j].id = n /\ store.pending[j].rk = "keys"
  BY KeySaveIsPending
<1>3. i = j
  BY <1>1, <1>2 DEF ConsoleInv, SavesInv, SavesOK, PendingOK
<1> QED BY <1>1, <1>2, <1>3

(* When a delete can begin, the screen lists the keys the server has.          *)
LEMMA ScreenListsTheKeys ==
  ASSUME ConsoleInv, ViewInv, NoOrphans, Showing, CanBegin(store, "keys"), ~missed, ~srv.torn
  PROVE  KeyNames(shown.keys) = KeyNames(srv.cfg.keys)
<1>1. PICK L \in ServerMarks : View("names", L)
  BY DEF ViewInv, Viewing, Kinds
<1>2. ~Covered("names", L)
  <2> SUFFICES ASSUME NEW n \in DOMAIN edits, Covers("names", edits[n], L) PROVE FALSE
    BY DEF Covered
  <2>1. UnderWay(edits[n]) /\ RenamesKeys(edits[n])
    BY DEF Covers, UnderWay
  <2>2. \E i \in DOMAIN store.pending : store.pending[i].rk = "keys"
    BY <2>1, KeySaveIsPending
  <2> QED BY <2>2 DEF CanBegin, PendingKeys
<1>3. Filled(store) /\ shown = Laid(store.confirmed, store.pending)
  BY ShownTyped
<1>4. KeyNames(store.confirmed.keys) = KeyNames(srv.cfg.keys)
  BY <1>1, <1>2, <1>3 DEF View, Caught, Waiting, Since, Part
<1>5. PICK P : store.pending \in Seq(P)
  BY DEF ConsoleInv, SavesInv, SavesOK, PendingOK
<1>6. store.confirmed \in Configs
  BY <1>3 DEF ConsoleInv, TypesInv, TypedStore, Filled
<1>7. ASSUME NEW i \in DOMAIN store.pending
      PROVE  /\ store.pending[i].id \in EditIds
             /\ store.pending[i].writes \in WritesOf(store.pending[i].id)
             /\ store.pending[i].writes[1].op # "addKey"
  <2> DEFINE p == store.pending[i]
  <2>1. p.id \in EditIds /\ p.writes \in WritesOf(p.id)
    BY PendingTyped
  <2>2. Backed(p, edits)
    BY DEF ConsoleInv, SavesInv, SavesOK, PendingOK
  <2>3. FiledAs(p.rk, p.writes)
    BY <2>2 DEF Backed, ConsoleInv, TypesInv, TypedSaves, TypedEdit
  <2>4. p.rk # "keys"
    BY DEF CanBegin, PendingKeys
  <2> QED BY <2>1, <2>3, <2>4 DEF FiledAs
<1>8. KeyNames(Laid(store.confirmed, store.pending).keys) = KeyNames(store.confirmed.keys)
  BY <1>5, <1>6, <1>7, NamesLaid
<1> QED BY <1>3, <1>4, <1>8

(* A delete whose request is on its way, begun on a screen that was not behind. *)
Pointing(e) == FirstSent(e) /\ e.writes[1].op = "deleteKey" /\ ~e.blind

DeleteInv ==
  NoOrphans => \A n \in DOMAIN edits :
                 Pointing(edits[n]) => KeyNames(edits[n].sees) = KeyNames(srv.cfg.keys)

DeleteStep ==
  \A n \in DOMAIN edits :
    /\ Commits(n) /\ CommittedWrite(n).op = "deleteKey"
    /\ ~edits[n].blind /\ \A m \in DOMAIN edits : ~edits[m].orphan
    => LET i == CommittedWrite(n).i
       IN  i \in DOMAIN edits[n].sees /\ srv.cfg.keys[i].id = edits[n].sees[i].id

LEMMA DeleteCarried ==
  ASSUME ConsoleInv, ViewInv, DeleteInv, Uneventful
  PROVE  DeleteInv' /\ DeleteStep
<1>1. DeleteInv'
  <2> SUFFICES ASSUME NoOrphans', NEW n \in DOMAIN edits', Pointing(edits'[n])
               PROVE  KeyNames(edits'[n].sees) = KeyNames(srv'.cfg.keys)
    BY DEF DeleteInv, Pointing, FirstSent
  <2>1. NoOrphans
    BY DEF NoOrphans, Uneventful, SavesGoOn, GoesOn
  <2>2. srv'.cfg.keys = srv.cfg.keys
    BY DEF Uneventful, SettingsStay
  <2>3. CASE n \in DOMAIN edits
    <3>1. GoesOn(edits[n], edits'[n]) /\ UnderWay(edits'[n])
      BY <2>3 DEF Uneventful, SavesGoOn, Pointing, FirstSent, UnderWay
    <3>2. Pointing(edits[n]) /\ edits'[n].sees = edits[n].sees
      BY <3>1 DEF GoesOn, Pointing
    <3> QED BY <2>1, <2>2, <2>3, <3>2 DEF DeleteInv
  <2>4. CASE n \notin DOMAIN edits
    <3>1. PICK e : /\ Showing /\ CanBegin(store, e.rk) /\ FiledAs(e.rk, e.writes)
                   /\ edits'[n] = Started(e)
      BY <2>4 DEF Uneventful, SavesGoOn, BegunNow
    <3>2. /\ edits'[n].writes = e.writes /\ edits'[n].sees = shown.keys
          /\ edits'[n].blind = (missed \/ srv.torn)
      BY <3>1 DEF Started
    <3>3. e.rk = "keys" /\ ~(missed \/ srv.torn)
      BY <3>1, <3>2 DEF Pointing, FiledAs
    <3>4. KeyNames(shown.keys) = KeyNames(srv.cfg.keys)
      BY <2>1, <3>1, <3>3, ScreenListsTheKeys
    <3> QED BY <2>2, <3>2, <3>4
  <2> QED BY <2>3, <2>4
<1>2. DeleteStep
  BY DEF DeleteStep, Uneventful, SavesGoOn, GoesOn, Commits
<1> QED BY <1>1, <1>2

LEMMA DeleteAtCommit ==
  ASSUME ConsoleInv, DeleteInv, NEW n \in DOMAIN edits, Committing(n)
  PROVE  DeleteInv' /\ DeleteStep
<1>1. /\ DOMAIN edits' = DOMAIN edits
      /\ \A m \in DOMAIN edits \ {n} : edits'[m] = edits[m]
      /\ edits'[n].at = "committed" /\ edits'[n].orphan = edits[n].orphan
  BY CommitOfOne
<1>2. NoOrphans' <=> NoOrphans
  BY <1>1 DEF NoOrphans
<1>3. edits[n].at = "sent" /\ UnderWay(edits[n])
  BY DEF Committing, UnderWay
<1>4. DeleteInv'
  <2> SUFFICES ASSUME NoOrphans', NEW m \in DOMAIN edits', Pointing(edits'[m])
               PROVE  KeyNames(edits'[m].sees) = KeyNames(srv'.cfg.keys)
    BY DEF DeleteInv, Pointing, FirstSent
  <2>1. m # n
    BY <1>1 DEF Pointing, FirstSent
  <2>2. m \in DOMAIN edits /\ edits'[m] = edits[m]
    BY <1>1, <2>1
  <2>3. KeyNames(edits[m].sees) = KeyNames(srv.cfg.keys)
    BY <1>2, <2>2 DEF DeleteInv
  <2>4. UnderWay(edits[m]) /\ RenamesKeys(edits[m])
    BY <2>2 DEF Pointing, FirstSent, UnderWay, RenamesKeys
  <2>5. ~RenamesKeys(edits[n])
    BY <1>2, <1>3, <2>1, <2>2, <2>4, OneKeySave
  <2>6. KeyNames(srv'.cfg.keys) = KeyNames(srv.cfg.keys)
    BY <1>3, <2>5, OtherNamesStay DEF Committing
  <2> QED BY <2>2, <2>3, <2>6
<1>5. DeleteStep
  <2> SUFFICES ASSUME NEW m \in DOMAIN edits, Commits(m), CommittedWrite(m).op = "deleteKey",
                      ~edits[m].blind, NoOrphans
               PROVE  /\ CommittedWrite(m).i \in DOMAIN edits[m].sees
                      /\ srv.cfg.keys[CommittedWrite(m).i].id = edits[m].sees[CommittedWrite(m).i].id
    BY DEF DeleteStep, NoOrphans
  <2>1. m = n
    BY <1>1 DEF Commits
  <2> DEFINE old == edits[n]
             w == old.writes[old.next]
             held == srv.cfg.keys
             sees == old.sees
  <2>2. CommittedWrite(m) = w /\ w.op = "deleteKey"
    BY <2>1 DEF CommittedWrite
  <2>3. old.next = 1
    <3>1. \/ old.next = 1
          \/ /\ old.next = 2 /\ Len(old.writes) = 2
      BY CommittedWriteIs
    <3>2. Len(old.writes) = 2 => old.writes[2].op = "group"
      BY CommittedWriteIs
    <3> QED BY <2>2, <3>1, <3>2
  <2>4. Pointing(old)
    BY <1>3, <2>1, <2>2, <2>3 DEF Pointing, FirstSent
  <2>5. KeyNames(sees) = KeyNames(held)
    BY <2>4 DEF DeleteInv
  <2>6. w.i \in DOMAIN held
    BY <2>2 DEF Committing, ServerAccepts
  <2> HIDE DEF w, held, sees
  <2>7. DOMAIN sees = DOMAIN held
    <3>1. DOMAIN KeyNames(sees) = DOMAIN sees /\ DOMAIN KeyNames(held) = DOMAIN held
      BY DEF KeyNames
    <3> QED BY <2>5, <3>1
  <2>8. KeyNames(sees)[w.i] = sees[w.i].id /\ KeyNames(held)[w.i] = held[w.i].id
    BY <2>6, <2>7 DEF KeyNames
  <2>9. w.i \in DOMAIN sees /\ held[w.i].id = sees[w.i].id
    BY <2>5, <2>6, <2>7, <2>8
  <2> QED BY <2>1, <2>2, <2>9 DEF held, sees
<1> QED BY <1>4, <1>5

(* A key is deleted by its position, and the one that goes is the one the      *)
(* operator pointed at: the other saves of the key list are held off while the *)
(* request is on its way, and the screen it was made on listed the server's    *)
(* keys, unless that screen was behind or a save of an ended session is about. *)
THEOREM DeletesHitTheirKey == Spec => DeleteHitsItsKey
<1> DEFINE Inv == ConsoleInv /\ ViewInv /\ DeleteInv
<1>1. Init => Inv
  BY ClaimsStart, SavesStart, TypesStart, ViewStart DEF ConsoleInv, DeleteInv, Init
<1>2. Inv /\ [Next]_vars => DeleteInv' /\ DeleteStep
  BY EveryStep, DeleteCarried, DeleteAtCommit
<1>3. Inv /\ [Next]_vars => Inv'
  <2>1. ConsoleInv /\ [Next]_vars => ConsoleInv'
    BY ClaimsStep, SavesStep, TypesStep DEF ConsoleInv
  <2> QED BY <1>2, <2>1, ViewStep
<1>4. Inv /\ [Next]_vars =>
        [\A n \in DOMAIN edits :
           /\ Commits(n) /\ CommittedWrite(n).op = "deleteKey"
           /\ ~edits[n].blind /\ \A m \in DOMAIN edits : ~edits[m].orphan
           => LET i == CommittedWrite(n).i
              IN  i \in DOMAIN edits[n].sees /\ srv.cfg.keys[i].id = edits[n].sees[i].id]_vars
  BY <1>2 DEF DeleteStep
<1> HIDE DEF Inv
<1> QED BY <1>1, <1>3, <1>4, PTL DEF Spec, DeleteHitsItsKey
=============================================================================
