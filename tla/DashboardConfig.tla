---------------------------- MODULE DashboardConfig ----------------------------
(* The console's copy of the configuration: saves with an optimistic preview,  *)
(* the refreshes that race them, unsaved input that holds refreshes off, login *)
(* and logout (dashboard_src/src/app.js), against the server's configuration   *)
(* with its revision and its process epoch (config_manager.py).                *)
(*                                                                             *)
(* A request is sent, handled by the server and answered in three steps, so    *)
(* answers arrive in any order; the server may restart and answers be lost.    *)
EXTENDS OptimisticConfig

CONSTANTS
  Budgets     \* bounds: how often the operator, the server and the network may
              \* do what they may do at any time (a behaviour has one of these)

Spendable == {"switch", "form", "button", "editor", "login", "manual", "type",
              "foreign", "rotate", "restart", "lost", "torn"}

ASSUME BudgetAssumption == Budgets \subseteq [Spendable -> Nat]

VARIABLES
  srv,        \* the server: configuration, the one before, mark, admin key and
              \* whether a torn snapshot was ever answered
  store,      \* optimisticConfigStore
  shown,      \* state.data.config: None, NothingYet ({}) or a configuration
  phase,      \* state.staticDataState
  session,    \* state.adminKey (0: none), the key being checked, console open
  edits,      \* the saves begun, in order
  depth,      \* configRefreshCoordinator: mutations in progress
  dirty,      \* a tracked form holds unsaved input
  editor,     \* the static-model editor, with the list it was opened on
  timer,      \* the coalesced background refresh: "off", "side" or "all"
  static,     \* refreshStaticAdminData
  all,        \* refreshAll
  left,       \* what the bounds leave
  missed      \* history: the server changed and no answer we will take tells it

vars == <<srv, store, shown, phase, session, edits, depth, dirty, editor, timer,
          static, all, left, missed>>

serverVars == <<srv, missed>>
viewVars   == <<store, shown, phase>>
formVars   == <<depth, dirty, editor>>

None   == [nothing |-> TRUE]
Closed == [open |-> FALSE, list |-> {}]
NoConfig(kind) == [Answer(NothingYet, Mark(NoMark, NoMark)) EXCEPT !.kind = kind]
Denied == NoConfig("denied")      \* HTTP 401
Failed == NoConfig("failed")      \* any other error
IsConfig(a) == a.kind = "config"

Showing == shown \notin {None, NothingYet}

Spend(b) == left[b] > 0 /\ left' = [left EXCEPT ![b] = @ - 1]

-----------------------------------------------------------------------------
(* Refreshes. `includes`: the configuration is among the domains wanted;       *)
(* `fetch`: it is among those asked for; `disturbed`: an interaction began or  *)
(* ended since the snapshot was taken (interactionVersion moved).              *)

Resting == [at |-> "idle", wanted |-> FALSE, loud |-> FALSE, includes |-> FALSE,
            fetch |-> FALSE, disturbed |-> FALSE, key |-> 0, answer |-> Failed]

Disturb == static' = [static EXCEPT !.disturbed = (static.at # "idle")]

Protected == depth > 0 \/ dirty

SentStatic(config) ==
  [Resting EXCEPT !.at = "sent", !.includes = config, !.fetch = config /\ ~Protected,
                  !.key = session.key]

(* Mutant: only a pressed refresh asks for the configuration.                  *)
SentAllLazy(loud) ==
  [Resting EXCEPT !.at = "sent", !.loud = loud, !.fetch = loud, !.key = session'.key]

SentAll(loud) ==
  [Resting EXCEPT !.at = "sent", !.loud = loud, !.fetch = loud \/ shown' = None,
                  !.key = session'.key]

(* CONFIG_MANAGER.snapshot() reads the configuration and then the revision     *)
(* without the commit lock: a commit that falls between the two reads pairs    *)
(* the old configuration with the new revision, and one that has replaced the  *)
(* configuration only pairs the new one with the old revision.                 *)
Snapshot(a) ==
  \/ a = Answer(srv.cfg, srv.mark) /\ UNCHANGED <<srv, left>>
  \/ /\ Spend("torn") /\ srv.before # srv.cfg
     /\ a \in {Answer(srv.before, srv.mark),
               Answer(srv.cfg, Mark(srv.mark.epoch, srv.mark.rev - 1))}
     /\ srv' = [srv EXCEPT !.torn = TRUE]

Snapshots == {Answer(srv.cfg, srv.mark), Answer(srv.before, srv.mark),
              Answer(srv.cfg, Mark(srv.mark.epoch, srv.mark.rev - 1))}

(* A read of the configuration, as the server answers it.                      *)
Reads(r, next) ==
  IF r.key # srv.key
  THEN next = [r EXCEPT !.at = "answered", !.answer = Denied] /\ UNCHANGED <<srv, left>>
  ELSE \E a \in Snapshots :
         Snapshot(a) /\ next = [r EXCEPT !.at = "answered", !.answer = a]

Committed(cfg) ==
  [srv EXCEPT !.cfg = cfg, !.before = srv.cfg, !.mark.rev = @ + 1]

(* Mutant: the answer is shown as it is.                                       *)
TakeRaw(a) ==
  /\ store' = AcceptConfirmed(store, a)
  /\ shown' = a.cfg
  /\ phase' = "ready"
  /\ missed' = (missed /\ store'.mark # srv.mark)

(* Taking a configuration from a refresh: the store decides, the view shows    *)
(* what the store makes of it.                                                 *)
Take(a) ==
  /\ store' = AcceptConfirmed(store, a)
  /\ shown' = Effective(store')
  /\ phase' = "ready"
  /\ missed' = (missed /\ store'.mark # srv.mark)

Keep(newPhase) == phase' = newPhase /\ UNCHANGED <<store, shown, missed>>

-----------------------------------------------------------------------------
(* Saving. `types`: the control is an input or a form in a tracked container,  *)
(* which its change or submit event marks dirty. (The policy view is not one.) *)

SwitchEdits(n) == FlagSwitch(n)
FormEdits(c, n) ==
  ProviderForm(n) \cup TimeoutsForm(n) \cup GlobalProxyForm(n) \cup RouteForm(n)
    \cup StaticListForm(c) \cup KeyForm(n) \cup KeyProxyForm(c, n) \cup GroupForm(c, n)
PolicyEdits(n) == RoutingForm(n) \cup RetryForm(n) \cup FailurePolicyForm(n)
ButtonEdits(c, n) ==
  PoolSwitch(n) \cup FormatToggle(n) \cup FormatPath(n) \cup RouteButtons(n)
    \cup HealthMonitorButton(n) \cup ModelDisableButton(n) \cup ModelMapEditor(n)
    \cup StaticListButtons(c) \cup KeyDeleteButton(c) \cup GroupDeleteButton(c)

Scoped(e) == e.runner # "format"     \* runFormatMutation opens no mutation scope

(* `sees`: the keys on the screen when it was begun; `blind`: the screen was    *)
(* behind the server then; `orphan`: its session has ended. All three are      *)
(* history, for the properties.                                                *)
Started(e) ==
  [id |-> store.nextId, rk |-> e.rk, runner |-> e.runner, writes |-> e.writes,
   next |-> 1, at |-> "sent", key |-> session.key, answer |-> Failed,
   sees |-> shown.keys, blind |-> missed \/ srv.torn, orphan |-> FALSE]

Over(e) ==
  [e EXCEPT !.at = "over", !.answer = Failed, !.writes = << >>, !.sees = << >>,
            !.blind = FALSE, !.runner = "", !.key = 0, !.next = 1]

(* runOptimisticConfigAction, runConfigMutation and runFormatMutation up to    *)
(* their first await: a second save of the same resource is refused.           *)
Save(e, types, b) ==
  /\ session.open /\ Showing /\ Len(edits) < MaxEdits /\ Spend(b)
  /\ dirty' = (dirty \/ types)
  /\ IF CanBegin(store, e.rk)
     THEN /\ store' = Begin(store, e.rk, e.writes)
          /\ shown' = Effective(store')
          /\ edits' = Append(edits, Started(e))
          /\ depth' = IF Scoped(e) THEN depth + 1 ELSE depth
     ELSE UNCHANGED <<store, shown, edits, depth>>
  /\ IF types \/ Scoped(e) THEN Disturb ELSE UNCHANGED static
  /\ UNCHANGED <<srv, missed, phase, session, editor, timer, all>>

Next1 == Len(edits) + 1

FlipSwitch   == \E e \in SwitchEdits(Next1) : Save(e, TRUE, "switch")
SubmitForm   == Showing /\ \E e \in FormEdits(shown, Next1) : Save(e, TRUE, "form")
SubmitPolicy == \E e \in PolicyEdits(Next1) : Save(e, FALSE, "form")
PressButton  == Showing /\ \E e \in ButtonEdits(shown, Next1) : Save(e, FALSE, "button")
SubmitEditor == \E e \in StaticModelEditor(editor.list) : Save(e, FALSE, "editor")

OpenEditor ==
  /\ session.open /\ Showing /\ ~editor.open /\ left["editor"] > 0 /\ shown.static # {}
  /\ editor' = [open |-> TRUE, list |-> shown.static]
  /\ UNCHANGED <<srv, missed, store, shown, phase, session, edits, depth, dirty, timer,
                 static, all, left>>

CloseEditor ==
  /\ editor.open
  /\ editor' = Closed
  /\ UNCHANGED <<srv, missed, store, shown, phase, session, edits, depth, dirty, timer,
                 static, all, left>>

(* One write of a save reaches the server, which commits it or refuses it ...  *)
ServerCommits(n) ==
  LET e == edits[n]
      w == e.writes[e.next]
  IN  /\ e.at = "sent"
      /\ \/ /\ e.key = srv.key /\ ServerAccepts(srv.cfg, w)
            /\ srv' = Committed(ServerApply(srv.cfg, w))
            /\ edits' = [edits EXCEPT ![n].at = "committed"]
            /\ missed' = (missed \/ e.orphan)
         \/ /\ e.key # srv.key \/ ~ServerAccepts(srv.cfg, w)
            /\ edits' = [edits EXCEPT ![n].at = "answered",
                                      ![n].answer = IF e.key # srv.key THEN Denied ELSE Failed]
            /\ UNCHANGED serverVars
      /\ UNCHANGED <<viewVars, session, formVars, timer, static, all, left>>

(* ... and, after reloading the runtime, answers with a snapshot.              *)
ServerAnswers(n) ==
  /\ edits[n].at = "committed"
  /\ \E a \in Snapshots :
       Snapshot(a) /\ edits' = [edits EXCEPT ![n].at = "answered", ![n].answer = a]
  /\ UNCHANGED <<missed, viewVars, session, formVars, timer, static, all>>

(* The next write of a save goes out when the one before it was answered.      *)
SendNext(n) ==
  /\ edits[n].at = "answered" /\ IsConfig(edits[n].answer)
  /\ edits[n].next < Len(edits[n].writes)
  /\ edits' = [edits EXCEPT ![n].at = "sent", ![n].next = @ + 1, ![n].key = session.key]
  /\ UNCHANGED <<serverVars, viewVars, session, formVars, timer, static, all, left>>

(* scheduleBackgroundRefresh merges what is wanted: all domains win.           *)
Schedule(what) == timer' = IF timer = "all" \/ what = "all" THEN "all" ELSE what

(* Mutant: the mutation scope stays open.                                      *)
FinishOpen(n) == edits' = [edits EXCEPT ![n] = Over(@)] /\ depth' = depth

Finish(n) ==
  /\ edits' = [edits EXCEPT ![n] = Over(@)]
  /\ depth' = IF Scoped(edits[n]) THEN depth - 1 ELSE depth

(* The last answer of a save arrives: the store takes it, unless the edit is   *)
(* unknown to it (cleared since), and the refresh that follows is scheduled.   *)
SaveSucceeds(n) ==
  LET e == edits[n] IN
  /\ e.at = "answered" /\ IsConfig(e.answer) /\ e.next = Len(e.writes)
  /\ Finish(n)
  /\ IF HasPending(store, e.id)
     THEN /\ store' = Confirm(store, e.id, e.answer)
          /\ shown' = Effective(store')
          /\ dirty' = (dirty /\ e.runner = "action")        \* clearAllDirty()
          /\ editor' = IF e.rk = "provider-static" THEN Closed ELSE editor
          /\ Schedule(IF e.runner = "action" THEN "side" ELSE "all")
          /\ missed' = (missed /\ store'.mark # srv.mark)
     ELSE /\ missed' = TRUE
          /\ UNCHANGED <<store, shown, dirty, editor, timer>>
  /\ IF Scoped(e) \/ HasPending(store, e.id) THEN Disturb ELSE UNCHANGED static
  /\ UNCHANGED <<srv, phase, session, all, left>>

(* A save fails: its preview is taken back. Writes before the one that failed  *)
(* stay committed, and nothing is fetched.                                     *)
SaveFails(n) ==
  LET e == edits[n] IN
  /\ e.at = "answered" /\ ~IsConfig(e.answer)
  /\ Finish(n)
  /\ store' = Reject(store, e.id)
  /\ shown' = Effective(store')
  /\ missed' = (missed \/ e.next > 1)
  /\ IF Scoped(e) THEN Disturb ELSE UNCHANGED static
  /\ UNCHANGED <<srv, phase, session, dirty, editor, timer, all, left>>

-----------------------------------------------------------------------------
(* The background refresh: dropped while the page is hidden or nobody is       *)
(* logged in; a refresh wanted while one runs follows it, over all domains.    *)
TimerFires ==
  /\ timer # "off"
  /\ timer' = "off"
  /\ \/ session.key # 0 /\ static.at = "idle"
        /\ static' = SentStatic(timer = "all")
        /\ phase' = IF timer = "all" /\ shown = None THEN "loading" ELSE phase
     \/ session.key # 0 /\ static.at # "idle"
        /\ static' = [static EXCEPT !.wanted = TRUE]
        /\ UNCHANGED phase
     \/ UNCHANGED <<static, phase>>                     \* document.hidden
  /\ UNCHANGED <<serverVars, store, shown, session, edits, formVars, all, left>>

ServerAnswersStatic ==
  /\ static.at = "sent"
  /\ Reads(static, static')
  /\ UNCHANGED <<missed, viewVars, session, edits, formVars, timer, all>>

(* A static refresh comes back: its configuration is dropped, and not asked    *)
(* for again, if an interaction moved since the snapshot or input is unsaved.  *)
StaticArrives ==
  /\ static.at = "answered"
  /\ LET allow == ~static.disturbed /\ ~Protected
     IN  IF allow /\ static.fetch /\ IsConfig(static.answer)
         THEN Take(static.answer)
         ELSE Keep(IF static.includes /\ shown = None THEN "error" ELSE phase)
  /\ static' = IF static.wanted /\ session.key # 0 THEN SentStatic(TRUE) ELSE Resting
  /\ UNCHANGED <<srv, session, edits, formVars, timer, all, left>>

ServerAnswersAll ==
  /\ all.at = "sent"
  /\ Reads(all, all')
  /\ UNCHANGED <<missed, viewVars, session, edits, formVars, timer, static>>

(* refreshAll: asks for the configuration when pressed or when none is known;  *)
(* a call while one runs is remembered and follows it.                         *)
RefreshAll(loud) ==
  all' = IF all.at = "idle" THEN SentAll(loud)
         ELSE [all EXCEPT !.wanted = TRUE, !.loud = IF all.wanted THEN @ \/ loud ELSE loud]

PressRefresh ==
  /\ session.open /\ session.key # 0 /\ Spend("manual")
  /\ Keep(IF all.at = "idle" /\ shown = None THEN "loading" ELSE phase)
  /\ UNCHANGED session
  /\ RefreshAll(TRUE)
  /\ UNCHANGED <<srv, edits, formVars, timer, static>>

(* The key is forgotten: clearStoredAdminKey() and showLogin().                *)
Orphaned == [n \in DOMAIN edits |->
               IF edits[n].at = "over" THEN edits[n] ELSE [edits[n] EXCEPT !.orphan = TRUE]]

LoggedOut ==
  /\ edits' = Orphaned
  /\ session' = [session EXCEPT !.key = 0, !.open = FALSE]
  /\ store' = Clear(store)
  /\ shown' = None
  /\ phase' = "idle"

(* A static refresh was answered before the session ended and before the       *)
(* server changed: it fills the cleared store, and the next login finds a      *)
(* configuration and asks for none.                                            *)
Leftover ==
  /\ static.at = "answered" /\ static.fetch /\ ~static.disturbed
  /\ IsConfig(static.answer) /\ static.answer.mark # srv.mark

(* A full refresh comes back: the configuration is taken whatever the operator *)
(* is doing; a 401 ends the session.                                           *)
AllArrives ==
  /\ all.at = "answered"
  /\ \/ /\ all.answer.kind = "denied"
        /\ LoggedOut
        /\ missed' = (missed \/ Leftover)
     \/ /\ all.answer.kind = "failed"
        /\ Keep(IF shown = None THEN "error" ELSE phase)
        /\ UNCHANGED <<session, edits>>
     \/ /\ IsConfig(all.answer)
        /\ IF all.fetch THEN Take(all.answer) ELSE Keep(phase)
        /\ UNCHANGED <<session, edits>>
  /\ all' = IF all.wanted /\ session'.key # 0 THEN SentAll(all.loud) ELSE Resting
  /\ UNCHANGED <<srv, formVars, timer, static, left>>

-----------------------------------------------------------------------------
(* Sessions. The key is in state.adminKey while it is being checked.           *)
SubmitKey ==
  /\ ~session.open /\ session.checking = 0
  /\ Spend("login")
  /\ session' = [session EXCEPT !.key = srv.key, !.checking = srv.key]
  /\ UNCHANGED <<serverVars, viewVars, edits, formVars, timer, static, all>>

(* The answer of the check: the console opens and refreshes quietly, which     *)
(* asks for the configuration only when none is shown.                         *)
KeyChecked ==
  /\ session.checking # 0
  /\ \/ /\ session.checking = srv.key
        /\ session' = [session EXCEPT !.checking = 0, !.open = TRUE]
        /\ phase' = IF shown # None THEN "ready" ELSE "loading"
        /\ dirty' = FALSE                               \* setView(): clearAllDirty()
        /\ UNCHANGED <<store, shown, edits>>
        /\ RefreshAll(FALSE)
     \/ /\ session.checking # srv.key
        /\ store' = Clear(store) /\ shown' = None /\ phase' = "idle"
        /\ session' = [session EXCEPT !.checking = 0, !.key = 0]
        /\ edits' = Orphaned
        /\ UNCHANGED <<all, dirty>>
  /\ Disturb
  /\ UNCHANGED <<serverVars, depth, editor, timer, left>>

-----------------------------------------------------------------------------
(* The operator's other moves, and the environment.                            *)
Type ==
  /\ session.open /\ ~dirty /\ Spend("type")
  /\ dirty' = TRUE
  /\ Disturb
  /\ UNCHANGED <<serverVars, viewVars, session, edits, depth, editor, timer, all>>

(* Closing the drawer or switching the view gives unsaved input up.            *)
Leave ==
  /\ session.open /\ dirty
  /\ dirty' = FALSE
  /\ Disturb
  /\ UNCHANGED <<serverVars, viewVars, session, edits, depth, editor, timer, all, left>>

ForeignChange ==
  /\ Spend("foreign")
  /\ srv' = Committed(ServerApply(srv.cfg, SetKnob("routing", Foreign)))
  /\ missed' = TRUE
  /\ UNCHANGED <<viewVars, session, edits, formVars, timer, static, all>>

ForeignKey ==
  /\ Spend("rotate")
  /\ srv' = [srv EXCEPT !.key = @ + 1]
  /\ UNCHANGED <<missed, viewVars, session, edits, formVars, timer, static, all>>

Cut(r) == IF r.at \in {"sent", "committed"}
          THEN [r EXCEPT !.at = "answered", !.answer = Failed] ELSE r

(* A restart keeps the configuration (it is in the overlay file), starts a     *)
(* new epoch and breaks the requests that were not answered.                   *)
Restart ==
  /\ Spend("restart")
  /\ srv' = [srv EXCEPT !.mark = Mark(@.epoch + 1, 0), !.before = srv.cfg]
  /\ edits' = [n \in DOMAIN edits |-> Cut(edits[n])]
  /\ missed' = (missed \/ \E n \in DOMAIN edits : edits[n].at = "committed")
  /\ static' = Cut(static)
  /\ all' = Cut(all)
  /\ UNCHANGED <<viewVars, session, formVars, timer>>

(* An answer is lost: the browser sees a network error.                        *)
Lose ==
  /\ Spend("lost")
  /\ \/ \E n \in DOMAIN edits :
          /\ edits[n].at = "answered" /\ IsConfig(edits[n].answer)
          /\ edits' = [edits EXCEPT ![n].answer = Failed]
          /\ missed' = TRUE
          /\ UNCHANGED all
     \/ all.at = "answered" /\ all' = [all EXCEPT !.answer = Failed]
        /\ UNCHANGED <<edits, missed>>
  /\ UNCHANGED <<srv, viewVars, session, formVars, timer, static>>

-----------------------------------------------------------------------------
Init ==
  /\ LET g == CHOOSE g \in Groups : TRUE IN
       srv = [cfg |-> FirstConfig(g), before |-> FirstConfig(g),
                             mark |-> Mark(1, 0), key |-> 1, torn |-> FALSE]
  /\ store = EmptyStore(1) /\ shown = None /\ phase = "idle"
  /\ session = [key |-> 0, checking |-> 0, open |-> FALSE]
  /\ edits = << >> /\ depth = 0 /\ dirty = FALSE /\ editor = Closed
  /\ timer = "off" /\ static = Resting /\ all = Resting
  /\ left \in Budgets /\ missed = FALSE

OperatorStep ==
  \/ FlipSwitch \/ SubmitForm \/ SubmitPolicy \/ PressButton
  \/ SubmitEditor \/ OpenEditor \/ CloseEditor
  \/ PressRefresh \/ SubmitKey \/ Type \/ Leave

SaveStep(n) ==
  ServerCommits(n) \/ ServerAnswers(n) \/ SendNext(n) \/ SaveSucceeds(n) \/ SaveFails(n)

NetworkStep ==
  \/ \E n \in DOMAIN edits : SaveStep(n)
  \/ TimerFires \/ ServerAnswersStatic \/ StaticArrives \/ ServerAnswersAll \/ AllArrives
  \/ KeyChecked

WorldStep == ForeignChange \/ ForeignKey \/ Restart \/ Lose

Next == OperatorStep \/ NetworkStep \/ WorldStep

(* The event loop runs what is due and the server answers what it was asked;   *)
(* nothing obliges the operator or the outside world to act.                   *)
Fairness == WF_vars(NetworkStep)

Spec == Init /\ [][Next]_vars /\ Fairness

-----------------------------------------------------------------------------
(* Properties.                                                                 *)

Marks == [epoch : Nat \cup {NoMark}, rev : Nat \cup {NoMark}]
Answers == [kind : {"config", "denied", "failed"}, cfg : Configs \cup {NothingYet},
            mark : Marks]
RefreshTypes == [at : {"idle", "sent", "answered"}, wanted : BOOLEAN, loud : BOOLEAN,
                 includes : BOOLEAN, fetch : BOOLEAN, disturbed : BOOLEAN, key : Nat,
                 answer : Answers]

(* Types of the state, and the counters that have a meaning: depth counts the  *)
(* saves under way that opened a mutation scope.                               *)
ConfigTypeOK ==
  /\ srv.cfg \in Configs /\ srv.before \in Configs /\ srv.mark \in Marks
  /\ store.confirmed \in Configs \cup {NothingYet} /\ store.mark \in Marks
  /\ shown \in Configs \cup {NothingYet, None}
  /\ phase \in {"idle", "loading", "ready", "error"}
  /\ static \in RefreshTypes /\ all \in RefreshTypes
  /\ timer \in {"off", "side", "all"} /\ dirty \in BOOLEAN
  /\ depth = Cardinality({n \in DOMAIN edits : edits[n].at # "over" /\ Scoped(edits[n])})

UnderWay(e) == e.at # "over"

(* A value the operator has saved and that is still on its way is what the     *)
(* screen shows, whatever refreshes and other answers arrive in the meantime   *)
(* (config() lays the pending edits over every confirmed configuration).       *)
PendingEditStaysVisible ==
  \A n \in DOMAIN edits :
    LET e == edits[n] IN
    UnderWay(e) /\ HasPending(store, e.id) /\ Showing /\ e.writes[1].op = "knob"
      => shown.knob[e.writes[1].k] \in n..Len(edits)

(* A browser that holds the revision the server is at holds the configuration  *)
(* of that revision, however answers, restarts and saves were ordered: an      *)
(* older content never gets in under a newer mark (as long as the server's     *)
(* own snapshot is not torn).                                                  *)
HoldsWhatItClaims ==
  Filled(store) /\ ~srv.torn /\ store.mark = srv.mark => store.confirmed = srv.cfg

(* When every save has been answered the screen shows the server's             *)
(* configuration, unless the server changed behind the console's back, an      *)
(* answer was lost or a save failed halfway: no order of answers, previews,    *)
(* rejections and refreshes leaves anything else on it.                        *)
Agreement ==
  Showing /\ ~missed /\ ~srv.torn /\ (\A n \in DOMAIN edits : ~UnderWay(edits[n]))
    => shown = srv.cfg

NotOlder(new, old) ==
  \/ new.epoch > old.epoch
  \/ new.epoch = old.epoch /\ new.rev >= old.rev

(* Until it is cleared, the store never goes back to an older epoch or to an   *)
(* older revision of its epoch (confirm() and acceptConfirmed() drop what is   *)
(* outdated, and a restarted server, whose revisions start again, is newer).   *)
MarkNeverGoesBack == [][store' = Clear(store) \/ NotOlder(store'.mark, store.mark)]_vars

Commits(n) == edits[n].at = "sent" /\ edits'[n].at = "committed"
CommittedWrite(n) == edits[n].writes[edits[n].next]

(* Keys are deleted by position. The key that goes is the one the operator     *)
(* pointed at, because two saves of one key list never overlap, unless the     *)
(* screen was behind the server or a save of an ended session is still about.  *)
DeleteHitsItsKey ==
  [][\A n \in DOMAIN edits :
       /\ Commits(n) /\ CommittedWrite(n).op = "deleteKey"
       /\ ~edits[n].blind /\ \A m \in DOMAIN edits : ~edits[m].orphan
       => LET i == CommittedWrite(n).i
          IN  i \in DOMAIN edits[n].sees /\ srv.cfg.keys[i].id = edits[n].sees[i].id]_vars

GroupKeys == {"variants-" \o g : g \in Groups}

(* Renaming a variant group never leaves the provider without it, however the  *)
(* rename fails: the new id is written before the old one is emptied. (Another *)
(* save of a group may undo that, and two opposite renames do.)                *)
RenameKeepsTheGroup ==
  [][\A n \in DOMAIN edits :
       Commits(n) /\ Len(edits[n].writes) > 1
       => \/ \E g \in Groups : srv'.cfg.group[g] # Absent
          \/ \E m \in DOMAIN edits \ {n} : edits[m].rk \in GroupKeys]_vars

(* The answer to a save of a session that has ended, success or failure, does  *)
(* not touch what the next session holds: ids are not used again.              *)
LateAnswerChangesNothing ==
  [][\A n \in DOMAIN edits :
       edits[n].orphan /\ UnderWay(edits[n]) /\ ~UnderWay(edits'[n])
       => store'.confirmed = store.confirmed /\ store'.pending = store.pending]_vars

(* No preview stays on the screen for ever, and no console stays in its        *)
(* loading state: every save and every refresh comes to an end.                *)
PreviewsEnd == store.pending # << >> ~> store.pending = << >>
LoadingEnds == phase = "loading" ~> phase # "loading"

=============================================================================
