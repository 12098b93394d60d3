--------------------------- MODULE DashboardPages ---------------------------
(* How the console keeps what it shows up to date: the poll                    *)
(* (refreshRuntimeData), the full refresh (refreshAll), the request history's  *)
(* pages, filters and deletions, and the providers' models, which the polls    *)
(* fetch again when the server says that their version has moved. One browser, *)
(* one server whose history and models change, and which may restart. Every    *)
(* answer carries what the server had at some moment between the request and   *)
(* its use (`could`: the states it was in meanwhile). No drawer is open: while  *)
(* the pointer rests on one, renderAll waits.                                  *)
EXTENDS RequestsPage, Sequences, SequencesExt

CONSTANTS
  Scenarios,    \* [view: where the console opens, may: how often operator and world
                \*  do each of the things they may do]
  MaxFetches    \* bound: requests for the models that follow-up timers may add to

VARIABLES
  srv,          \* pages, content and models of the server
  ui,           \* the operator's side: session, view, page, filter
  rows,         \* state.data.requests
  sig,          \* _lastRuntimeViewSignature
  nav,          \* _requestPageNavigation
  poll,         \* refreshRuntimeData: the run under way and what follows it
  all,          \* refreshAll: the run under way and what follows it
  del,          \* a deletion of request records under way
  bg,           \* the background refresh's timer is set
  caps,         \* state.data.status.models
  last,         \* _lastModelsVersion
  fetches,      \* the requests of refreshCapabilitiesOnly under way
  followUp,     \* _capabilityFollowUpTimer is set
  excused,      \* history: the models' version was taken note of, and its models missed
  budget

pageVars == <<ui, rows, sig, nav, poll, del, bg>>
capVars  == <<caps, last, fetches, followUp, excused>>
vars     == <<srv, pageVars, all, capVars, budget>>

NoNav     == [from |-> 0, to |-> -1, undisturbed |-> FALSE]
NoVersion == -1
Views     == {"requests", "overview", "settings"}

(* The console opens on a view it has.                                         *)
ASSUME ScenariosAssumption == \A sc \in Scenarios : sc.view \in Views

Spend(what) == budget[what] > 0 /\ budget' = [budget EXCEPT ![what] = @ - 1]
Free        == UNCHANGED budget

Awake(u) == u.open /\ ~u.hidden

-----------------------------------------------------------------------------
(* refreshRuntimeData: one poll at a time; one asked for meanwhile follows it. *)

NoGet  == [at |-> "none", could |-> {}]
NoRun  == [at |-> "idle", view |-> "settings", page |-> 0, filter |-> "all",
           could |-> {}, get |-> NoGet, changed |-> FALSE]

(* A poll that forgets that the view's data becomes due by itself.             *)
StartedWhenForced(p, u, forced) ==
  LET asks == /\ u.view \in {"requests", "overview"}
              /\ forced \/ (u.view = "requests" /\ p.force)
  IN [p EXCEPT
        !.run = [at |-> "core", view |-> u.view, page |-> u.page, filter |-> u.filter,
                 could |-> {srv}, changed |-> FALSE,
                 get |-> IF asks THEN [at |-> "sent", could |-> {srv}] ELSE NoGet],
        !.force = @ /\ ~(asks /\ u.view = "requests")]

Started(p, u, forced) ==
  LET asks == /\ u.view \in {"requests", "overview"}
              /\ \/ forced \/ u.view \in p.due
                 \/ u.view = "requests" /\ p.force
  IN [p EXCEPT
        !.run = [at |-> "core", view |-> u.view, page |-> u.page, filter |-> u.filter,
                 could |-> {srv}, changed |-> FALSE,
                 get |-> IF asks THEN [at |-> "sent", could |-> {srv}] ELSE NoGet],
        !.force = @ /\ ~(asks /\ u.view = "requests")]

Wanting(wanted, forced) == IF forced \/ wanted = "forced" THEN "forced" ELSE "plain"

RefreshRuntime(p, u, forced) ==
  IF ~Awake(u) THEN p
  ELSE IF p.run.at # "idle" THEN [p EXCEPT !.wanted = Wanting(@, forced)]
  ELSE Started(p, u, forced)

(* The finally block: the run is over, and one that was asked for follows.     *)
Ended(p, u) ==
  LET over == [p EXCEPT !.run = NoRun, !.wanted = "no"]
  IN IF p.wanted = "no" THEN over ELSE RefreshRuntime(over, u, p.wanted = "forced")

(* An abort finds the answer still out, or already received.                   *)
AbortedGets(get) ==
  IF get.at = "sent" THEN {[get EXCEPT !.at = "aborted"], [get EXCEPT !.at = "received"]}
                     ELSE {get}

(* renderAll on the requests view: a page behind the last one becomes the last *)
(* one, and is fetched.                                                        *)
Clamped(u, r) == u.view = "requests" /\ PastTheEnd(u.page, r)
RenderedUi(u, r) == IF Clamped(u, r) THEN [u EXCEPT !.page = r.pages - 1] ELSE u
RenderedPoll(p, u, r) ==
  IF Clamped(u, r) THEN RefreshRuntime(p, RenderedUi(u, r), TRUE) ELSE p

(* renderAll, as the last step of a handler that left p, u and r.              *)
Render(p, u, r) == ui' = RenderedUi(u, r) /\ poll' = RenderedPoll(p, u, r)

(* A click that changes the requests view and asks for its rows at once.       *)
AskForRows(u) ==
  /\ ui' = u
  /\ poll' = RefreshRuntime([poll EXCEPT !.force = TRUE], u, TRUE)

(* What the view's request brought, if it was sent.                            *)
Answers(run) ==
  IF run.get.at = "none" THEN {NothingAsked}
  ELSE IF run.get.at = "aborted" THEN {Aborted}
  ELSE IF run.view = "overview" THEN {Overview(s) : s \in run.get.could}
  ELSE {Rows(Served(s, run.page, run.filter)) : s \in run.get.could}

Pending(run)     == run.view = "requests" /\ nav.to = run.page
Fits(run, u, answer) ==
  run.view = "requests" =>
    /\ u.page = run.page
    /\ IF Pending(run) THEN NavigationPayloadMatchesPage(answer, run.page)
                       ELSE PayloadMatchesPage(answer, run.page)

(* A navigation that an aborted request confirms as well.                      *)
ConfirmsUnlessFailed(run, u, answer) == Pending(run) /\ answer # Failed
Confirms(run, u, answer) == Pending(run) /\ Fits(run, u, answer)
RollsBack(run, u, answer) ==
  Pending(run) /\ ~Fits(run, u, answer) /\ answer = Failed

(* applyRuntimeViewData: what equals the last answer applied is not applied.   *)
Applies(run, u, answer) ==
  Fits(run, u, answer) /\ answer.kind \in {"rows", "overview"} /\ answer # sig

(* The part of refreshRuntimeData after the view's answer, for p and u.        *)
Conclude(p, u, answer) ==
  LET run   == p.run
      again == ~Fits(run, u, answer)
      new   == Applies(run, u, answer)
      r     == IF new /\ answer.kind = "rows" THEN answer.rows ELSE rows
      back  == RollsBack(run, u, answer)
      u1    == IF back THEN [u EXCEPT !.page = nav.from] ELSE u
      p1    == [p EXCEPT !.wanted = IF again THEN "forced" ELSE @,
                         !.due = IF new THEN @ \ {run.view} ELSE @]
      draw  == \/ new \/ back
               \/ run.changed /\ run.get.at # "none" /\ Fits(run, u, answer)
      u2    == IF draw THEN RenderedUi(u1, r) ELSE u1
      p2    == IF draw THEN RenderedPoll(p1, u1, r) ELSE p1
  IN /\ rows' = r
     /\ sig' = IF new THEN answer ELSE sig
     /\ nav' = IF back \/ Confirms(run, u, answer) THEN NoNav ELSE nav
     /\ ui' = u2
     /\ poll' = Ended(p2, u2)

-----------------------------------------------------------------------------
(* The providers' models.                                                      *)

(* acceptModelCapabilities                                                     *)
Accepted(c, new)     == IF ShouldAccept(c, new) THEN new ELSE c
AcceptedVersion(c, l, new) == IF ShouldAccept(c, new) THEN new.version ELSE l

(* _maybeScheduleCapabilityFollowUp: while some discovery has not ended.       *)
FollowsUp(c, u) == c.pending /\ ~u.hidden

FetchModels == fetches' = Append(fetches, [could |-> {srv}])

(* The poll saw this version: the models are fetched when it has moved, but    *)
(* not when it is the first one seen, and not by a page that is hidden or      *)
(* logged out (refreshCapabilitiesOnly returns at once). LearnVersionWhenIdle  *)
(* leaves it to a full refresh that is under way.                              *)
LearnVersionWhenIdle(version) ==
  /\ last' = version
  /\ IF version # last /\ last # NoVersion /\ Awake(ui) /\ all.at = "idle"
       THEN FetchModels ELSE UNCHANGED fetches
  /\ excused' = (excused \/ (version # last /\ last # NoVersion /\ ~Awake(ui)))
  /\ UNCHANGED <<caps, followUp>>
LearnVersion(version) ==
  /\ last' = version
  /\ IF version # last /\ last # NoVersion /\ Awake(ui)
       THEN FetchModels ELSE UNCHANGED fetches
  /\ excused' = (excused \/ (version # last /\ last # NoVersion /\ ~Awake(ui)))
  /\ UNCHANGED <<caps, followUp>>

-----------------------------------------------------------------------------
(* The poll's steps.                                                           *)

(* startTimer: every five seconds, unless paused or hidden.                    *)
Tick ==
  /\ ui.ticking /\ ~ui.paused /\ ~ui.hidden
  /\ poll' = RefreshRuntime(poll, ui, FALSE)
  /\ UNCHANGED <<srv, ui, rows, sig, nav, all, del, bg, capVars, budget>>

(* RUNTIME_VIEW_REFRESH_MS have passed since the last answer for the view that *)
(* is open (who opens another asks for its data in any case).                  *)
BecomesDue ==
  /\ ui.view \notin poll.due /\ poll' = [poll EXCEPT !.due = @ \cup {ui.view}]
  /\ UNCHANGED <<srv, ui, rows, sig, nav, all, del, bg, capVars, budget>>

(* The operator is elsewhere: the answers are of no use.                       *)
Abandon ==
  /\ poll' = Ended(poll, ui)
  /\ UNCHANGED <<ui, rows, sig, nav>>

(* The four core answers are there; changed: applyRuntimeCore took them.       *)
CoreAnswers ==
  /\ poll.run.at = "core"
  /\ IF poll.run.view # ui.view THEN Abandon /\ UNCHANGED capVars
     ELSE \E s \in poll.run.could, changed \in BOOLEAN :
            LET run  == [poll.run EXCEPT !.at = "view", !.changed = changed]
                p    == [poll EXCEPT !.run = run]
                draw == changed /\ run.get.at = "none"
            IN /\ LearnVersion(s.version)
               /\ IF run.get.at # "none" THEN poll' = p /\ UNCHANGED <<ui, rows, sig, nav>>
                  ELSE Conclude(IF draw THEN RenderedPoll(p, ui, rows) ELSE p,
                                IF draw THEN RenderedUi(ui, rows) ELSE ui, NothingAsked)
  /\ UNCHANGED <<srv, all, del, bg, budget>>

(* The view's request came to its end, or was aborted.                         *)
ViewAnswers ==
  /\ poll.run.at = "view"
  /\ IF poll.run.view # ui.view THEN Abandon
     ELSE \E answer \in Answers(poll.run) : Conclude(poll, ui, answer)
  /\ UNCHANGED <<srv, all, del, bg, capVars, budget>>

ViewFails ==
  /\ poll.run.at = "view" /\ poll.run.get.at = "sent" /\ poll.run.view = ui.view
  /\ Spend("lost")
  /\ Conclude(poll, ui, Failed)
  /\ UNCHANGED <<srv, all, del, bg, capVars>>

-----------------------------------------------------------------------------
(* What the operator does.                                                     *)

Unmoved == UNCHANGED <<srv, rows, sig, all, del, bg>>

(* bindRequestPagination: one navigation at a time.                            *)
TurnPage(direction) ==
  LET target == PageTarget(ui.page, rows.pages, direction) IN
  /\ Awake(ui) /\ ui.view = "requests" /\ nav = NoNav
  /\ rows.pages > 0 /\ target # ui.page
  /\ Spend("page")
  /\ nav' = [from |-> ui.page, to |-> target, undisturbed |-> rows.page = ui.page]
  /\ AskForRows([ui EXCEPT !.page = target])
  /\ Unmoved /\ UNCHANGED capVars

(* The status buttons, Apply, Enter and Clear: the first page of other rows.   *)
ApplyFilter(f) ==
  /\ Awake(ui) /\ ui.view = "requests" /\ Spend("filter")
  /\ AskForRows([ui EXCEPT !.page = 0, !.filter = f])
  /\ Unmoved /\ UNCHANGED <<nav, capVars>>

(* What is typed into a filter counts from the next request on, applied or not *)
(* (currentRequestFilters reads the inputs).                                   *)
TypeFilter(f) ==
  /\ Awake(ui) /\ ui.view = "requests" /\ f # ui.filter /\ Spend("filter")
  /\ ui' = [ui EXCEPT !.filter = f]
  /\ Unmoved /\ UNCHANGED <<nav, poll, capVars>>

(* setView: leaving aborts the view's request, entering asks for it.           *)
Leaving(p, u, v) ==
  {IF v = u.view THEN p ELSE [p EXCEPT !.run.get = g] : g \in AbortedGets(p.run.get)}

Shown(p, u, r) ==
  IF u.view = "settings" THEN RenderedPoll(p, u, r)
                         ELSE RefreshRuntime(RenderedPoll(p, u, r), RenderedUi(u, r), TRUE)

SetView(v) ==
  /\ Awake(ui) /\ Spend("view")
  /\ \E p \in Leaving(poll, ui, v) :
       LET u == [ui EXCEPT !.view = v]
       IN ui' = RenderedUi(u, rows) /\ poll' = Shown(p, u, rows)
  /\ Unmoved /\ UNCHANGED <<nav, capVars>>

(* gotoProviderRequests: the requests of one provider, from its drawer.        *)
GotoProviderRequests(f) ==
  /\ Awake(ui) /\ Spend("view")
  /\ \E p \in Leaving([poll EXCEPT !.force = TRUE], ui, "requests") :
       LET u == [ui EXCEPT !.view = "requests", !.page = 0, !.filter = f]
       IN ui' = u /\ poll' = RefreshRuntime(Shown(p, u, rows), u, TRUE)
  /\ Unmoved /\ UNCHANGED <<nav, capVars>>

PressPause ==
  /\ Awake(ui) /\ Spend("pause")
  /\ ui' = [ui EXCEPT !.paused = ~@]
  /\ poll' = IF ui.paused THEN RefreshRuntime(poll, ui', TRUE) ELSE poll
  /\ Unmoved /\ UNCHANGED <<nav, capVars>>

(* handleVisibilityChange                                                      *)
Hide ==
  /\ ~ui.hidden /\ Spend("hide")
  /\ ui' = [ui EXCEPT !.hidden = TRUE]
  /\ \E g \in AbortedGets(poll.run.get) : poll' = [poll EXCEPT !.run.get = g]
  /\ followUp' = FALSE
  /\ Unmoved /\ UNCHANGED <<nav, caps, last, fetches, excused>>

Reappear ==
  /\ ui.hidden /\ Free
  /\ ui' = [ui EXCEPT !.hidden = FALSE]
  /\ poll' = IF ui.paused THEN poll ELSE RefreshRuntime(poll, ui', TRUE)
  /\ followUp' = FollowsUp(caps, ui')
  /\ Unmoved /\ UNCHANGED <<nav, caps, last, fetches, excused>>

-----------------------------------------------------------------------------
(* Deleting request records: the selected ones, those that match the filter,   *)
(* or all; then the first page, with the rows' copy cut down or forced anew.   *)

NoDeletion == [at |-> "none", selected |-> FALSE, filter |-> "all"]

PressDelete(selected) ==
  /\ Awake(ui) /\ ui.view = "requests" /\ del.at = "none" /\ Spend("delete")
  /\ del' = [at |-> "sent", selected |-> selected, filter |-> ui.filter]
  /\ UNCHANGED <<srv, ui, rows, sig, nav, poll, all, bg, capVars>>

ScheduleBackground == bg' = TRUE

DeletionAnswered ==
  /\ del.at = "committed" /\ Free
  /\ del' = NoDeletion
  /\ IF del.selected
       THEN \E left \in {rows.pages, rows.pages - 1} \cap Pages :
              LET r == [rows EXCEPT !.pages = left, !.rev = 0]
              IN rows' = r /\ Render(poll, [ui EXCEPT !.page = 0], r)
       ELSE rows' = rows /\ Render([poll EXCEPT !.force = TRUE], [ui EXCEPT !.page = 0], rows)
  /\ ScheduleBackground
  /\ UNCHANGED <<srv, sig, nav, all, capVars>>

(* The request is lost before or after the server has carried it out.          *)
DeletionFails ==
  /\ del.at # "none" /\ Spend("lost")
  /\ del' = NoDeletion
  /\ UNCHANGED <<srv, ui, rows, sig, nav, poll, all, bg, capVars>>

(* scheduleBackgroundRefresh's timer, as a deletion sets it.                   *)
BackgroundFires ==
  /\ bg /\ bg' = FALSE
  /\ poll' = RefreshRuntime(poll, ui, FALSE)
  /\ UNCHANGED <<srv, ui, rows, sig, nav, all, del, capVars, budget>>

-----------------------------------------------------------------------------
(* refreshAll: everything at once, applied when all of it is there.            *)

NoFull == [at |-> "idle", page |-> 0, filter |-> "all", rows |-> FALSE, static |-> FALSE,
           could |-> {}, wanted |-> "no", loaded |-> FALSE]

StartFull(a, p, u, loud) ==
  [a EXCEPT !.at = "sent", !.page = u.page, !.filter = u.filter, !.could = {srv},
            !.rows = loud \/ u.view = "requests" \/ p.force,
            !.static = loud \/ ~a.loaded, !.wanted = "no"]
StartedFull(p) == [p EXCEPT !.force = FALSE]

(* The finally block: whatever was asked for meanwhile is done once more. A    *)
(* console that was logged out meanwhile does not.                             *)
FullAgain(a, u) == a.wanted # "no" /\ u.open
EndedFull(a, p, u) ==
  LET over == [a EXCEPT !.at = "idle", !.could = {}, !.wanted = "no"]
  IN IF FullAgain(a, u) THEN StartFull(over, p, u, a.wanted = "loud") ELSE over
AfterFull(a, p, u) == IF FullAgain(a, u) THEN StartedFull(p) ELSE p

(* renderAll and the finally block, for a full refresh that left a and r.      *)
FinishFull(a, r) ==
  LET u == [ui EXCEPT !.ticking = TRUE]
      p == RenderedPoll(poll, u, r)
      v == RenderedUi(u, r)
  IN ui' = v /\ all' = EndedFull(a, p, v) /\ poll' = AfterFull(a, p, v)

RefreshAll(p, u, loud) ==
  IF all.at # "idle"
    THEN /\ all' = [all EXCEPT !.wanted = IF loud \/ @ = "loud" THEN "loud" ELSE "quiet"]
         /\ poll' = p
    ELSE all' = StartFull(all, p, u, loud) /\ poll' = StartedFull(p)

PressRefresh ==
  /\ Awake(ui) /\ Spend("refresh")
  /\ RefreshAll(poll, ui, TRUE)
  /\ UNCHANGED <<srv, ui, rows, sig, nav, del, bg, capVars>>

(* Login: the console opens on the saved view, polls, and loads everything it  *)
(* does not have (openConsoleWithKey).                                         *)
Login ==
  /\ ~ui.open /\ ~ui.hidden /\ Spend("login")
  /\ LET u == [ui EXCEPT !.open = TRUE]
     IN /\ ui' = RenderedUi(u, rows)
        /\ RefreshAll(Shown(poll, u, rows), RenderedUi(u, rows), FALSE)
  /\ UNCHANGED <<srv, rows, sig, nav, del, bg, capVars>>

(* Metrics, rows and models were read at moments of their own. The rows go up  *)
(* whatever page is open; the models' version counts from now on, and is       *)
(* fetched when it is not the one that came along, unless models came along.   *)
FullAnswers ==
  /\ all.at = "sent" /\ Free
  /\ \E sm \in all.could, sr \in all.could, sc \in all.could :
       LET r     == IF all.rows THEN Served(sr, all.page, all.filter) ELSE rows
           seen  == IF all.static THEN AcceptedVersion(caps, last, Models(sc)) ELSE last
           moved == sm.version # seen
           more  == moved /\ seen # NoVersion /\ ~all.static
           a     == [all EXCEPT !.loaded = @ \/ all.static]
       IN /\ rows' = r
          /\ nav' = [nav EXCEPT !.undisturbed = @ /\ ~all.rows]
          /\ caps' = IF all.static THEN Accepted(caps, Models(sc)) ELSE caps
          /\ last' = sm.version
          /\ excused' = (excused \/ (moved /\ all.static))
          /\ IF more
               THEN /\ all' = [a EXCEPT !.at = "models", !.could = {srv}]
                    /\ UNCHANGED <<ui, poll, followUp>>
               ELSE FinishFull(a, r) /\ followUp' = FollowsUp(caps', ui)
  /\ UNCHANGED <<srv, sig, del, bg, fetches>>

(* The models that did not come along.                                         *)
FullModels ==
  /\ all.at = "models" /\ Free
  /\ \E s \in all.could : /\ caps' = Accepted(caps, Models(s))
                          /\ last' = AcceptedVersion(caps, last, Models(s))
  /\ FinishFull(all, rows) /\ followUp' = FollowsUp(caps', ui)
  /\ UNCHANGED <<srv, rows, sig, nav, del, bg, fetches, excused>>

FullModelsFail ==
  /\ all.at = "models" /\ Spend("lost")
  /\ FinishFull(all, rows) /\ followUp' = FollowsUp(caps, ui)
  /\ excused' = (excused \/ ~followUp')
  /\ UNCHANGED <<srv, rows, sig, nav, del, bg, fetches, caps, last>>

(* One of the answers is missing: nothing is applied.                          *)
Missed == excused' = (excused \/ caps = NoCaps)
FullFails ==
  /\ all.at = "sent" /\ Spend("lost")
  /\ ui' = [ui EXCEPT !.ticking = TRUE]
  /\ all' = EndedFull(all, poll, ui) /\ poll' = AfterFull(all, poll, ui)
  /\ Missed
  /\ UNCHANGED <<srv, rows, sig, nav, del, bg, caps, last, fetches, followUp>>

(* The admin key was changed elsewhere: the session ends (showLogin) and the   *)
(* config is dropped (clearStoredAdminKey), but a save or a refresh of it that *)
(* was under way puts one back. The timer is started again when it was the     *)
(* login that waited for this refresh.                                         *)
FullRefused ==
  /\ all.at = "sent" /\ Spend("refused")
  /\ \E starts \in BOOLEAN : ui' = [ui EXCEPT !.open = FALSE, !.ticking = starts]
  /\ \E loaded \in {FALSE, all.loaded} :
       all' = [EndedFull(all, poll, ui') EXCEPT !.loaded = loaded]
  /\ poll' = AfterFull(all, poll, ui')
  /\ Missed
  /\ UNCHANGED <<srv, rows, sig, nav, del, bg, caps, last, fetches, followUp>>

-----------------------------------------------------------------------------
(* refreshCapabilitiesOnly's answers, and its timer.                           *)

ModelsArrive(i) ==
  /\ i \in DOMAIN fetches
  /\ \E s \in fetches[i].could : /\ caps' = Accepted(caps, Models(s))
                                 /\ last' = AcceptedVersion(caps, last, Models(s))
  /\ fetches' = RemoveAt(fetches, i)
  /\ followUp' = FollowsUp(caps', ui)
  /\ UNCHANGED <<srv, pageVars, all, excused, budget>>

ModelsFail(i) ==
  /\ i \in DOMAIN fetches /\ Spend("lost")
  /\ fetches' = RemoveAt(fetches, i)
  /\ followUp' = FollowsUp(caps, ui)
  /\ excused' = (excused \/ ~followUp')
  /\ UNCHANGED <<srv, pageVars, all, caps, last>>

FollowUpFires ==
  /\ followUp /\ Len(fetches) < MaxFetches
  /\ followUp' = FALSE
  /\ IF Awake(ui) THEN FetchModels ELSE UNCHANGED fetches
  /\ UNCHANGED <<srv, pageVars, all, caps, last, excused, budget>>

-----------------------------------------------------------------------------
(* What the server does, while answers are under way.                          *)

Learns(could, s) == could \cup {s}

(* The server is now s, and so may be every answer that is not there yet.      *)
Becomes(s) ==
  /\ srv' = s
  /\ poll' = [poll EXCEPT
                !.run.could = IF poll.run.at = "core" THEN Learns(@, s) ELSE @,
                !.run.get.could = IF poll.run.get.at = "sent" THEN Learns(@, s) ELSE @]
  /\ all' = [all EXCEPT !.could = IF all.at # "idle" THEN Learns(@, s) ELSE @]
  /\ fetches' = [i \in DOMAIN fetches |-> [could |-> Learns(fetches[i].could, s)]]
  /\ UNCHANGED <<ui, rows, sig, nav, bg, caps, last, followUp, excused>>

(* The history has n pages now, and under each filter no more than that; where *)
(* a filter's requests went, none of them.                                     *)
Having(n, gone) ==
  [srv EXCEPT !.rev = @ + 1,
              !.pages = [f \in Filters |-> IF f \in gone THEN 0
                                          ELSE IF f # "all" /\ @[f] < n THEN @[f] ELSE n]]

(* Requests are recorded, and old ones pruned.                                 *)
HistoryChanges ==
  /\ Spend("traffic") /\ UNCHANGED del
  /\ \E n \in Pages : Becomes(Having(n, {}))

(* A deletion is carried out.                                                  *)
Deletes ==
  /\ del.at = "sent" /\ del' = [del EXCEPT !.at = "committed"] /\ Free
  /\ \E n \in 0..srv.pages["all"] :
       Becomes(Having(n, IF del.selected THEN {} ELSE {del.filter}))

(* A provider's discovery begins or ends (bump_models_version).                *)
ModelsChange ==
  /\ Spend("models") /\ UNCHANGED del
  /\ \E pending \in BOOLEAN :
       Becomes([srv EXCEPT !.version = @ + 1, !.pending = pending])

(* The server restarts: a new epoch, whose versions count anew.                *)
Restarts ==
  /\ Spend("restart") /\ UNCHANGED <<pageVars, all, caps, last, fetches, followUp>>
  /\ \E version \in 1..srv.version :
       srv' = [srv EXCEPT !.epoch = @ + 1, !.version = version]
  /\ excused' = TRUE

-----------------------------------------------------------------------------
Init ==
  /\ srv = [pages |-> [f \in Filters |-> MaxPages], rev |-> 1, epoch |-> 1,
            version |-> 1, pending |-> FALSE]
  /\ rows = NoRows /\ sig = NothingAsked /\ nav = NoNav
  /\ poll = [run |-> NoRun, wanted |-> "no", force |-> FALSE, due |-> {}]
  /\ all = NoFull /\ del = NoDeletion /\ bg = FALSE
  /\ caps = NoCaps /\ last = NoVersion /\ fetches = << >> /\ followUp = FALSE
  /\ excused = FALSE
  /\ \E sc \in Scenarios :
       /\ ui = [open |-> FALSE, hidden |-> FALSE, paused |-> FALSE, ticking |-> FALSE,
                view |-> sc.view, page |-> 0, filter |-> "all"]
       /\ budget = sc.may

Operator ==
  \/ Login \/ PressRefresh \/ PressPause \/ Hide
  \/ \E d \in {"prev", "next"} : TurnPage(d)
  \/ \E f \in Filters : ApplyFilter(f) \/ TypeFilter(f) \/ GotoProviderRequests(f)
  \/ \E v \in Views : SetView(v)
  \/ \E selected \in BOOLEAN : PressDelete(selected)

Polling   == CoreAnswers \/ ViewAnswers
FullSteps == FullAnswers \/ FullModels
Arrivals  == \E i \in DOMAIN fetches : ModelsArrive(i)
Deletion  == Deletes \/ DeletionAnswered

Losses == ViewFails \/ DeletionFails \/ FullModelsFail \/ FullFails \/ FullRefused
          \/ \E i \in DOMAIN fetches : ModelsFail(i)
World  == HistoryChanges \/ ModelsChange \/ Restarts

Next == \/ Operator \/ Reappear \/ Tick \/ BecomesDue \/ Polling \/ FullSteps \/ Arrivals
        \/ FollowUpFires \/ Deletion \/ BackgroundFires \/ Losses \/ World

(* Requests end, and the browser's timers fire.                                *)
Fairness ==
  /\ WF_vars(Polling) /\ WF_vars(FullSteps) /\ WF_vars(Arrivals) /\ WF_vars(Deletion)
  /\ WF_vars(Tick) /\ WF_vars(BecomesDue) /\ WF_vars(FollowUpFires) /\ WF_vars(BackgroundFires)

Spec == Init /\ [][Next]_vars /\ Fairness

-----------------------------------------------------------------------------
PageNumbers == 0..(MaxPages - 1)
RowTypes == [page : Pages, filter : Filters, pages : Pages, rev : Nat]
CapTypes == [epoch : Nat, version : Nat, pending : BOOLEAN]

(* Types of the state; a page is one the history can have.                     *)
PagesTypeOK ==
  /\ srv.pages \in [Filters -> Pages] /\ srv.rev \in Nat
  /\ Models(srv) \in CapTypes /\ caps \in CapTypes
  /\ ui \in [open : BOOLEAN, hidden : BOOLEAN, paused : BOOLEAN, ticking : BOOLEAN,
             view : Views, page : PageNumbers, filter : Filters]
  /\ rows \in RowTypes
  /\ nav \in [from : PageNumbers, to : PageNumbers \cup {-1}, undisturbed : BOOLEAN]
  /\ poll.wanted \in {"no", "plain", "forced"} /\ poll.force \in BOOLEAN
  /\ poll.run.at \in {"idle", "core", "view"} /\ poll.due \subseteq Views
  /\ all.at \in {"idle", "sent", "models"} /\ all.wanted \in {"no", "quiet", "loud"}
  /\ del.at \in {"none", "sent", "committed"} /\ bg \in BOOLEAN
  /\ last \in Nat \cup {NoVersion} /\ followUp \in BOOLEAN /\ excused \in BOOLEAN

Watching       == Awake(ui) /\ ~ui.paused
WatchingRows   == Watching /\ ui.view = "requests"
Current        == Served(srv, ui.page, ui.filter)

(* When the operator leaves the requests view alone, it ends up with the rows  *)
(* the server has for its page and its filter, on a page that exists, whatever *)
(* was aborted, lost, overtaken or deleted before. (Except rows that the poll  *)
(* had brought before a full refresh or a deletion wrote others over them: the *)
(* poll takes them for shown.)                                                 *)
RowsSettle ==
  <>[](WatchingRows => /\ rows = Current \/ sig = Rows(Current)
                       /\ ~PastTheEnd(ui.page, rows))

(* A navigation is confirmed or taken back, and its buttons are freed, unless  *)
(* a filter, a deletion or a shrunken history took the page away meanwhile.    *)
NavigationEnds == <>[](WatchingRows => nav = NoNav \/ nav.to # ui.page)

(* Where a navigation ends, confirmed or rolled back, the page indicator names *)
(* the page of the rows on the screen (the comment over the rollback), unless  *)
(* a full refresh wrote rows meanwhile or the poll takes the rows for shown;   *)
(* a page that has gone is followed by the last one.                           *)
NavigationKeepsRowsAligned ==
  [][nav # NoNav /\ nav' = NoNav =>
       \/ rows'.page = ui'.page
       \/ ~nav.undisturbed
       \/ sig'.kind = "rows" /\ sig'.rows.page = ui'.page
       \/ PastTheEnd(rows'.page, rows')]_vars

(* The models on the screen never go back to an older process or version of    *)
(* the server, whichever of the polls, refreshes and timers that ask for them  *)
(* is answered late.                                                           *)
ModelsNeverGoBack == [][~OlderModels(caps', caps)]_caps

(* A console that is left alone ends up with the server's models, unless the   *)
(* request for them failed, came from a hidden page, or was not made because   *)
(* a full refresh brought older ones along, or the server restarted.           *)
ModelsCatchUp == <>[](Watching => excused \/ caps = Models(srv))

=============================================================================
