------------------------ MODULE DashboardPagesProofs ------------------------
(* For any scenarios, filters and bounds: the models on the screen never go    *)
(* back, and are never newer than what the server has (ModelsInv: what the     *)
(* polls do to rows and pages plays no part in it); and a navigation that ends *)
(* leaves the page indicator and the rows in agreement (NavInv: while one is   *)
(* undisturbed, the rows are those it started from, or its page was left and   *)
(* no run asks for it any more). At the end, for any ranges and scenarios: the *)
(* statistics page says that it loads exactly while its newest load is under   *)
(* way (UsageInv).                                                             *)
EXTENDS DashboardPages, UsagePanel, SequenceTheorems, TLAPS

PageCounts   == [Filters -> Pages]
ServerStates ==
  [pages : PageCounts, rev : Nat, epoch : Nat, version : Nat, pending : BOOLEAN]

(* What the server had at some moment up to now.                               *)
Past(s)        == {t \in ServerStates : ~OlderModels(Models(s), Models(t))}
Requests(s)    == [could : SUBSET Past(s)]
FullFields     == {"at", "page", "filter", "rows", "static", "could", "wanted", "loaded"}
IsFull(s, a)   == DOMAIN a = FullFields /\ a.could \subseteq Past(s)
Holds(s, c)    == c \in CapTypes /\ ~OlderModels(Models(s), c)

(* The models held, and the models in every answer on its way, were the        *)
(* server's at some moment.                                                    *)
ModelsInv ==
  /\ srv \in ServerStates
  /\ Holds(srv, caps)
  /\ IsFull(srv, all)
  /\ fetches \in Seq(Requests(srv))

Grows(s, t) == t \in ServerStates /\ ~OlderModels(Models(t), Models(s))

-----------------------------------------------------------------------------
(* The order of snapshots is transitive, so the past only grows.               *)
LEMMA PastStays ==
  ASSUME NEW s \in ServerStates, NEW t, Grows(s, t)
  PROVE  /\ Past(s) \subseteq Past(t)
         /\ t \in Past(t)
         /\ \A c : Holds(s, c) => Holds(t, c)
BY DEF Past, Grows, Holds, OlderModels, Models, ServerStates, CapTypes

(* The state of now is one the server had.                                     *)
LEMMA NowIsPast == ASSUME NEW s \in ServerStates PROVE s \in Past(s)
BY DEF Past, OlderModels, Models, ServerStates

(* acceptModelCapabilities takes what is not older, and keeps the rest.        *)
LEMMA AcceptedIsHeld ==
  ASSUME NEW s \in ServerStates, NEW t \in Past(s), NEW c, Holds(s, c)
  PROVE  Holds(s, Accepted(c, Models(t))) /\ ~OlderModels(Accepted(c, Models(t)), c)
BY DEF Past, Holds, Accepted, ShouldAccept, OlderModels, Models, ServerStates, CapTypes, NoCaps

(* A full refresh that starts, or ends and starts again, asks from now on.     *)
LEMMA FullStarts ==
  ASSUME NEW a, IsFull(srv, a), srv \in ServerStates, NEW p, NEW u, NEW loud
  PROVE  IsFull(srv, StartFull(a, p, u, loud))
BY NowIsPast DEF IsFull, StartFull, FullFields

LEMMA FullEnds ==
  ASSUME NEW a, IsFull(srv, a), srv \in ServerStates, NEW p, NEW u
  PROVE  IsFull(srv, EndedFull(a, p, u))
<1> DEFINE over == [a EXCEPT !.at = "idle", !.could = {}, !.wanted = "no"]
<1>1. IsFull(srv, over)
  BY DEF IsFull, FullFields
<1>2. IsFull(srv, StartFull(over, p, u, a.wanted = "loud"))
  BY <1>1, FullStarts
<1> QED  BY <1>1, <1>2 DEF EndedFull

(* One more request for the models.                                            *)
LEMMA FetchIsAsked ==
  ASSUME srv \in ServerStates, fetches \in Seq(Requests(srv)), FetchModels
  PROVE  fetches' \in Seq(Requests(srv))
<1>1. [could |-> {srv}] \in Requests(srv)
  BY NowIsPast DEF Requests
<1> QED  BY <1>1, AppendProperties DEF FetchModels

(* One request fewer.                                                          *)
LEMMA FetchIsDone ==
  ASSUME NEW S, NEW q \in Seq(S), NEW i \in DOMAIN q
  PROVE  RemoveAt(q, i) \in Seq(S)
<1>1. i \in 1..Len(q) /\ Len(q) \in Nat
  OBVIOUS
<1>2. SubSeq(q, 1, i - 1) \in Seq(S) /\ SubSeq(q, i + 1, Len(q)) \in Seq(S)
  BY <1>1
<1> QED  BY <1>2 DEF RemoveAt

(* LearnVersion asks for models and takes none.                                *)
LEMMA LearningTakesNothing ==
  ASSUME srv \in ServerStates, fetches \in Seq(Requests(srv)), NEW v, LearnVersion(v)
  PROVE  fetches' \in Seq(Requests(srv)) /\ caps' = caps
BY FetchIsAsked DEF LearnVersion

(* The server moves on while answers are under way: whatever they bring, it    *)
(* was the server's.                                                           *)
LEMMA BecomingKeepsInv ==
  ASSUME ModelsInv, NEW s, Grows(srv, s), Becomes(s)
  PROVE  ModelsInv' /\ caps' = caps
<1> USE DEF ModelsInv
<1>1. srv' = s /\ caps' = caps /\ s \in ServerStates
  BY DEF Becomes, Grows
<1>2. /\ Past(srv) \subseteq Past(s)
      /\ s \in Past(s)
      /\ Holds(srv, caps) => Holds(s, caps)
  BY PastStays
<1>3. Holds(srv', caps')
  BY <1>1, <1>2
<1>4. IsFull(srv', all')
  <2>1. IsFull(s, all')
    BY <1>2 DEF Becomes, IsFull, FullFields, Learns
  <2> QED  BY <2>1, <1>1
<1>5. fetches' \in Seq(Requests(srv'))
  <2>1. \A i \in DOMAIN fetches : [could |-> Learns(fetches[i].could, s)] \in Requests(s)
    <3> TAKE i \in DOMAIN fetches
    <3>1. fetches[i] \in Requests(srv)
      OBVIOUS
    <3> QED  BY <3>1, <1>2 DEF Requests, Learns
  <2>2. /\ fetches' = [i \in DOMAIN fetches |-> [could |-> Learns(fetches[i].could, s)]]
        /\ DOMAIN fetches = 1..Len(fetches) /\ Len(fetches) \in Nat
    BY DEF Becomes
  <2>3. fetches' \in Seq(Requests(s))
    <3> DEFINE q == [i \in 1..Len(fetches) |-> [could |-> Learns(fetches[i].could, s)]]
    <3>1. q \in [1..Len(fetches) -> Requests(s)]
      BY <2>1, <2>2
    <3>2. q \in Seq(Requests(s))
      BY <3>1, <2>2, SeqDef
    <3> QED  BY <3>2, <2>2
  <2> QED  BY <2>3, <1>1
<1> QED  BY <1>1, <1>3, <1>4, <1>5

(* Only a smaller epoch or version is a step back.                             *)
LEMMA NothingOlderGrows ==
  ASSUME NEW s \in ServerStates, NEW t \in ServerStates,
         t.epoch > s.epoch \/ (t.epoch = s.epoch /\ t.version >= s.version)
  PROVE  Grows(s, t)
<1>1. /\ Models(t).epoch = t.epoch /\ Models(t).version = t.version
      /\ Models(s).epoch = s.epoch /\ Models(s).version = s.version
  BY DEF Models
<1>2. s.epoch \in Nat /\ t.epoch \in Nat /\ s.version \in Nat /\ t.version \in Nat
  BY DEF ServerStates
<1> QED  BY <1>1, <1>2 DEF Grows, OlderModels

(* How the server's steps change it.                                           *)
LEMMA HistorySteps ==
  ASSUME NEW s \in ServerStates, NEW q \in PageCounts, NEW n \in Nat
  PROVE  [s EXCEPT !.rev = n, !.pages = q] \in ServerStates
BY DEF ServerStates

LEMMA ModelsStep ==
  ASSUME NEW s \in ServerStates, NEW v \in Nat, NEW b \in BOOLEAN
  PROVE  [s EXCEPT !.version = v, !.pending = b] \in ServerStates
BY DEF ServerStates

LEMMA RestartStep ==
  ASSUME NEW s \in ServerStates, NEW e \in Nat, NEW v \in Nat
  PROVE  [s EXCEPT !.epoch = e, !.version = v] \in ServerStates
BY DEF ServerStates

(* What the history has after requests were recorded, pruned or deleted.       *)
LEMMA HistoryGrows ==
  ASSUME srv \in ServerStates, NEW n \in Pages, NEW gone
  PROVE  Grows(srv, Having(n, gone))
<1>1. 0 \in Pages
  BY PageAssumption DEF Pages
<1> DEFINE P == [f \in Filters |-> IF f \in gone THEN 0
                   ELSE IF f # "all" /\ srv.pages[f] < n THEN srv.pages[f] ELSE n]
<1>2. P \in PageCounts
  BY <1>1 DEF ServerStates, PageCounts
<1>3. Having(n, gone) = [srv EXCEPT !.rev = srv.rev + 1, !.pages = P]
  BY DEF Having
<1> HIDE DEF P
<1>4. ASSUME NEW Q \in PageCounts
      PROVE  Grows(srv, [srv EXCEPT !.rev = srv.rev + 1, !.pages = Q])
  <2> DEFINE t == [srv EXCEPT !.rev = srv.rev + 1, !.pages = Q]
  <2>1. t \in ServerStates
    <3>1. srv.rev + 1 \in Nat
      BY DEF ServerStates
    <3> QED  BY <1>4, <3>1, HistorySteps
  <2>2. t.epoch = srv.epoch /\ t.version = srv.version /\ srv.version \in Nat
    BY DEF ServerStates
  <2> HIDE DEF t
  <2>3. Grows(srv, t)
    BY <2>1, <2>2, NothingOlderGrows
  <2> QED  BY <2>3 DEF t
<1> QED  BY <1>2, <1>3, <1>4

-----------------------------------------------------------------------------
LEMMA InitHolds == Init => ModelsInv
<1> SUFFICES ASSUME Init PROVE ModelsInv
  OBVIOUS
<1>1. srv \in ServerStates
  BY PageAssumption DEF Init, ServerStates, PageCounts, Pages
<1>2. Holds(srv, caps)
  BY DEF Init, Holds, NoCaps, CapTypes, OlderModels, Models
<1>3. IsFull(srv, all)
  BY DEF Init, NoFull, IsFull, FullFields
<1>4. fetches \in Seq(Requests(srv))
  BY DEF Init
<1> QED  BY <1>1, <1>2, <1>3, <1>4 DEF ModelsInv

Moved == ModelsInv' /\ ~OlderModels(caps', caps)

(* Steps that leave the server, the models and the requests for them alone.    *)
LEMMA NothingMoved ==
  ASSUME ModelsInv, UNCHANGED <<srv, caps, all, fetches>> PROVE Moved
BY DEF ModelsInv, Moved, Holds, OlderModels, CapTypes

(* Steps that only start or end a full refresh.                                *)
LEMMA OnlyFullMoved ==
  ASSUME ModelsInv, IsFull(srv, all'), UNCHANGED <<srv, caps, fetches>> PROVE Moved
BY DEF ModelsInv, Moved, Holds, OlderModels, CapTypes

(* Steps that only add or drop a request for the models.                       *)
LEMMA OnlyFetchesMoved ==
  ASSUME ModelsInv, fetches' \in Seq(Requests(srv)), UNCHANGED <<srv, caps, all>> PROVE Moved
BY DEF ModelsInv, Moved, Holds, OlderModels, CapTypes

(* The operator's steps.                                                       *)
LEMMA OperatorMoves == ASSUME ModelsInv, Operator PROVE Moved
<1>1. ASSUME NEW p, NEW u, NEW loud, RefreshAll(p, u, loud) PROVE IsFull(srv, all')
  <2>1. CASE all.at # "idle"
    BY <1>1, <2>1 DEF RefreshAll, ModelsInv, IsFull, FullFields
  <2>2. CASE all.at = "idle"
    BY <1>1, <2>2, FullStarts DEF RefreshAll, ModelsInv
  <2> QED  BY <2>1, <2>2
<1>2. CASE Login
  BY <1>1, <1>2, OnlyFullMoved DEF Login, capVars
<1>3. CASE PressRefresh
  BY <1>1, <1>3, OnlyFullMoved DEF PressRefresh, capVars
<1>4. CASE PressPause
  BY <1>4, NothingMoved DEF PressPause, Unmoved, capVars
<1>5. CASE Hide
  BY <1>5, NothingMoved DEF Hide, Unmoved, capVars
<1>6. CASE \E d \in {"prev", "next"} : TurnPage(d)
  BY <1>6, NothingMoved DEF TurnPage, Unmoved, capVars
<1>7. CASE \E f \in Filters : ApplyFilter(f) \/ TypeFilter(f) \/ GotoProviderRequests(f)
  BY <1>7, NothingMoved DEF ApplyFilter, TypeFilter, GotoProviderRequests, Unmoved, capVars
<1>8. CASE \E v \in Views : SetView(v)
  BY <1>8, NothingMoved DEF SetView, Unmoved, capVars
<1>9. CASE \E selected \in BOOLEAN : PressDelete(selected)
  BY <1>9, NothingMoved DEF PressDelete, capVars
<1> QED  BY <1>2, <1>3, <1>4, <1>5, <1>6, <1>7, <1>8, <1>9 DEF Operator

(* The poll's answers and the timers.                                          *)
LEMMA PollMoves ==
  ASSUME ModelsInv, Reappear \/ Tick \/ BecomesDue \/ Polling \/ FollowUpFires \/ BackgroundFires
  PROVE  Moved
<1>1. CASE Reappear
  BY <1>1, NothingMoved DEF Reappear, Unmoved, capVars
<1>2. CASE Tick \/ BecomesDue \/ BackgroundFires
  BY <1>2, NothingMoved DEF Tick, BecomesDue, BackgroundFires, capVars
<1>3. CASE CoreAnswers
  <2>1. UNCHANGED <<srv, all>>
    BY <1>3 DEF CoreAnswers
  <2>2. fetches' \in Seq(Requests(srv)) /\ caps' = caps
    <3>1. CASE poll.run.view # ui.view
      BY <1>3, <3>1 DEF CoreAnswers, capVars, ModelsInv
    <3>2. CASE poll.run.view = ui.view
      <4>1. PICK s \in poll.run.could : LearnVersion(s.version)
        BY <1>3, <3>2 DEF CoreAnswers
      <4> QED  BY <4>1, LearningTakesNothing DEF ModelsInv
    <3> QED  BY <3>1, <3>2
  <2> QED  BY <2>1, <2>2, OnlyFetchesMoved
<1>4. CASE ViewAnswers
  BY <1>4, NothingMoved DEF ViewAnswers, capVars
<1>5. CASE FollowUpFires
  <2>1. UNCHANGED <<srv, all, caps>>
    BY <1>5 DEF FollowUpFires
  <2>2. fetches' \in Seq(Requests(srv))
    BY <1>5, FetchIsAsked DEF FollowUpFires, ModelsInv
  <2> QED  BY <2>1, <2>2, OnlyFetchesMoved
<1> QED  BY <1>1, <1>2, <1>3, <1>4, <1>5 DEF Polling

(* A full refresh's answers.                                                   *)
LEMMA FullMoves == ASSUME ModelsInv, FullSteps PROVE Moved
<1>1. ASSUME NEW a, NEW r, IsFull(srv, a), FinishFull(a, r) PROVE IsFull(srv, all')
  BY <1>1, FullEnds DEF FinishFull, ModelsInv
<1>2. CASE FullAnswers
  <2>1. PICK sm \in all.could, sr \in all.could, sc \in all.could :
          LET r     == IF all.rows THEN Served(sr, all.page, all.filter) ELSE rows
              seen  == IF all.static THEN AcceptedVersion(caps, last, Models(sc)) ELSE last
              moved == sm.version # seen
              more  == moved /\ seen # NoVersion /\ ~all.static
              a     == [all EXCEPT !.loaded = @ \/ all.static]
          IN /\ caps' = IF all.static THEN Accepted(caps, Models(sc)) ELSE caps
             /\ IF more
                  THEN /\ all' = [a EXCEPT !.at = "models", !.could = {srv}]
                       /\ UNCHANGED <<ui, poll, followUp>>
                  ELSE FinishFull(a, r)
    BY <1>2 DEF FullAnswers
  <2>2. UNCHANGED <<srv, fetches>>
    BY <1>2 DEF FullAnswers
  <2>3. sc \in Past(srv)
    BY DEF ModelsInv, IsFull
  <2>4. Holds(srv, caps') /\ ~OlderModels(caps', caps)
    BY <2>1, <2>3, AcceptedIsHeld DEF ModelsInv, Holds, OlderModels, CapTypes
  <2>5. IsFull(srv, all')
    <3> DEFINE a == [all EXCEPT !.loaded = @ \/ all.static]
    <3>1. IsFull(srv, a) /\ IsFull(srv, [a EXCEPT !.at = "models", !.could = {srv}])
      BY NowIsPast DEF ModelsInv, IsFull, FullFields
    <3> QED  BY <2>1, <3>1, <1>1
  <2> QED  BY <2>2, <2>4, <2>5 DEF ModelsInv, Moved
<1>3. CASE FullModels
  <2>1. PICK s \in all.could : caps' = Accepted(caps, Models(s))
    BY <1>3 DEF FullModels
  <2>2. UNCHANGED <<srv, fetches>> /\ FinishFull(all, rows)
    BY <1>3 DEF FullModels
  <2>3. s \in Past(srv)
    BY DEF ModelsInv, IsFull
  <2>4. Holds(srv, caps') /\ ~OlderModels(caps', caps)
    BY <2>1, <2>3, AcceptedIsHeld DEF ModelsInv
  <2>5. IsFull(srv, all')
    BY <2>2, <1>1 DEF ModelsInv
  <2> QED  BY <2>2, <2>4, <2>5 DEF ModelsInv, Moved
<1> QED  BY <1>2, <1>3 DEF FullSteps

(* An answer to one of the requests for the models.                            *)
LEMMA ArrivalMoves == ASSUME ModelsInv, Arrivals PROVE Moved
<1>1. PICK i \in DOMAIN fetches : ModelsArrive(i)
  BY DEF Arrivals
<1>2. PICK s \in fetches[i].could : caps' = Accepted(caps, Models(s))
  BY <1>1 DEF ModelsArrive
<1>3. fetches' \in Seq(Requests(srv)) /\ UNCHANGED <<srv, all>>
  BY <1>1, FetchIsDone DEF ModelsArrive, ModelsInv
<1>4. s \in Past(srv)
  <2>1. fetches[i] \in Requests(srv)
    BY DEF ModelsInv
  <2> QED  BY <2>1 DEF Requests
<1>5. Holds(srv, caps') /\ ~OlderModels(caps', caps)
  BY <1>2, <1>4, AcceptedIsHeld DEF ModelsInv
<1> QED  BY <1>3, <1>5 DEF ModelsInv, Moved

(* What is lost or refused.                                                    *)
LEMMA LossMoves == ASSUME ModelsInv, Losses PROVE Moved
<1>1. CASE ViewFails \/ DeletionFails
  BY <1>1, NothingMoved DEF ViewFails, DeletionFails, capVars
<1>2. CASE FullModelsFail
  <2>1. IsFull(srv, all')
    BY <1>2, FullEnds DEF FullModelsFail, FinishFull, ModelsInv
  <2> QED  BY <1>2, <2>1, OnlyFullMoved DEF FullModelsFail
<1>3. CASE FullFails
  <2>1. IsFull(srv, all')
    BY <1>3, FullEnds DEF FullFails, ModelsInv
  <2> QED  BY <1>3, <2>1, OnlyFullMoved DEF FullFails
<1>4. CASE FullRefused
  <2>1. \A u : IsFull(srv, EndedFull(all, poll, u))
    BY FullEnds DEF ModelsInv
  <2>2. IsFull(srv, all')
    BY <1>4, <2>1 DEF FullRefused, IsFull, FullFields
  <2> QED  BY <1>4, <2>2, OnlyFullMoved DEF FullRefused
<1>5. CASE \E i \in DOMAIN fetches : ModelsFail(i)
  <2>1. fetches' \in Seq(Requests(srv))
    BY <1>5, FetchIsDone DEF ModelsFail, ModelsInv
  <2> QED  BY <1>5, <2>1, OnlyFetchesMoved DEF ModelsFail
<1> QED  BY <1>1, <1>2, <1>3, <1>4, <1>5 DEF Losses

(* The server's own steps.                                                     *)
LEMMA WorldMoves == ASSUME ModelsInv, World \/ Deletion PROVE Moved
<1>1. ASSUME NEW s, Grows(srv, s), Becomes(s) PROVE Moved
  BY <1>1, BecomingKeepsInv DEF Moved, ModelsInv, Holds, OlderModels, CapTypes
<1>2. CASE HistoryChanges
  BY <1>2, <1>1, HistoryGrows DEF HistoryChanges, ModelsInv
<1>3. CASE Deletes
  <2>1. PICK n \in 0..srv.pages["all"] :
          Becomes(Having(n, IF del.selected THEN {} ELSE {del.filter}))
    BY <1>3 DEF Deletes
  <2>2. n \in Pages
    BY PageAssumption DEF ModelsInv, ServerStates, PageCounts, Pages
  <2> QED  BY <2>1, <2>2, <1>1, HistoryGrows DEF ModelsInv
<1>4. CASE DeletionAnswered
  BY <1>4, NothingMoved DEF DeletionAnswered, capVars
<1>5. CASE ModelsChange
  <2>1. PICK pending \in BOOLEAN :
          Becomes([srv EXCEPT !.version = @ + 1, !.pending = pending])
    BY <1>5 DEF ModelsChange
  <2>2. Grows(srv, [srv EXCEPT !.version = @ + 1, !.pending = pending])
    <3> DEFINE t == [srv EXCEPT !.version = @ + 1, !.pending = pending]
    <3>1. t \in ServerStates
      <4>1. srv \in ServerStates /\ srv.version + 1 \in Nat
        BY DEF ModelsInv, ServerStates
      <4> QED  BY <4>1, ModelsStep
    <3>2. t.epoch = srv.epoch /\ t.version = srv.version + 1 /\ srv.version \in Nat
      BY DEF ModelsInv, ServerStates
    <3> HIDE DEF t
    <3>3. Grows(srv, t)
      BY <3>1, <3>2, NothingOlderGrows DEF ModelsInv
    <3> QED  BY <3>3 DEF t
  <2> QED  BY <2>1, <2>2, <1>1
<1>6. CASE Restarts
  <2>1. UNCHANGED <<all, caps, fetches>> /\ Grows(srv, srv')
    <3>1. PICK version \in 1..srv.version :
            srv' = [srv EXCEPT !.epoch = @ + 1, !.version = version]
      BY <1>6 DEF Restarts
    <3>2. srv.version \in Nat /\ srv.epoch \in Nat /\ srv \in ServerStates
      BY DEF ModelsInv, ServerStates
    <3>3. version \in Nat /\ srv.epoch + 1 \in Nat
      BY <3>2
    <3>4. srv' \in ServerStates
      BY <3>1, <3>2, <3>3, RestartStep
    <3>5. srv'.epoch = srv.epoch + 1
      BY <3>1, <3>2 DEF ServerStates
    <3>6. Grows(srv, srv')
      BY <3>2, <3>4, <3>5, NothingOlderGrows
    <3> QED  BY <1>6, <3>6 DEF Restarts
  <2>2. Past(srv) \subseteq Past(srv') /\ Holds(srv', caps)
    BY <2>1, PastStays DEF ModelsInv
  <2>3. Requests(srv) \subseteq Requests(srv')
    BY <2>2 DEF Requests
  <2>4. ModelsInv'
    BY <2>1, <2>2, <2>3 DEF ModelsInv, Grows, IsFull
  <2> QED  BY <2>1, <2>4 DEF Moved, ModelsInv, Holds, OlderModels, CapTypes
<1> QED  BY <1>2, <1>3, <1>4, <1>5, <1>6 DEF World, Deletion

LEMMA EveryStepMoves == ASSUME ModelsInv, [Next]_vars PROVE Moved
<1>1. CASE Next
  BY <1>1, OperatorMoves, PollMoves, FullMoves, ArrivalMoves, LossMoves, WorldMoves DEF Next
<1>2. CASE UNCHANGED vars
  BY <1>2, NothingMoved DEF vars, capVars
<1> QED  BY <1>1, <1>2

-----------------------------------------------------------------------------
(* What the console shows of the providers' models, and everything on its way  *)
(* to it, is something the server had: nothing is newer than the server.       *)
THEOREM ModelsAreTheServers == Spec => []ModelsInv
<1>1. ModelsInv /\ [Next]_vars => ModelsInv'
  BY EveryStepMoves DEF Moved
<1> QED  BY InitHolds, <1>1, PTL DEF Spec

(* The models on the screen never go back to an older process or version of    *)
(* the server, however many polls, refreshes and timers ask for them and in    *)
(* whatever order they are answered (acceptModelCapabilities).                 *)
THEOREM ModelsOnlyAdvance == Spec => ModelsNeverGoBack
<1>1. ModelsInv /\ [Next]_vars => [~OlderModels(caps', caps)]_caps
  BY EveryStepMoves DEF Moved
<1> QED  BY ModelsAreTheServers, <1>1, PTL DEF Spec, ModelsNeverGoBack

-----------------------------------------------------------------------------
(* Types. The poll, the operator's side and a full refresh are records whose   *)
(* answers carry states of the server.                                         *)
UiTypes   == [open : BOOLEAN, hidden : BOOLEAN, paused : BOOLEAN, ticking : BOOLEAN,
              view : Views, page : PageNumbers, filter : Filters]
GetTypes  == [at : {"none", "sent", "aborted", "received"}, could : SUBSET ServerStates]
RunFields == [at : {"idle", "core", "view"}, view : Views, page : PageNumbers,
              filter : Filters, could : SUBSET ServerStates, get : GetTypes,
              changed : BOOLEAN]
RunTypes  == {r \in RunFields : r.view = "settings" => r.get.at = "none"}
PollTypes == [run : RunTypes, wanted : {"no", "plain", "forced"}, force : BOOLEAN,
              due : SUBSET Views]
FullTypes == [at : {"idle", "sent", "models"}, page : PageNumbers, filter : Filters,
              rows : BOOLEAN, static : BOOLEAN, could : SUBSET ServerStates,
              wanted : {"no", "quiet", "loud"}, loaded : BOOLEAN]
DelTypes  == [at : {"none", "sent", "committed"}, selected : BOOLEAN, filter : Filters]
NavTypes  == [from : PageNumbers, to : PageNumbers \cup {-1}, undisturbed : BOOLEAN]

LEMMA PagesAreNumbers ==
  /\ PageNumbers \subseteq Nat /\ Pages \subseteq Nat /\ 0 \in PageNumbers /\ 0 \in Pages
  /\ \A n \in Pages : n > 0 => n - 1 \in PageNumbers
  /\ PageNumbers \subseteq Pages /\ "all" \in Filters
BY PageAssumption DEF PageNumbers, Pages

(* A rendered page is the one that was asked for, or the last there is.        *)
LEMMA RenderedTyped ==
  ASSUME NEW u \in UiTypes, NEW r \in RowTypes
  PROVE  /\ RenderedUi(u, r) \in UiTypes
         /\ RenderedUi(u, r).view = u.view /\ RenderedUi(u, r).page <= u.page
         /\ ~PastTheEnd(u.page, r) => RenderedUi(u, r) = u
         /\ PastTheEnd(u.page, r) /\ u.view = "requests" => RenderedUi(u, r).page < u.page
         /\ Awake(RenderedUi(u, r)) <=> Awake(u)
<1>1. u.page \in PageNumbers /\ u.page \in Nat /\ r.pages \in Pages /\ r.pages \in Nat
  BY PagesAreNumbers DEF UiTypes, RowTypes
<1>2. CASE Clamped(u, r)
  <2>1. r.pages > 0 /\ u.page >= r.pages
    BY <1>2 DEF Clamped, PastTheEnd
  <2>2. r.pages - 1 \in PageNumbers /\ r.pages - 1 < u.page
    BY <1>1, <2>1, PagesAreNumbers
  <2>3. RenderedUi(u, r) = [u EXCEPT !.page = r.pages - 1]
    BY <1>2 DEF RenderedUi
  <2>4. /\ RenderedUi(u, r) \in UiTypes /\ RenderedUi(u, r).page = r.pages - 1
        /\ RenderedUi(u, r).view = u.view /\ (Awake(RenderedUi(u, r)) <=> Awake(u))
    BY <2>2, <2>3 DEF UiTypes, Awake
  <2> QED  BY <1>1, <1>2, <2>2, <2>4 DEF Clamped
<1>3. CASE ~Clamped(u, r)
  <2>1. RenderedUi(u, r) = u
    BY <1>3 DEF RenderedUi
  <2> QED  BY <1>1, <1>3, <2>1 DEF Clamped
<1> QED  BY <1>2, <1>3

(* Where a poll's run comes from: it is the one there was, or over, or asks    *)
(* for the page that is open.                                                  *)
RunFrom(p, q, u) ==
  \/ q.run.at = "idle" \/ q.run.page = u.page
  \/ p.run.at # "idle" /\ q.run.page = p.run.page

LEMMA StartedTyped ==
  ASSUME srv \in ServerStates, NEW p \in PollTypes, NEW u \in UiTypes, NEW forced \in BOOLEAN
  PROVE  Started(p, u, forced) \in PollTypes /\ Started(p, u, forced).run.page = u.page
<1> DEFINE asks == /\ u.view \in {"requests", "overview"}
                   /\ \/ forced \/ u.view \in p.due
                      \/ u.view = "requests" /\ p.force
           get  == IF asks THEN [at |-> "sent", could |-> {srv}] ELSE NoGet
           run  == [at |-> "core", view |-> u.view, page |-> u.page, filter |-> u.filter,
                    could |-> {srv}, changed |-> FALSE, get |-> get]
           more == p.force /\ ~(asks /\ u.view = "requests")
<1>1. get \in GetTypes /\ (u.view = "settings" => get.at = "none")
  BY DEF GetTypes, NoGet
<1>2. more \in BOOLEAN
  BY DEF PollTypes
<1>3. Started(p, u, forced) = [p EXCEPT !.run = run, !.force = more]
  BY DEF Started
<1> HIDE DEF get, more, asks
<1>4. run \in RunTypes
  BY <1>1 DEF RunTypes, RunFields, UiTypes
<1>5. run.page = u.page
  OBVIOUS
<1> HIDE DEF run
<1> QED  BY <1>2, <1>3, <1>4, <1>5 DEF PollTypes

LEMMA RefreshTyped ==
  ASSUME srv \in ServerStates, NEW p \in PollTypes, NEW u \in UiTypes, NEW forced \in BOOLEAN
  PROVE  /\ RefreshRuntime(p, u, forced) \in PollTypes
         /\ RunFrom(p, RefreshRuntime(p, u, forced), u)
         /\ p.run.at # "idle" => RefreshRuntime(p, u, forced).run = p.run
<1>1. Started(p, u, forced) \in PollTypes /\ Started(p, u, forced).run.page = u.page
  BY StartedTyped
<1>2. Wanting(p.wanted, forced) \in {"no", "plain", "forced"}
  BY DEF Wanting
<1>3. [p EXCEPT !.wanted = Wanting(@, forced)] \in PollTypes
      /\ [p EXCEPT !.wanted = Wanting(@, forced)].run = p.run
  BY <1>2 DEF PollTypes
<1> QED  BY <1>1, <1>3 DEF RefreshRuntime, RunFrom

LEMMA NoRunTyped == NoRun \in RunTypes /\ NoRun.at = "idle"
BY PagesAreNumbers DEF NoRun, NoGet, RunTypes, RunFields, GetTypes, Views

LEMMA EndedTyped ==
  ASSUME srv \in ServerStates, NEW p \in PollTypes, NEW u \in UiTypes
  PROVE  /\ Ended(p, u) \in PollTypes
         /\ Ended(p, u).run.at = "idle" \/ Ended(p, u).run.page = u.page
<1> DEFINE over == [p EXCEPT !.run = NoRun, !.wanted = "no"]
           more == p.wanted = "forced"
<1>1. over \in PollTypes /\ over.run.at = "idle" /\ more \in BOOLEAN
  BY NoRunTyped DEF PollTypes
<1>2. Ended(p, u) = IF p.wanted = "no" THEN over ELSE RefreshRuntime(over, u, more)
  BY DEF Ended
<1> HIDE DEF over, more
<1> QED  BY <1>1, <1>2, RefreshTyped DEF RunFrom

LEMMA RenderedPollTyped ==
  ASSUME srv \in ServerStates, NEW p \in PollTypes, NEW u \in UiTypes, NEW r \in RowTypes
  PROVE  /\ RenderedPoll(p, u, r) \in PollTypes
         /\ RunFrom(p, RenderedPoll(p, u, r), RenderedUi(u, r))
         /\ p.run.at # "idle" => RenderedPoll(p, u, r).run = p.run
<1>1. RenderedUi(u, r) \in UiTypes
  BY RenderedTyped
<1>2. CASE Clamped(u, r)
  BY <1>1, <1>2, RefreshTyped DEF RenderedPoll
<1>3. CASE ~Clamped(u, r)
  BY <1>3 DEF RenderedPoll, RunFrom
<1> QED  BY <1>2, <1>3

LEMMA StartFullTyped ==
  ASSUME srv \in ServerStates, NEW a \in FullTypes, NEW p \in PollTypes, NEW u \in UiTypes,
         NEW loud \in BOOLEAN
  PROVE  StartFull(a, p, u, loud) \in FullTypes
<1> DEFINE r == loud \/ u.view = "requests" \/ p.force
           s == loud \/ ~a.loaded
<1>1. r \in BOOLEAN /\ s \in BOOLEAN
  BY DEF PollTypes, FullTypes
<1>2. StartFull(a, p, u, loud) =
        [a EXCEPT !.at = "sent", !.page = u.page, !.filter = u.filter, !.could = {srv},
                  !.rows = r, !.static = s, !.wanted = "no"]
  BY DEF StartFull
<1> HIDE DEF r, s
<1>3. u.page \in PageNumbers /\ u.filter \in Filters
  BY DEF UiTypes
<1> DEFINE b == [a EXCEPT !.at = "sent", !.page = u.page, !.filter = u.filter]
           c == [b EXCEPT !.could = {srv}, !.rows = r]
<1>4. b \in FullTypes
  BY <1>3 DEF FullTypes
<1> HIDE DEF b
<1>5. c \in FullTypes
  BY <1>1, <1>4 DEF FullTypes
<1> HIDE DEF c
<1>6. [c EXCEPT !.static = s, !.wanted = "no"] \in FullTypes
  BY <1>1, <1>5 DEF FullTypes
<1> QED  BY <1>2, <1>6 DEF b, c

LEMMA EndedFullTyped ==
  ASSUME srv \in ServerStates, NEW a \in FullTypes, NEW p \in PollTypes, NEW u \in UiTypes
  PROVE  /\ EndedFull(a, p, u) \in FullTypes
         /\ AfterFull(a, p, u) \in PollTypes /\ AfterFull(a, p, u).run = p.run
<1> DEFINE over == [a EXCEPT !.at = "idle", !.could = {}, !.wanted = "no"]
           loud == a.wanted = "loud"
<1>1. over \in FullTypes /\ loud \in BOOLEAN
  BY DEF FullTypes
<1>2. EndedFull(a, p, u) = IF FullAgain(a, u) THEN StartFull(over, p, u, loud) ELSE over
  BY DEF EndedFull
<1> HIDE DEF over, loud
<1>3. EndedFull(a, p, u) \in FullTypes
  BY <1>1, <1>2, StartFullTyped
<1>4. AfterFull(a, p, u) \in PollTypes /\ AfterFull(a, p, u).run = p.run
  BY DEF AfterFull, StartedFull, PollTypes
<1> QED  BY <1>3, <1>4

ScreenTypes ==
  /\ ui \in UiTypes /\ rows \in RowTypes /\ nav \in NavTypes /\ poll \in PollTypes
  /\ all \in FullTypes /\ del \in DelTypes /\ bg \in BOOLEAN
  /\ last \in Nat \cup {NoVersion} /\ followUp \in BOOLEAN /\ excused \in BOOLEAN

-----------------------------------------------------------------------------
(* Navigations. While one is undisturbed, the page that is open is its target, *)
(* which exists (unless the page of the rows does not either), or one before   *)
(* it; and the rows are those it started from, or the operator has left the    *)
(* target, and no run asks for it any more.                                    *)
NavOK(n, u, r, p) ==
  n # NoNav =>
    /\ n.to # -1
    /\ n.undisturbed =>
         /\ u.page <= n.to
         /\ u.page = n.to => ~PastTheEnd(u.page, r) \/ PastTheEnd(r.page, r)
         /\ \/ r.page = n.from
            \/ u.page < n.to /\ (p.run.at = "idle" \/ p.run.page # n.to)

NavInv == NavOK(nav, ui, rows, poll)

PagesInv == ModelsInv /\ ScreenTypes /\ NavInv

(* Who only goes back to earlier pages disturbs no navigation.                 *)
LEMMA NavStays ==
  ASSUME NEW n \in NavTypes, NEW u \in UiTypes, NEW v \in UiTypes, NEW r \in RowTypes,
         NEW s \in RowTypes, NEW p \in PollTypes, NEW q \in PollTypes,
         NavOK(n, u, r, p), s.page = r.page, RunFrom(p, q, v), v.page <= u.page,
         v.page < u.page \/ ~PastTheEnd(v.page, s) \/ s = r
  PROVE  NavOK(n, v, s, q)
<1>1. n.to \in Int /\ u.page \in Int /\ v.page \in Int
  <2>1. n.to \in PageNumbers \/ n.to = -1
    BY DEF NavTypes
  <2>2. u.page \in PageNumbers /\ v.page \in PageNumbers
    BY DEF UiTypes
  <2> QED  BY <2>1, <2>2, PageAssumption DEF PageNumbers
<1> SUFFICES ASSUME n # NoNav, n.undisturbed
             PROVE  /\ v.page <= n.to
                    /\ v.page = n.to => ~PastTheEnd(v.page, s) \/ PastTheEnd(s.page, s)
                    /\ \/ s.page = n.from
                       \/ v.page < n.to /\ (q.run.at = "idle" \/ q.run.page # n.to)
  BY DEF NavOK
<1>2. /\ u.page <= n.to
      /\ u.page = n.to => ~PastTheEnd(u.page, r) \/ PastTheEnd(r.page, r)
      /\ \/ r.page = n.from
         \/ u.page < n.to /\ (p.run.at = "idle" \/ p.run.page # n.to)
  BY DEF NavOK
<1>3. v.page <= n.to /\ (v.page = n.to => v.page = u.page)
  BY <1>1, <1>2
<1>4. v.page = n.to => ~PastTheEnd(v.page, s) \/ PastTheEnd(s.page, s)
  BY <1>1, <1>2, <1>3
<1>5. s.page = n.from \/ (v.page < n.to /\ (q.run.at = "idle" \/ q.run.page # n.to))
  BY <1>1, <1>2, <1>3 DEF RunFrom
<1> QED  BY <1>3, <1>4, <1>5

LEMMA FirstPageExists ==
  ASSUME NEW r \in RowTypes PROVE ~PastTheEnd(0, r)
<1>1. r.pages \in Pages
  BY DEF RowTypes
<1>2. r.pages \in Nat
  BY <1>1, PagesAreNumbers
<1> QED  BY <1>2 DEF PastTheEnd

(* What a poll's request may have brought.                                     *)
AnswerOK(answer, run) ==
  \/ answer.kind \in {"none", "aborted", "failed", "overview"}
  \/ answer.kind = "rows" /\ answer.rows \in RowTypes /\ answer.rows.page = run.page
     /\ run.view = "requests"

Aligned ==
  nav # NoNav /\ nav' = NoNav =>
    \/ rows'.page = ui'.page
    \/ ~nav.undisturbed
    \/ sig'.kind = "rows" /\ sig'.rows.page = ui'.page
    \/ PastTheEnd(rows'.page, rows')

ScreenMoves == ui' \in UiTypes /\ rows' \in RowTypes /\ nav' \in NavTypes /\ poll' \in PollTypes

LEMMA ConcludeMoves ==
  ASSUME srv \in ServerStates, ScreenTypes,
         NEW p \in PollTypes, NEW u \in UiTypes, NEW answer, AnswerOK(answer, p.run),
         p.run.at = "view", NavOK(nav, u, rows, p), Conclude(p, u, answer)
  PROVE  ScreenMoves /\ NavInv' /\ Aligned
<1> DEFINE run   == p.run
           again == ~Fits(run, u, answer)
           new   == Applies(run, u, answer)
           r     == IF new /\ answer.kind = "rows" THEN answer.rows ELSE rows
           back  == RollsBack(run, u, answer)
           u1    == IF back THEN [u EXCEPT !.page = nav.from] ELSE u
           p1    == [p EXCEPT !.wanted = IF again THEN "forced" ELSE @,
                              !.due = IF new THEN @ \ {run.view} ELSE @]
           draw  == \/ new \/ back
                    \/ run.changed /\ run.get.at # "none" /\ Fits(run, u, answer)
           u2    == IF draw THEN RenderedUi(u1, r) ELSE u1
           p2    == IF draw THEN RenderedPoll(p1, u1, r) ELSE p1
<1>1. /\ rows' = r
      /\ sig' = IF new THEN answer ELSE sig
      /\ nav' = IF back \/ Confirms(run, u, answer) THEN NoNav ELSE nav
      /\ ui' = u2
      /\ poll' = Ended(p2, u2)
  BY DEF Conclude
<1>2. r \in RowTypes /\ (new => answer.kind \in {"rows", "overview"} /\ answer # sig /\ Fits(run, u, answer))
  BY DEF AnswerOK, Applies, ScreenTypes
<1>3. u1 \in UiTypes
  <2>1. nav.from \in PageNumbers
    BY DEF ScreenTypes, NavTypes
  <2> QED  BY <2>1 DEF UiTypes
<1>4. p1 \in PollTypes /\ p1.run = run
  BY DEF PollTypes
<1> HIDE DEF p1
<1>5. u2 \in UiTypes /\ p2 \in PollTypes /\ u2.page <= u1.page
      /\ (~PastTheEnd(u1.page, r) => u2 = u1)
      /\ (~draw => u2 = u1)
      /\ (draw /\ PastTheEnd(u1.page, r) /\ u1.view = "requests" => u2.page < u1.page)
  <2>1. u1.page <= u1.page
    BY <1>3, PagesAreNumbers DEF UiTypes
  <2> HIDE DEF u1, r
  <2> QED  BY <1>2, <1>3, <1>4, <2>1, RenderedTyped, RenderedPollTyped
<1>6. poll' \in PollTypes /\ (poll'.run.at = "idle" \/ poll'.run.page = u2.page)
  BY <1>1, <1>5, EndedTyped
<1>7. nav' \in NavTypes
  BY <1>1, PageAssumption DEF NoNav, NavTypes, PageNumbers, ScreenTypes
<1>8. ScreenMoves
  BY <1>1, <1>2, <1>5, <1>6, <1>7 DEF ScreenMoves
<1> HIDE DEF u2, p2, draw
<1>9. /\ nav.to \in Int /\ nav.from \in Int /\ u.page \in Int /\ u2.page \in Int /\ u1.page \in Int
      /\ run.page \in Int
  BY <1>3, <1>5, PagesAreNumbers DEF ScreenTypes, NavTypes, UiTypes, PollTypes, RunTypes, RunFields
<1>10. ASSUME nav # NoNav, nav' = NoNav, nav.undisturbed
       PROVE  \/ rows'.page = ui'.page
              \/ sig'.kind = "rows" /\ sig'.rows.page = ui'.page
              \/ PastTheEnd(rows'.page, rows')
  <2>1. /\ nav.to # -1 /\ u.page <= nav.to
        /\ u.page = nav.to => ~PastTheEnd(u.page, rows) \/ PastTheEnd(rows.page, rows)
        /\ \/ rows.page = nav.from
           \/ u.page < nav.to /\ (run.at = "idle" \/ run.page # nav.to)
    BY <1>10 DEF NavOK
  <2>2. CASE back
    <3>1. Pending(run) /\ ~Fits(run, u, answer)
      BY <2>2 DEF RollsBack
    <3>2. ~new /\ r = rows
      BY <3>1 DEF Applies
    <3>3. rows.page = nav.from
      BY <2>1, <3>1 DEF Pending
    <3>4. u1.page = nav.from
      BY <2>2 DEF UiTypes
    <3> QED  BY <1>1, <1>5, <3>2, <3>3, <3>4
  <2>3. CASE ~back
    <3>1. Confirms(run, u, answer)
      BY <1>1, <1>10, <2>3
    <3>2. /\ Pending(run) /\ run.page = nav.to /\ run.view = "requests"
          /\ answer.kind = "rows" /\ answer.rows.page = run.page /\ u.page = run.page
      BY <3>1 DEF Confirms, Pending, Fits, NavigationPayloadMatchesPage, PayloadMatchesPage
    <3>3. u1 = u /\ (~PastTheEnd(u.page, rows) \/ PastTheEnd(rows.page, rows))
      BY <2>1, <2>3, <3>2
    <3>4. CASE new
      <4>1. r = answer.rows
        BY <3>2, <3>4
      <4>2. PastTheEnd(u.page, r) => PastTheEnd(rows'.page, rows')
        BY <1>1, <3>2, <4>1
      <4>3. ~PastTheEnd(u.page, r) => rows'.page = ui'.page
        BY <1>1, <1>5, <3>2, <3>3, <4>1
      <4> QED  BY <4>2, <4>3
    <3>5. CASE ~new
      <4>1. answer = sig
        BY <3>1, <3>2, <3>5 DEF Applies, Confirms
      <4>2. rows' = rows /\ (ui' = u \/ PastTheEnd(rows'.page, rows'))
        BY <1>1, <1>5, <3>3, <3>5
      <4>3. sig' = sig
        BY <1>1, <3>5
      <4> QED  BY <3>2, <4>1, <4>2, <4>3
    <3> QED  BY <3>4, <3>5
  <2> QED  BY <2>2, <2>3
<1>11. ASSUME nav' # NoNav PROVE NavOK(nav', ui', rows', poll')
  <2>1. ~back /\ ~Confirms(run, u, answer) /\ nav' = nav /\ nav # NoNav /\ u1 = u
    BY <1>1, <1>11
  <2>2. nav.to # -1
    BY <2>1 DEF NavOK
  <2>3. ASSUME nav.undisturbed
        PROVE  /\ u2.page <= nav.to
               /\ u2.page = nav.to => ~PastTheEnd(u2.page, r) \/ PastTheEnd(r.page, r)
               /\ \/ r.page = nav.from
                  \/ u2.page < nav.to /\ (poll'.run.at = "idle" \/ poll'.run.page # nav.to)
    <3>1. /\ u.page <= nav.to
          /\ u.page = nav.to => ~PastTheEnd(u.page, rows) \/ PastTheEnd(rows.page, rows)
          /\ \/ rows.page = nav.from
             \/ u.page < nav.to /\ (run.at = "idle" \/ run.page # nav.to)
      BY <2>1, <2>3 DEF NavOK
    <3>2. u2.page <= nav.to
      BY <1>5, <1>9, <2>1, <3>1
    <3>3. CASE r = rows
      <4>1. u2.page = nav.to => u2 = u \/ u2.page = u.page
        BY <1>5, <1>9, <2>1, <3>1, <3>2
      <4>2. u2.page = nav.to => ~PastTheEnd(u2.page, r) \/ PastTheEnd(r.page, r)
        BY <3>1, <3>3, <4>1
      <4>3. \/ r.page = nav.from
            \/ u2.page < nav.to /\ (poll'.run.at = "idle" \/ poll'.run.page # nav.to)
        BY <1>5, <1>6, <1>9, <2>1, <3>1, <3>3
      <4> QED  BY <3>2, <4>2, <4>3
    <3>4. CASE r # rows
      <4>1. new /\ answer.kind = "rows" /\ Fits(run, u, answer) /\ run.view = "requests"
        BY <1>2, <3>4 DEF AnswerOK
      <4>2. u.page = run.page /\ ~Pending(run)
        BY <2>1, <4>1 DEF Fits, Confirms
      <4>3. u.page # nav.to
        BY <4>1, <4>2 DEF Pending
      <4>4. u2.page < nav.to
        BY <1>5, <1>9, <2>1, <3>1, <4>3
      <4> QED  BY <1>6, <1>9, <3>2, <4>4
    <3> QED  BY <3>3, <3>4
  <2> QED  BY <1>1, <2>1, <2>2, <2>3 DEF NavOK
<1>12. NavInv'
  <2>1. CASE nav' = NoNav
    BY <2>1 DEF NavInv, NavOK
  <2>2. CASE nav' # NoNav
    BY <1>11, <2>2 DEF NavInv
  <2> QED  BY <2>1, <2>2
<1> QED  BY <1>8, <1>10, <1>12 DEF Aligned

-----------------------------------------------------------------------------
(* What the steps do to the screen, and to the rest of the state.              *)
ScreenKept == ScreenMoves /\ NavInv' /\ Aligned

RestKept ==
  /\ all' \in FullTypes /\ del' \in DelTypes /\ bg' \in BOOLEAN
  /\ last' \in Nat \cup {NoVersion} /\ followUp' \in BOOLEAN /\ excused' \in BOOLEAN

(* The same poll, but for its requests: its run is where it was.               *)
SameRun(p, q) == q.run.at = p.run.at /\ q.run.page = p.run.page

LEMMA RunsFollow ==
  ASSUME NEW p, NEW q, NEW x, NEW u, RunFrom(q, x, u), SameRun(p, q) \/ RunFrom(p, q, u)
  PROVE  RunFrom(p, x, u)
BY DEF RunFrom, SameRun

LEMMA StepsBack ==
  ASSUME ScreenTypes, NavInv, nav' = nav,
         rows' \in RowTypes, rows'.page = rows.page, ui' \in UiTypes, poll' \in PollTypes,
         ui'.page <= ui.page, RunFrom(poll, poll', ui'),
         ui'.page < ui.page \/ ~PastTheEnd(ui'.page, rows') \/ rows' = rows
  PROVE  ScreenKept
<1>1. ui \in UiTypes /\ rows \in RowTypes /\ nav \in NavTypes /\ poll \in PollTypes
  BY DEF ScreenTypes
<1>2. NavOK(nav, ui', rows', poll')
  <2> DEFINE v == ui'
             s == rows'
             q == poll'
  <2>1. v \in UiTypes /\ s \in RowTypes /\ q \in PollTypes /\ s.page = rows.page
        /\ v.page <= ui.page /\ RunFrom(poll, q, v)
        /\ (v.page < ui.page \/ ~PastTheEnd(v.page, s) \/ s = rows)
    OBVIOUS
  <2> HIDE DEF v, s, q
  <2>2. NavOK(nav, v, s, q)
    BY <1>1, <2>1, NavStays DEF NavInv
  <2> QED  BY <2>2 DEF v, s, q
<1>3. NavInv'
  BY <1>2 DEF NavInv
<1> QED  BY <1>1, <1>3 DEF ScreenKept, ScreenMoves, Aligned

(* The page that is open stays.                                                *)
LEMMA PageStays ==
  ASSUME ScreenTypes, NavInv, UNCHANGED <<nav, rows>>,
         ui' \in UiTypes, ui'.page = ui.page, poll' \in PollTypes, RunFrom(poll, poll', ui')
  PROVE  ScreenKept
<1>1. ui'.page <= ui.page
  BY PageAssumption DEF UiTypes, PageNumbers, ScreenTypes
<1> QED  BY <1>1, StepsBack DEF ScreenTypes

LEMMA ScreenStays ==
  ASSUME ScreenTypes, NavInv, UNCHANGED <<nav, rows, ui>>, poll' \in PollTypes, SameRun(poll, poll')
  PROVE  ScreenKept
BY PageStays DEF ScreenTypes, RunFrom, SameRun

LEMMA RestStays ==
  ASSUME ScreenTypes, UNCHANGED <<all, del, bg, last, followUp, excused>> PROVE RestKept
BY DEF ScreenTypes, RestKept

(* An abort, and a poll that is to bring the rows anew.                        *)
LEMMA PollTouched ==
  ASSUME NEW p \in PollTypes
  PROVE  /\ [p EXCEPT !.force = TRUE] \in PollTypes /\ SameRun(p, [p EXCEPT !.force = TRUE])
         /\ \A g \in AbortedGets(p.run.get) :
              [p EXCEPT !.run.get = g] \in PollTypes /\ SameRun(p, [p EXCEPT !.run.get = g])
<1>1. [p EXCEPT !.force = TRUE] \in PollTypes /\ SameRun(p, [p EXCEPT !.force = TRUE])
  BY DEF PollTypes, SameRun
<1>2. ASSUME NEW g \in AbortedGets(p.run.get)
      PROVE  [p EXCEPT !.run.get = g] \in PollTypes /\ SameRun(p, [p EXCEPT !.run.get = g])
  <2>1. p.run \in RunTypes
    BY DEF PollTypes
  <2>2. g \in GetTypes /\ (p.run.get.at = "none" => g.at = "none")
    BY <2>1 DEF AbortedGets, GetTypes, RunTypes, RunFields
  <2> DEFINE run == [p.run EXCEPT !.get = g]
  <2>3. run \in RunFields /\ run.at = p.run.at /\ run.page = p.run.page
        /\ run.view = p.run.view /\ run.get = g
    BY <2>1, <2>2 DEF RunTypes, RunFields
  <2>4. run \in RunTypes
    BY <2>1, <2>2, <2>3 DEF RunTypes
  <2>5. [p EXCEPT !.run.get = g] = [p EXCEPT !.run = run]
    OBVIOUS
  <2> HIDE DEF run
  <2> QED  BY <2>3, <2>4, <2>5 DEF PollTypes, SameRun
<1> QED  BY <1>1, <1>2

(* A view that is shown, and rows that are asked for.                          *)
LEMMA ShownTyped ==
  ASSUME srv \in ServerStates, NEW p \in PollTypes, NEW u \in UiTypes, NEW r \in RowTypes
  PROVE  Shown(p, u, r) \in PollTypes /\ RunFrom(p, Shown(p, u, r), RenderedUi(u, r))
<1>1. RenderedUi(u, r) \in UiTypes
  BY RenderedTyped
<1>2. RenderedPoll(p, u, r) \in PollTypes /\ RunFrom(p, RenderedPoll(p, u, r), RenderedUi(u, r))
  BY RenderedPollTyped
<1> DEFINE q == RenderedPoll(p, u, r)
           v == RenderedUi(u, r)
<1> HIDE DEF q, v
<1>3. RefreshRuntime(q, v, TRUE) \in PollTypes /\ RunFrom(q, RefreshRuntime(q, v, TRUE), v)
  BY <1>1, <1>2, RefreshTyped DEF q, v
<1>4. RunFrom(p, RefreshRuntime(q, v, TRUE), v)
  BY <1>2, <1>3, RunsFollow DEF q, v
<1> QED  BY <1>2, <1>3, <1>4 DEF Shown, q, v

(* Clicks that render the page for the rows there are.                         *)
LEMMA RenderKeeps ==
  ASSUME ScreenTypes, NavInv, UNCHANGED <<nav, rows>>,
         NEW u \in UiTypes, u.page <= ui.page, u.page = ui.page \/ u.page = 0,
         ui' = RenderedUi(u, rows),
         poll' \in PollTypes, RunFrom(poll, poll', ui')
  PROVE  ScreenKept
<1>1. /\ ui' \in UiTypes /\ ui'.page <= u.page
      /\ ~PastTheEnd(u.page, rows) => ui' = u
  BY RenderedTyped DEF ScreenTypes
<1>2. ui'.page \in Int /\ u.page \in Int /\ ui.page \in Int
  BY <1>1, PageAssumption DEF UiTypes, PageNumbers, ScreenTypes
<1>3. ui'.page <= ui.page
  BY <1>1, <1>2
<1> QED  BY <1>1, <1>3, StepsBack DEF ScreenTypes

(* Clicks that open the first page.                                            *)
LEMMA FirstPageKeeps ==
  ASSUME ScreenTypes, NavInv, nav' = nav, rows' \in RowTypes, rows'.page = rows.page,
         ui' \in UiTypes, ui'.page = 0,
         poll' \in PollTypes, RunFrom(poll, poll', ui')
  PROVE  ScreenKept
<1>1. 0 <= ui.page
  BY PageAssumption DEF UiTypes, PageNumbers, ScreenTypes
<1>2. ~PastTheEnd(ui'.page, rows')
  BY FirstPageExists
<1> QED  BY <1>1, <1>2, StepsBack

(* A rendering of the first page stays there.                                  *)
LEMMA FirstPageRendered ==
  ASSUME NEW u \in UiTypes, NEW r \in RowTypes, u.page = 0
  PROVE  RenderedUi(u, r) = u
BY FirstPageExists, RenderedTyped

-----------------------------------------------------------------------------
LEMMA RefreshAllKeeps ==
  ASSUME PagesInv, NEW p \in PollTypes, NEW u \in UiTypes, NEW loud \in BOOLEAN,
         RefreshAll(p, u, loud)
  PROVE  all' \in FullTypes /\ poll' \in PollTypes /\ SameRun(p, poll')
<1>1. srv \in ServerStates /\ all \in FullTypes
  BY DEF PagesInv, ModelsInv, ScreenTypes
<1>2. CASE all.at # "idle"
  <2>1. poll' = p /\ all' = [all EXCEPT !.wanted = IF loud \/ @ = "loud" THEN "loud" ELSE "quiet"]
    BY <1>2 DEF RefreshAll
  <2> QED  BY <1>1, <2>1 DEF FullTypes, SameRun
<1>3. CASE all.at = "idle"
  <2>1. all' = StartFull(all, p, u, loud) /\ poll' = [p EXCEPT !.force = FALSE]
    BY <1>3 DEF RefreshAll, StartedFull
  <2> QED  BY <1>1, <2>1, StartFullTyped DEF PollTypes, SameRun
<1> QED  BY <1>2, <1>3

LEMMA AskKeeps ==
  ASSUME srv \in ServerStates, ScreenTypes, NEW u \in UiTypes, AskForRows(u)
  PROVE  ui' = u /\ poll' \in PollTypes /\ RunFrom(poll, poll', u)
<1> DEFINE q == [poll EXCEPT !.force = TRUE]
<1>1. q \in PollTypes /\ SameRun(poll, q)
  BY PollTouched DEF ScreenTypes
<1>2. ui' = u /\ poll' = RefreshRuntime(q, u, TRUE)
  BY DEF AskForRows
<1> HIDE DEF q
<1>3. RefreshRuntime(q, u, TRUE) \in PollTypes /\ RunFrom(q, RefreshRuntime(q, u, TRUE), u)
  BY <1>1, RefreshTyped
<1> QED  BY <1>1, <1>2, <1>3, RunsFollow

(* A page that a click leads to exists.                                        *)
LEMMA TargetExists ==
  ASSUME NEW page \in PageNumbers, NEW pages \in Pages, pages > 0, NEW direction
  PROVE  PageTarget(page, pages, direction) \in PageNumbers
         /\ (PageTarget(page, pages, direction) # page =>
               PageTarget(page, pages, direction) < pages \/ PageTarget(page, pages, direction) < page)
BY PageAssumption DEF PageTarget, PageNumbers, Pages

LEMMA TurnKeeps ==
  ASSUME PagesInv, NEW d, TurnPage(d) PROVE ScreenKept
<1> DEFINE target == PageTarget(ui.page, rows.pages, d)
           u      == [ui EXCEPT !.page = target]
<1>1. /\ srv \in ServerStates /\ ScreenTypes /\ ui \in UiTypes /\ rows \in RowTypes
      /\ ui.page \in PageNumbers /\ rows.pages \in Pages /\ ui.page \in Int /\ rows.pages \in Int
  BY PageAssumption DEF PagesInv, ModelsInv, ScreenTypes, UiTypes, RowTypes, PageNumbers, Pages
<1>2. /\ nav = NoNav /\ rows.pages > 0 /\ target # ui.page /\ rows' = rows
      /\ nav' = [from |-> ui.page, to |-> target, undisturbed |-> rows.page = ui.page]
      /\ AskForRows(u)
  BY DEF TurnPage, Unmoved
<1>3. target \in PageNumbers /\ (target < rows.pages \/ target < ui.page)
  BY <1>1, <1>2, TargetExists
<1> HIDE DEF target
<1>4. u \in UiTypes /\ u.page = target
  BY <1>1, <1>3 DEF UiTypes
<1> HIDE DEF u
<1>5. ui' = u /\ poll' \in PollTypes
  BY <1>1, <1>2, <1>4, AskKeeps
<1>6. nav' \in NavTypes
  BY <1>1, <1>2, <1>3 DEF NavTypes
<1>7. NavInv'
  <2>1. target # -1 /\ target <= target /\ target \in Int
    BY <1>3, PageAssumption DEF PageNumbers
  <2>2. /\ nav'.from = ui.page /\ nav'.to = target
        /\ nav'.undisturbed <=> rows.page = ui.page
    BY <1>2
  <2>3. CASE target < rows.pages
    <3>1. ~PastTheEnd(ui'.page, rows')
      BY <1>1, <1>2, <1>4, <1>5, <2>1, <2>3 DEF PastTheEnd
    <3> QED  BY <1>2, <1>4, <1>5, <2>1, <2>2, <3>1 DEF NavInv, NavOK
  <2>4. CASE ~(target < rows.pages)
    <3>1. target < ui.page /\ rows.pages <= ui.page
      BY <1>1, <1>3, <2>1, <2>4
    <3>2. rows.page = ui.page => PastTheEnd(rows'.page, rows')
      BY <1>1, <1>2, <3>1 DEF PastTheEnd
    <3> QED  BY <1>2, <1>4, <1>5, <2>1, <2>2, <3>2 DEF NavInv, NavOK
  <2> QED  BY <2>3, <2>4
<1> QED  BY <1>1, <1>2, <1>4, <1>5, <1>6, <1>7 DEF ScreenKept, ScreenMoves, Aligned

-----------------------------------------------------------------------------
(* What the operator does.                                                     *)
LEMMA ClickRest ==
  ASSUME ScreenTypes, Unmoved, UNCHANGED <<last, excused>>, followUp' \in BOOLEAN
  PROVE  RestKept /\ rows' = rows
BY DEF ScreenTypes, Unmoved, RestKept

LEMMA FilterKeeps ==
  ASSUME PagesInv, NEW f \in Filters, ApplyFilter(f) PROVE ScreenKept /\ RestKept
<1> DEFINE u == [ui EXCEPT !.page = 0, !.filter = f]
<1>1. srv \in ServerStates /\ ScreenTypes /\ NavInv /\ ui \in UiTypes
  BY DEF PagesInv, ModelsInv, ScreenTypes
<1>2. AskForRows(u) /\ Unmoved /\ UNCHANGED <<nav, capVars>>
  BY DEF ApplyFilter
<1>3. u \in UiTypes /\ u.page = 0
  BY <1>1, PagesAreNumbers DEF UiTypes
<1> HIDE DEF u
<1>4. ui' = u /\ poll' \in PollTypes /\ RunFrom(poll, poll', u)
  BY <1>1, <1>2, <1>3, AskKeeps
<1>5. UNCHANGED <<last, excused, followUp>> /\ nav' = nav
  BY <1>2 DEF capVars
<1>6. RestKept /\ rows' = rows
  BY <1>1, <1>2, <1>5, ClickRest DEF ScreenTypes
<1> QED  BY <1>1, <1>3, <1>4, <1>5, <1>6, FirstPageKeeps DEF ScreenTypes

LEMMA TypingKeeps ==
  ASSUME PagesInv, NEW f \in Filters, TypeFilter(f) PROVE ScreenKept /\ RestKept
<1>1. srv \in ServerStates /\ ScreenTypes /\ NavInv /\ ui \in UiTypes
  BY DEF PagesInv, ModelsInv, ScreenTypes
<1>2. ui' = [ui EXCEPT !.filter = f] /\ Unmoved /\ UNCHANGED <<nav, poll, capVars>>
  BY DEF TypeFilter
<1>3. ui' \in UiTypes /\ ui'.page = ui.page
  BY <1>1, <1>2 DEF UiTypes
<1>4. RunFrom(poll, poll', ui') /\ poll' \in PollTypes
  BY <1>1, <1>2 DEF RunFrom, ScreenTypes
<1>5. RestKept /\ rows' = rows
  BY <1>1, <1>2, ClickRest DEF ScreenTypes, capVars
<1> QED  BY <1>1, <1>2, <1>3, <1>4, <1>5, PageStays

LEMMA LeavingTyped ==
  ASSUME NEW p \in PollTypes, NEW u, NEW v, NEW q \in Leaving(p, u, v)
  PROVE  q \in PollTypes /\ SameRun(p, q)
BY PollTouched DEF Leaving, SameRun

LEMMA SetViewKeeps ==
  ASSUME PagesInv, NEW v \in Views, SetView(v) PROVE ScreenKept /\ RestKept
<1> DEFINE u == [ui EXCEPT !.view = v]
<1>1. srv \in ServerStates /\ ScreenTypes /\ NavInv /\ ui \in UiTypes /\ rows \in RowTypes
      /\ poll \in PollTypes
  BY DEF PagesInv, ModelsInv, ScreenTypes
<1>2. Unmoved /\ UNCHANGED <<nav, capVars>>
  BY DEF SetView
<1>3. PICK p \in Leaving(poll, ui, v) : ui' = RenderedUi(u, rows) /\ poll' = Shown(p, u, rows)
  BY DEF SetView
<1>4. u \in UiTypes /\ u.page = ui.page
  BY <1>1 DEF UiTypes
<1> HIDE DEF u
<1>5. p \in PollTypes /\ SameRun(poll, p)
  BY <1>1, LeavingTyped
<1>6. poll' \in PollTypes /\ RunFrom(p, poll', ui')
  BY <1>1, <1>3, <1>4, <1>5, ShownTyped
<1>7. RunFrom(poll, poll', ui')
  BY <1>5, <1>6, RunsFollow
<1>8. RestKept /\ rows' = rows /\ nav' = nav
  BY <1>1, <1>2, ClickRest DEF ScreenTypes, capVars
<1>9. u.page <= ui.page
  BY <1>1, <1>4, PageAssumption DEF UiTypes, PageNumbers
<1> QED  BY <1>1, <1>3, <1>4, <1>6, <1>7, <1>8, <1>9, RenderKeeps

LEMMA GotoKeeps ==
  ASSUME PagesInv, NEW f \in Filters, GotoProviderRequests(f) PROVE ScreenKept /\ RestKept
<1> DEFINE u == [ui EXCEPT !.view = "requests", !.page = 0, !.filter = f]
           q == [poll EXCEPT !.force = TRUE]
<1>1. srv \in ServerStates /\ ScreenTypes /\ NavInv /\ ui \in UiTypes /\ rows \in RowTypes
      /\ poll \in PollTypes
  BY DEF PagesInv, ModelsInv, ScreenTypes
<1>2. Unmoved /\ UNCHANGED <<nav, capVars>>
  BY DEF GotoProviderRequests
<1>3. PICK p \in Leaving(q, ui, "requests") :
        ui' = u /\ poll' = RefreshRuntime(Shown(p, u, rows), u, TRUE)
  BY DEF GotoProviderRequests
<1>4. u \in UiTypes /\ u.page = 0
  <2>1. "requests" \in Views /\ 0 \in PageNumbers
    BY PagesAreNumbers DEF Views
  <2> QED  BY <1>1, <2>1 DEF UiTypes
<1>5. q \in PollTypes /\ SameRun(poll, q)
  BY <1>1, PollTouched
<1> HIDE DEF u, q
<1>6. p \in PollTypes /\ SameRun(q, p)
  BY <1>5, LeavingTyped
<1> DEFINE s == Shown(p, u, rows)
<1>7. s \in PollTypes /\ RunFrom(p, s, u)
  BY <1>1, <1>4, <1>6, ShownTyped, FirstPageRendered
<1>8. poll' = RefreshRuntime(s, u, TRUE)
  BY <1>3
<1> HIDE DEF s
<1>9. poll' \in PollTypes /\ RunFrom(s, poll', u)
  BY <1>1, <1>4, <1>7, <1>8, RefreshTyped
<1>10. RunFrom(poll, poll', u)
  BY <1>5, <1>6, <1>7, <1>9 DEF RunFrom, SameRun
<1>11. RestKept /\ rows' = rows /\ nav' = nav
  BY <1>1, <1>2, ClickRest DEF ScreenTypes, capVars
<1> QED  BY <1>1, <1>3, <1>4, <1>9, <1>10, <1>11, FirstPageKeeps

LEMMA PauseKeeps ==
  ASSUME PagesInv, PressPause PROVE ScreenKept /\ RestKept
<1> DEFINE u == [ui EXCEPT !.paused = ~ui.paused]
<1>1. srv \in ServerStates /\ ScreenTypes /\ NavInv /\ ui \in UiTypes /\ poll \in PollTypes
  BY DEF PagesInv, ModelsInv, ScreenTypes
<1>2. /\ Unmoved /\ UNCHANGED <<nav, capVars>>
      /\ ui' = u
      /\ poll' = IF ui.paused THEN RefreshRuntime(poll, u, TRUE) ELSE poll
  BY DEF PressPause
<1>3. u \in UiTypes /\ u.page = ui.page
  BY <1>1 DEF UiTypes
<1> HIDE DEF u
<1>4. poll' \in PollTypes /\ RunFrom(poll, poll', u)
  <2>1. CASE ui.paused
    BY <1>1, <1>2, <1>3, <2>1, RefreshTyped
  <2>2. CASE ~ui.paused
    BY <1>1, <1>2, <2>2 DEF RunFrom
  <2> QED  BY <2>1, <2>2
<1>5. RestKept /\ rows' = rows /\ nav' = nav
  BY <1>1, <1>2, ClickRest DEF ScreenTypes, capVars
<1> QED  BY <1>1, <1>2, <1>3, <1>4, <1>5, PageStays

LEMMA HideKeeps ==
  ASSUME PagesInv, Hide PROVE ScreenKept /\ RestKept
<1>1. srv \in ServerStates /\ ScreenTypes /\ NavInv /\ ui \in UiTypes /\ poll \in PollTypes
  BY DEF PagesInv, ModelsInv, ScreenTypes
<1>2. ui' = [ui EXCEPT !.hidden = TRUE] /\ Unmoved /\ UNCHANGED <<nav, last, excused>>
      /\ followUp' = FALSE
  BY DEF Hide
<1>3. PICK g \in AbortedGets(poll.run.get) : poll' = [poll EXCEPT !.run.get = g]
  BY DEF Hide
<1>4. poll' \in PollTypes /\ SameRun(poll, poll')
  BY <1>1, <1>3, PollTouched
<1>5. ui' \in UiTypes /\ ui'.page = ui.page
  BY <1>1, <1>2 DEF UiTypes
<1>6. RunFrom(poll, poll', ui')
  BY <1>4 DEF RunFrom, SameRun
<1>7. RestKept /\ rows' = rows
  BY <1>1, <1>2, ClickRest
<1> QED  BY <1>1, <1>2, <1>4, <1>5, <1>6, <1>7, PageStays

LEMMA ReappearKeeps ==
  ASSUME PagesInv, Reappear PROVE ScreenKept /\ RestKept
<1> DEFINE u == [ui EXCEPT !.hidden = FALSE]
<1>1. srv \in ServerStates /\ ScreenTypes /\ NavInv /\ ui \in UiTypes /\ poll \in PollTypes
      /\ caps \in CapTypes
  BY DEF PagesInv, ModelsInv, ScreenTypes, Holds
<1>2. /\ ui' = u /\ Unmoved /\ UNCHANGED <<nav, last, excused>>
      /\ followUp' = FollowsUp(caps, u)
      /\ poll' = IF ui.paused THEN poll ELSE RefreshRuntime(poll, u, TRUE)
  BY DEF Reappear
<1>3. u \in UiTypes /\ u.page = ui.page
  BY <1>1 DEF UiTypes
<1> HIDE DEF u
<1>4. poll' \in PollTypes /\ RunFrom(poll, poll', u)
  <2>1. CASE ~ui.paused
    BY <1>1, <1>2, <1>3, <2>1, RefreshTyped
  <2>2. CASE ui.paused
    BY <1>1, <1>2, <2>2 DEF RunFrom
  <2> QED  BY <2>1, <2>2
<1>5. followUp' \in BOOLEAN
  BY <1>1, <1>2, <1>3 DEF FollowsUp, CapTypes, UiTypes
<1>6. RestKept /\ rows' = rows
  BY <1>1, <1>2, <1>5, ClickRest
<1> QED  BY <1>1, <1>2, <1>3, <1>4, <1>6, PageStays

LEMMA RefreshKeeps ==
  ASSUME PagesInv, PressRefresh PROVE ScreenKept /\ RestKept
<1>1. srv \in ServerStates /\ ScreenTypes /\ NavInv /\ ui \in UiTypes /\ poll \in PollTypes
  BY DEF PagesInv, ModelsInv, ScreenTypes
<1>2. RefreshAll(poll, ui, TRUE) /\ UNCHANGED <<ui, rows, nav, del, bg>>
      /\ UNCHANGED <<last, followUp, excused>>
  BY DEF PressRefresh, capVars
<1>3. all' \in FullTypes /\ poll' \in PollTypes /\ SameRun(poll, poll')
  BY <1>1, <1>2, RefreshAllKeeps
<1>4. RestKept
  BY <1>1, <1>2, <1>3 DEF RestKept, ScreenTypes
<1> QED  BY <1>1, <1>2, <1>3, <1>4, ScreenStays

LEMMA LoginKeeps ==
  ASSUME PagesInv, Login PROVE ScreenKept /\ RestKept
<1> DEFINE u == [ui EXCEPT !.open = TRUE]
           q == Shown(poll, u, rows)
           v == RenderedUi(u, rows)
<1>1. srv \in ServerStates /\ ScreenTypes /\ NavInv /\ ui \in UiTypes /\ rows \in RowTypes
      /\ poll \in PollTypes
  BY DEF PagesInv, ModelsInv, ScreenTypes
<1>2. ui' = v /\ RefreshAll(q, v, FALSE) /\ UNCHANGED <<rows, nav, del, bg>>
      /\ UNCHANGED <<last, followUp, excused>>
  BY DEF Login, capVars
<1>3. u \in UiTypes /\ u.page = ui.page
  BY <1>1 DEF UiTypes
<1> HIDE DEF u
<1>4. q \in PollTypes /\ RunFrom(poll, q, v) /\ v \in UiTypes
  BY <1>1, <1>3, ShownTyped, RenderedTyped
<1>5. v = RenderedUi(u, rows)
  OBVIOUS
<1> HIDE DEF q, v
<1>6. all' \in FullTypes /\ poll' \in PollTypes /\ SameRun(q, poll')
  BY <1>2, <1>4, RefreshAllKeeps
<1>7. RunFrom(poll, poll', v)
  BY <1>4, <1>6 DEF RunFrom, SameRun
<1>8. u.page <= ui.page
  BY <1>1, <1>3, PageAssumption DEF UiTypes, PageNumbers
<1>9. ScreenKept
  BY <1>1, <1>2, <1>3, <1>5, <1>6, <1>7, <1>8, RenderKeeps
<1> QED  BY <1>1, <1>2, <1>6, <1>9 DEF RestKept, ScreenTypes

LEMMA DeleteKeeps ==
  ASSUME PagesInv, NEW selected \in BOOLEAN, PressDelete(selected) PROVE ScreenKept /\ RestKept
<1>1. ScreenTypes /\ NavInv /\ ui \in UiTypes /\ poll \in PollTypes
  BY DEF PagesInv, ScreenTypes
<1>2. /\ del' = [at |-> "sent", selected |-> selected, filter |-> ui.filter]
      /\ UNCHANGED <<ui, rows, nav, poll, all, bg>>
      /\ UNCHANGED <<last, followUp, excused>>
  BY DEF PressDelete, capVars
<1>3. del' \in DelTypes
  BY <1>1, <1>2 DEF DelTypes, UiTypes
<1>4. SameRun(poll, poll') /\ poll' \in PollTypes
  BY <1>1, <1>2 DEF SameRun
<1>5. RestKept
  BY <1>1, <1>2, <1>3 DEF RestKept, ScreenTypes
<1> QED  BY <1>1, <1>2, <1>4, <1>5, ScreenStays

LEMMA OperatorKeeps == ASSUME PagesInv, Operator PROVE ScreenKept /\ RestKept
<1>1. CASE Login \/ PressRefresh \/ PressPause \/ Hide
  BY <1>1, LoginKeeps, RefreshKeeps, PauseKeeps, HideKeeps
<1>2. CASE \E d \in {"prev", "next"} : TurnPage(d)
  <2>1. PICK d \in {"prev", "next"} : TurnPage(d)
    BY <1>2
  <2>2. RestKept
    BY <2>1, ClickRest DEF TurnPage, capVars, PagesInv, ScreenTypes
  <2> QED  BY <2>1, <2>2, TurnKeeps
<1>3. CASE \E f \in Filters : ApplyFilter(f) \/ TypeFilter(f) \/ GotoProviderRequests(f)
  BY <1>3, FilterKeeps, TypingKeeps, GotoKeeps
<1>4. CASE \E v \in Views : SetView(v)
  BY <1>4, SetViewKeeps
<1>5. CASE \E selected \in BOOLEAN : PressDelete(selected)
  BY <1>5, DeleteKeeps
<1> QED  BY <1>1, <1>2, <1>3, <1>4, <1>5 DEF Operator

-----------------------------------------------------------------------------
(* The timers.                                                                 *)
LEMMA PlainPollKeeps ==
  ASSUME PagesInv, poll' = RefreshRuntime(poll, ui, FALSE), UNCHANGED <<ui, rows, nav>>
  PROVE  ScreenKept
<1>1. srv \in ServerStates /\ ScreenTypes /\ NavInv /\ ui \in UiTypes /\ poll \in PollTypes
  BY DEF PagesInv, ModelsInv, ScreenTypes
<1>2. RefreshRuntime(poll, ui, FALSE) \in PollTypes
      /\ RunFrom(poll, RefreshRuntime(poll, ui, FALSE), ui)
  BY <1>1, RefreshTyped
<1> QED  BY <1>1, <1>2, PageStays

LEMMA TimersKeep ==
  ASSUME PagesInv, Tick \/ BecomesDue \/ BackgroundFires \/ FollowUpFires
  PROVE  ScreenKept /\ RestKept
<1>1. ScreenTypes /\ NavInv /\ poll \in PollTypes /\ ui \in UiTypes
  BY DEF PagesInv, ScreenTypes
<1>2. CASE Tick
  BY <1>1, <1>2, PlainPollKeeps, RestStays DEF Tick, capVars
<1>3. CASE BecomesDue
  <2>1. poll' = [poll EXCEPT !.due = @ \cup {ui.view}] /\ UNCHANGED <<ui, rows, nav>>
        /\ UNCHANGED <<all, del, bg, last, followUp, excused>>
    BY <1>3 DEF BecomesDue, capVars
  <2>2. poll' \in PollTypes /\ SameRun(poll, poll')
    BY <1>1, <2>1 DEF PollTypes, SameRun, UiTypes
  <2> QED  BY <1>1, <2>1, <2>2, ScreenStays, RestStays
<1>4. CASE BackgroundFires
  <2>1. ScreenKept
    BY <1>4, PlainPollKeeps DEF BackgroundFires
  <2> QED  BY <1>1, <1>4, <2>1 DEF BackgroundFires, RestKept, ScreenTypes, capVars
<1>5. CASE FollowUpFires
  <2>1. UNCHANGED <<ui, rows, nav, poll>> /\ UNCHANGED <<all, del, bg, last, excused>>
        /\ followUp' = FALSE
    BY <1>5 DEF FollowUpFires, pageVars
  <2>2. poll' \in PollTypes /\ SameRun(poll, poll')
    BY <1>1, <2>1 DEF SameRun
  <2> QED  BY <1>1, <2>1, <2>2, ScreenStays DEF RestKept, ScreenTypes
<1> QED  BY <1>2, <1>3, <1>4, <1>5

-----------------------------------------------------------------------------
(* The polls' answers.                                                         *)
LEMMA AbandonKeeps == ASSUME PagesInv, Abandon PROVE ScreenKept
<1>1. srv \in ServerStates /\ ScreenTypes /\ NavInv /\ ui \in UiTypes /\ poll \in PollTypes
  BY DEF PagesInv, ModelsInv, ScreenTypes
<1>2. poll' = Ended(poll, ui) /\ UNCHANGED <<ui, rows, nav>>
  BY DEF Abandon
<1>3. poll' \in PollTypes /\ RunFrom(poll, poll', ui)
  BY <1>1, <1>2, EndedTyped DEF RunFrom
<1> QED  BY <1>1, <1>2, <1>3, PageStays

LEMMA LearningTyped ==
  ASSUME ScreenTypes, NEW s \in ServerStates, LearnVersion(s.version)
  PROVE  last' \in Nat /\ followUp' \in BOOLEAN /\ excused' \in BOOLEAN
BY DEF LearnVersion, ScreenTypes, ServerStates

LEMMA AnswersAreOK ==
  ASSUME NEW run \in RunTypes, NEW answer \in Answers(run) PROVE AnswerOK(answer, run)
<1>1. run.get \in GetTypes /\ run.page \in PageNumbers /\ run.filter \in Filters
      /\ run.view \in {"requests", "overview", "settings"}
      /\ (run.view = "settings" => run.get.at = "none")
  BY DEF RunTypes, RunFields, Views
<1>2. CASE run.get.at \in {"none", "aborted"}
  <2>1. CASE run.get.at = "none"
    <3>1. Answers(run) = {NothingAsked}
      BY <2>1 DEF Answers
    <3>2. answer = NothingAsked
      BY <3>1
    <3> QED  BY <3>2 DEF AnswerOK, NothingAsked
  <2>2. CASE run.get.at = "aborted"
    <3>1. Answers(run) = {Aborted}
      BY <2>2 DEF Answers
    <3>2. answer = Aborted
      BY <3>1
    <3> QED  BY <3>2 DEF AnswerOK, Aborted
  <2> QED  BY <1>2, <2>1, <2>2
<1>3. CASE run.get.at \notin {"none", "aborted"} /\ run.view = "overview"
  BY <1>3 DEF Answers, AnswerOK, Overview
<1>4. CASE run.get.at \notin {"none", "aborted"} /\ run.view # "overview"
  <2>1. run.view = "requests"
    BY <1>1, <1>4
  <2>2. PICK s \in run.get.could : answer = Rows(Served(s, run.page, run.filter))
    BY <1>4 DEF Answers
  <2>3. s \in ServerStates
    BY <1>1 DEF GetTypes
  <2>4. Served(s, run.page, run.filter) \in RowTypes
    <3>1. s.pages[run.filter] \in Pages /\ s.rev \in Nat
      BY <1>1, <2>3 DEF ServerStates, PageCounts
    <3>2. run.page \in Pages
      BY <1>1, PagesAreNumbers
    <3> QED  BY <1>1, <3>1, <3>2 DEF Served, RowTypes
  <2>5. answer.kind = "rows" /\ answer.rows = Served(s, run.page, run.filter)
        /\ answer.rows.page = run.page
    BY <2>2 DEF Rows, Served
  <2> QED  BY <2>1, <2>4, <2>5 DEF AnswerOK
<1> QED  BY <1>2, <1>3, <1>4

LEMMA CoreKeeps == ASSUME PagesInv, CoreAnswers PROVE ScreenKept /\ RestKept
<1>1. srv \in ServerStates /\ ScreenTypes /\ NavInv /\ ui \in UiTypes /\ poll \in PollTypes
      /\ rows \in RowTypes /\ nav \in NavTypes /\ poll.run \in RunTypes
  BY DEF PagesInv, ModelsInv, ScreenTypes, PollTypes
<1>2. UNCHANGED <<all, del, bg>> /\ poll.run.at = "core"
  BY DEF CoreAnswers
<1>3. CASE poll.run.view # ui.view
  BY <1>1, <1>2, <1>3, AbandonKeeps, RestStays DEF CoreAnswers, capVars
<1>4. CASE poll.run.view = ui.view
  <2>1. PICK s \in poll.run.could, changed \in BOOLEAN :
          LET run  == [poll.run EXCEPT !.at = "view", !.changed = changed]
              p    == [poll EXCEPT !.run = run]
              draw == changed /\ run.get.at = "none"
          IN /\ LearnVersion(s.version)
             /\ IF run.get.at # "none" THEN poll' = p /\ UNCHANGED <<ui, rows, sig, nav>>
                ELSE Conclude(IF draw THEN RenderedPoll(p, ui, rows) ELSE p,
                              IF draw THEN RenderedUi(ui, rows) ELSE ui, NothingAsked)
    BY <1>4 DEF CoreAnswers
  <2> DEFINE run  == [poll.run EXCEPT !.at = "view", !.changed = changed]
             p    == [poll EXCEPT !.run = run]
             draw == changed /\ run.get.at = "none"
             q    == IF draw THEN RenderedPoll(p, ui, rows) ELSE p
             u    == IF draw THEN RenderedUi(ui, rows) ELSE ui
  <2>2. s \in ServerStates
    BY <1>1 DEF RunTypes, RunFields
  <2>3. RestKept
    BY <1>1, <1>2, <2>1, <2>2, LearningTyped DEF RestKept, ScreenTypes
  <2>4. run \in RunTypes /\ run.at = "view" /\ run.page = poll.run.page
    <3>1. run \in RunFields /\ run.at = "view" /\ run.page = poll.run.page
          /\ run.view = poll.run.view /\ run.get = poll.run.get
      BY <1>1 DEF RunTypes, RunFields
    <3> QED  BY <1>1, <3>1 DEF RunTypes
  <2>5. \/ poll' = p /\ UNCHANGED <<ui, rows, nav>>
        \/ Conclude(q, u, NothingAsked)
    BY <2>1
  <2> HIDE DEF run
  <2>6. p \in PollTypes /\ p.run = run
    BY <1>1, <2>4 DEF PollTypes
  <2> HIDE DEF p, draw
  <2>7. CASE poll' = p /\ UNCHANGED <<ui, rows, nav>>
    <3>1. RunFrom(poll, poll', ui') /\ poll' \in PollTypes
      BY <1>2, <2>4, <2>6, <2>7 DEF RunFrom
    <3> QED  BY <1>1, <2>3, <2>7, <3>1, PageStays
  <2>8. CASE Conclude(q, u, NothingAsked)
    <3>1. q \in PollTypes /\ q.run = run
      BY <1>1, <2>4, <2>6, RenderedPollTyped
    <3>2. /\ u \in UiTypes /\ u.page <= ui.page
          /\ (u.page < ui.page \/ ~PastTheEnd(u.page, rows) \/ rows = rows)
      BY <1>1, RenderedTyped, PageAssumption DEF UiTypes, PageNumbers
    <3> HIDE DEF q, u
    <3>3. RunFrom(poll, q, u)
      BY <1>2, <2>4, <3>1 DEF RunFrom
    <3>4. NavOK(nav, ui, rows, poll)
      BY <1>1 DEF NavInv
    <3>5. NavOK(nav, u, rows, q)
      BY <1>1, <3>1, <3>2, <3>3, <3>4, NavStays
    <3>6. AnswerOK(NothingAsked, q.run) /\ q.run.at = "view"
      BY <2>4, <3>1 DEF AnswerOK, NothingAsked
    <3>7. ScreenKept
      BY <1>1, <2>8, <3>1, <3>2, <3>5, <3>6, ConcludeMoves DEF ScreenKept
    <3> QED  BY <2>3, <3>7
  <2> QED  BY <2>5, <2>7, <2>8
<1> QED  BY <1>3, <1>4

LEMMA ViewKeeps == ASSUME PagesInv, ViewAnswers \/ ViewFails PROVE ScreenKept /\ RestKept
<1>1. srv \in ServerStates /\ ScreenTypes /\ NavInv /\ ui \in UiTypes /\ poll \in PollTypes
      /\ poll.run \in RunTypes
  BY DEF PagesInv, ModelsInv, ScreenTypes, PollTypes
<1>2. poll.run.at = "view" /\ UNCHANGED <<all, del, bg>> /\ UNCHANGED <<last, followUp, excused>>
  BY DEF ViewAnswers, ViewFails, capVars
<1>3. RestKept
  BY <1>1, <1>2, RestStays
<1>4. \/ Abandon
      \/ \E answer \in Answers(poll.run) : Conclude(poll, ui, answer)
      \/ Conclude(poll, ui, Failed)
  BY DEF ViewAnswers, ViewFails
<1>5. ASSUME NEW answer, AnswerOK(answer, poll.run), Conclude(poll, ui, answer)
      PROVE  ScreenKept
  BY <1>1, <1>2, <1>5, ConcludeMoves DEF NavInv, ScreenKept
<1>6. AnswerOK(Failed, poll.run)
  BY DEF AnswerOK, Failed
<1> QED  BY <1>1, <1>3, <1>4, <1>5, <1>6, AbandonKeeps, AnswersAreOK

-----------------------------------------------------------------------------
(* The full refresh.                                                           *)
LEMMA FinishTyped ==
  ASSUME PagesInv, NEW a \in FullTypes, NEW r \in RowTypes, FinishFull(a, r)
  PROVE  /\ all' \in FullTypes /\ poll' \in PollTypes /\ ui' \in UiTypes
         /\ RunFrom(poll, poll', ui')
         /\ \E u \in UiTypes : u.page = ui.page /\ ui' = RenderedUi(u, r)
<1> DEFINE u == [ui EXCEPT !.ticking = TRUE]
           p == RenderedPoll(poll, u, r)
           v == RenderedUi(u, r)
<1>1. srv \in ServerStates /\ ui \in UiTypes /\ poll \in PollTypes
  BY DEF PagesInv, ModelsInv, ScreenTypes
<1>2. ui' = v /\ all' = EndedFull(a, p, v) /\ poll' = AfterFull(a, p, v)
  BY DEF FinishFull
<1>3. u \in UiTypes /\ u.page = ui.page
  BY <1>1 DEF UiTypes
<1> HIDE DEF u
<1>4. v \in UiTypes /\ p \in PollTypes /\ RunFrom(poll, p, v)
  BY <1>1, <1>3, RenderedTyped, RenderedPollTyped
<1>5. v = RenderedUi(u, r)
  OBVIOUS
<1> HIDE DEF p, v
<1>6. all' \in FullTypes /\ poll' \in PollTypes /\ poll'.run = p.run
  BY <1>1, <1>2, <1>4, EndedFullTyped
<1>7. RunFrom(poll, poll', v)
  BY <1>4, <1>6 DEF RunFrom
<1> QED  BY <1>2, <1>3, <1>4, <1>5, <1>6, <1>7

(* Rows that nobody waited for end what a navigation can rely on.              *)
LEMMA DisturbedKeeps ==
  ASSUME ScreenTypes, NavInv, nav' = [nav EXCEPT !.undisturbed = FALSE],
         ui' \in UiTypes, rows' \in RowTypes, poll' \in PollTypes
  PROVE  ScreenKept
<1>1. nav \in NavTypes
  BY DEF ScreenTypes
<1>2. nav' \in NavTypes /\ nav'.to = nav.to /\ nav'.undisturbed = FALSE /\ nav'.from = nav.from
  BY <1>1 DEF NavTypes
<1>3. nav = NoNav => nav' = NoNav
  <2>1. NoNav.undisturbed = FALSE
    BY DEF NoNav
  <2>2. nav.undisturbed = FALSE => nav' = nav
    BY <1>1 DEF NavTypes
  <2> QED  BY <2>1, <2>2
<1>4. nav # NoNav => nav.to # -1
  BY DEF NavInv, NavOK
<1>5. NavInv'
  BY <1>2, <1>3, <1>4 DEF NavInv, NavOK
<1>6. nav # NoNav => nav' # NoNav
  BY <1>2, <1>4 DEF NoNav
<1> QED  BY <1>2, <1>5, <1>6 DEF ScreenKept, ScreenMoves, Aligned

(* A full refresh that wrote no rows.                                          *)
LEMMA FinishKeeps ==
  ASSUME PagesInv, NEW a \in FullTypes, FinishFull(a, rows), UNCHANGED <<nav, rows>>
  PROVE  ScreenKept /\ all' \in FullTypes
<1>1. ScreenTypes /\ NavInv /\ rows \in RowTypes /\ ui \in UiTypes
  BY DEF PagesInv, ScreenTypes
<1>2. /\ all' \in FullTypes /\ poll' \in PollTypes /\ ui' \in UiTypes
      /\ RunFrom(poll, poll', ui')
      /\ \E u \in UiTypes : u.page = ui.page /\ ui' = RenderedUi(u, rows)
  BY <1>1, FinishTyped
<1>3. PICK u \in UiTypes : u.page = ui.page /\ ui' = RenderedUi(u, rows)
  BY <1>2
<1>4. u.page <= ui.page
  BY <1>1, <1>3, PageAssumption DEF UiTypes, PageNumbers
<1> QED  BY <1>1, <1>2, <1>3, <1>4, RenderKeeps

LEMMA FollowsTyped ==
  ASSUME NEW c \in CapTypes, NEW u \in UiTypes PROVE FollowsUp(c, u) \in BOOLEAN
BY DEF FollowsUp, CapTypes, UiTypes

LEMMA VersionTyped ==
  ASSUME NEW c, NEW l \in Nat \cup {NoVersion}, NEW s \in ServerStates
  PROVE  AcceptedVersion(c, l, Models(s)) \in Nat \cup {NoVersion}
BY DEF AcceptedVersion, Models, ServerStates

LEMMA FullAnswersKeeps == ASSUME PagesInv, FullAnswers PROVE ScreenKept /\ RestKept
<1>1. ModelsInv /\ srv \in ServerStates /\ ScreenTypes /\ NavInv /\ ui \in UiTypes
      /\ rows \in RowTypes /\ nav \in NavTypes /\ poll \in PollTypes /\ all \in FullTypes
  BY DEF PagesInv, ModelsInv, ScreenTypes
<1>2. PICK sm \in all.could, sr \in all.could, sc \in all.could :
        LET r     == IF all.rows THEN Served(sr, all.page, all.filter) ELSE rows
            seen  == IF all.static THEN AcceptedVersion(caps, last, Models(sc)) ELSE last
            moved == sm.version # seen
            more  == moved /\ seen # NoVersion /\ ~all.static
            a     == [all EXCEPT !.loaded = @ \/ all.static]
        IN /\ rows' = r
           /\ nav' = [nav EXCEPT !.undisturbed = @ /\ ~all.rows]
           /\ last' = sm.version
           /\ excused' = (excused \/ (moved /\ all.static))
           /\ IF more
                THEN /\ all' = [a EXCEPT !.at = "models", !.could = {srv}]
                     /\ UNCHANGED <<ui, poll, followUp>>
                ELSE FinishFull(a, r) /\ followUp' = FollowsUp(caps', ui)
  BY DEF FullAnswers
<1> DEFINE r == IF all.rows THEN Served(sr, all.page, all.filter) ELSE rows
           a == [all EXCEPT !.loaded = @ \/ all.static]
<1>3. sm \in ServerStates /\ sr \in ServerStates
  BY <1>1 DEF FullTypes
<1>4. last' \in Nat /\ excused' \in BOOLEAN
  BY <1>1, <1>2, <1>3 DEF ServerStates, ScreenTypes
<1>5. caps' \in CapTypes
  BY <1>1, FullMoves DEF FullSteps, Moved, ModelsInv, Holds
<1>6. UNCHANGED <<del, bg>>
  BY DEF FullAnswers
<1>7. r \in RowTypes
  <2>1. CASE all.rows
    <3>1. all.page \in Pages /\ all.filter \in Filters
      BY <1>1, PagesAreNumbers DEF FullTypes
    <3>2. sr.pages[all.filter] \in Pages /\ sr.rev \in Nat
      BY <1>3, <3>1 DEF ServerStates, PageCounts
    <3> QED  BY <2>1, <3>1, <3>2 DEF Served, RowTypes
  <2> QED  BY <1>1, <2>1
<1>8. a \in FullTypes
  BY <1>1 DEF FullTypes
<1>9. \/ /\ all' = [a EXCEPT !.at = "models", !.could = {srv}]
         /\ UNCHANGED <<ui, poll, followUp>>
      \/ FinishFull(a, r) /\ followUp' = FollowsUp(caps', ui)
  BY <1>2
<1>10. rows' = r /\ (all.rows => nav' = [nav EXCEPT !.undisturbed = FALSE])
       /\ (~all.rows => nav' = nav /\ r = rows)
  BY <1>1, <1>2 DEF NavTypes
<1> HIDE DEF a, r
<1>11. CASE all' = [a EXCEPT !.at = "models", !.could = {srv}] /\ UNCHANGED <<ui, poll, followUp>>
  <2>1. all' \in FullTypes
    BY <1>1, <1>8, <1>11 DEF FullTypes
  <2>2. RestKept
    BY <1>1, <1>4, <1>6, <1>11, <2>1 DEF RestKept, ScreenTypes
  <2>3. CASE all.rows
    BY <1>1, <1>7, <1>10, <1>11, <2>2, <2>3, DisturbedKeeps
  <2>4. CASE ~all.rows
    BY <1>1, <1>10, <1>11, <2>2, <2>4, ScreenStays DEF SameRun
  <2> QED  BY <2>3, <2>4
<1>12. CASE FinishFull(a, r) /\ followUp' = FollowsUp(caps', ui)
  <2>1. all' \in FullTypes /\ poll' \in PollTypes /\ ui' \in UiTypes
    BY <1>7, <1>8, <1>12, FinishTyped
  <2>2. followUp' \in BOOLEAN
    BY <1>1, <1>5, <1>12 DEF FollowsUp, CapTypes, UiTypes
  <2>3. RestKept
    BY <1>1, <1>4, <1>6, <2>1, <2>2 DEF RestKept, ScreenTypes
  <2>4. CASE all.rows
    BY <1>1, <1>7, <1>10, <2>1, <2>3, <2>4, DisturbedKeeps
  <2>5. CASE ~all.rows
    BY <1>8, <1>10, <1>12, <2>3, <2>5, FinishKeeps
  <2> QED  BY <2>4, <2>5
<1> QED  BY <1>9, <1>11, <1>12

LEMMA FullModelsKeep == ASSUME PagesInv, FullModels \/ FullModelsFail PROVE ScreenKept /\ RestKept
<1>1. ModelsInv /\ ScreenTypes /\ ui \in UiTypes /\ all \in FullTypes
      /\ caps \in CapTypes /\ last \in Nat \cup {NoVersion} /\ excused \in BOOLEAN
  BY DEF PagesInv, ModelsInv, ScreenTypes, Holds
<1>2. FinishFull(all, rows) /\ UNCHANGED <<rows, nav, del, bg>>
      /\ (followUp' = FollowsUp(caps', ui) \/ followUp' = FollowsUp(caps, ui))
      /\ (excused' = excused \/ excused' = (excused \/ ~followUp'))
  BY DEF FullModels, FullModelsFail
<1>3. ScreenKept /\ all' \in FullTypes
  BY <1>1, <1>2, FinishKeeps
<1>4. caps' \in CapTypes
  BY <1>1, FullMoves, LossMoves DEF FullSteps, Losses, Moved, ModelsInv, Holds
<1>5. followUp' \in BOOLEAN
  BY <1>1, <1>2, <1>4 DEF FollowsUp, CapTypes, UiTypes
<1>6. excused' \in BOOLEAN
  BY <1>1, <1>2, <1>5
<1>7. last' \in Nat \cup {NoVersion}
  <2>1. CASE FullModels
    <3>1. PICK s \in all.could : last' = AcceptedVersion(caps, last, Models(s))
      BY <2>1 DEF FullModels
    <3>2. s \in ServerStates
      BY <1>1 DEF FullTypes
    <3> QED  BY <1>1, <3>1, <3>2, VersionTyped
  <2>2. CASE FullModelsFail
    BY <1>1, <2>2 DEF FullModelsFail
  <2> QED  BY <2>1, <2>2
<1> QED  BY <1>1, <1>2, <1>3, <1>5, <1>6, <1>7 DEF RestKept, ScreenTypes

LEMMA FullLostKeeps == ASSUME PagesInv, FullFails \/ FullRefused PROVE ScreenKept /\ RestKept
<1>1. srv \in ServerStates /\ ScreenTypes /\ NavInv /\ ui \in UiTypes /\ poll \in PollTypes
      /\ all \in FullTypes
  BY DEF PagesInv, ModelsInv, ScreenTypes
<1>2. UNCHANGED <<rows, nav, del, bg, last, followUp>> /\ excused' = (excused \/ caps = NoCaps)
  BY DEF FullFails, FullRefused, Missed
<1>3. excused' \in BOOLEAN
  BY <1>1, <1>2 DEF ScreenTypes
<1>4. /\ ui' \in UiTypes /\ ui'.page = ui.page
      /\ poll' = AfterFull(all, poll, ui) \/ poll' = AfterFull(all, poll, ui')
  <2>1. CASE FullFails
    BY <1>1, <2>1 DEF FullFails, UiTypes
  <2>2. CASE FullRefused
    <3>1. PICK starts \in BOOLEAN : ui' = [ui EXCEPT !.open = FALSE, !.ticking = starts]
      BY <2>2 DEF FullRefused
    <3>2. poll' = AfterFull(all, poll, ui')
      BY <2>2 DEF FullRefused
    <3> QED  BY <1>1, <3>1, <3>2 DEF UiTypes
  <2> QED  BY <2>1, <2>2
<1>5. \A u \in UiTypes : /\ EndedFull(all, poll, u) \in FullTypes
                         /\ AfterFull(all, poll, u) \in PollTypes
                         /\ AfterFull(all, poll, u).run = poll.run
  BY <1>1, EndedFullTyped
<1>6. poll' \in PollTypes /\ poll'.run = poll.run
  <2>1. CASE poll' = AfterFull(all, poll, ui)
    BY <1>1, <1>5, <2>1
  <2>2. CASE poll' = AfterFull(all, poll, ui')
    BY <1>4, <1>5, <2>2
  <2> QED  BY <1>4, <2>1, <2>2
<1>7. all' \in FullTypes
  <2>1. CASE FullFails
    BY <1>1, <1>5, <2>1 DEF FullFails
  <2>2. CASE FullRefused
    <3>1. PICK loaded \in {FALSE, all.loaded} :
            all' = [EndedFull(all, poll, ui') EXCEPT !.loaded = loaded]
      BY <2>2 DEF FullRefused
    <3>2. loaded \in BOOLEAN
      BY <1>1 DEF FullTypes
    <3>3. EndedFull(all, poll, ui') \in FullTypes
      BY <1>4, <1>5
    <3> QED  BY <3>1, <3>2, <3>3 DEF FullTypes
  <2> QED  BY <2>1, <2>2
<1>8. RunFrom(poll, poll', ui')
  BY <1>6 DEF RunFrom
<1>9. ScreenKept
  BY <1>1, <1>2, <1>4, <1>6, <1>8, PageStays
<1> QED  BY <1>1, <1>2, <1>3, <1>7, <1>9 DEF RestKept, ScreenTypes

-----------------------------------------------------------------------------
(* Deletions, the answers that bring models, and the server.                   *)
LEMMA DeletionKeeps ==
  ASSUME PagesInv, DeletionAnswered \/ DeletionFails PROVE ScreenKept /\ RestKept
<1>1. srv \in ServerStates /\ ScreenTypes /\ NavInv /\ ui \in UiTypes /\ rows \in RowTypes
      /\ poll \in PollTypes
  BY DEF PagesInv, ModelsInv, ScreenTypes
<1>2. NoDeletion \in DelTypes
  BY PagesAreNumbers DEF NoDeletion, DelTypes
<1>3. CASE DeletionFails
  <2>1. UNCHANGED <<ui, rows, nav, poll>> /\ SameRun(poll, poll')
    BY <1>3 DEF DeletionFails, SameRun
  <2>2. ScreenKept
    BY <1>1, <2>1, ScreenStays
  <2> QED  BY <1>1, <1>2, <1>3, <2>2 DEF DeletionFails, RestKept, ScreenTypes, capVars
<1>4. CASE DeletionAnswered
  <2> DEFINE u == [ui EXCEPT !.page = 0]
             q == [poll EXCEPT !.force = TRUE]
  <2>1. u \in UiTypes /\ u.page = 0
    BY <1>1, PagesAreNumbers DEF UiTypes
  <2>2. q \in PollTypes /\ SameRun(poll, q)
    BY <1>1, PollTouched
  <2>3. UNCHANGED <<nav, all>> /\ UNCHANGED <<last, followUp, excused>>
        /\ del' = NoDeletion /\ bg' = TRUE
    BY <1>4 DEF DeletionAnswered, ScheduleBackground, capVars
  <2>4. /\ rows' \in RowTypes /\ rows'.page = rows.page
        /\ ui' = RenderedUi(u, rows')
        /\ poll' = RenderedPoll(poll, u, rows') \/ poll' = RenderedPoll(q, u, rows')
    <3>1. CASE del.selected
      <4>1. PICK left \in {rows.pages, rows.pages - 1} \cap Pages :
              /\ rows' = [rows EXCEPT !.pages = left, !.rev = 0]
              /\ ui' = RenderedUi(u, rows') /\ poll' = RenderedPoll(poll, u, rows')
        BY <1>4, <3>1 DEF DeletionAnswered, Render
      <4>2. rows' \in RowTypes /\ rows'.page = rows.page
        BY <1>1, <4>1 DEF RowTypes
      <4> QED  BY <4>1, <4>2
    <3>2. CASE ~del.selected
      BY <1>1, <1>4, <3>2 DEF DeletionAnswered, Render
    <3> QED  BY <3>1, <3>2
  <2> HIDE DEF u, q
  <2>5. ui' = u
    BY <2>1, <2>4, FirstPageRendered
  <2>6. poll' \in PollTypes /\ RunFrom(poll, poll', ui')
    <3>1. \A p \in PollTypes : /\ RenderedPoll(p, u, rows') \in PollTypes
                               /\ RunFrom(p, RenderedPoll(p, u, rows'), u)
      <4> DEFINE r == rows'
      <4>1. r \in RowTypes
        BY <2>4
      <4> HIDE DEF r
      <4>2. \A p \in PollTypes : /\ RenderedPoll(p, u, r) \in PollTypes
                                 /\ RunFrom(p, RenderedPoll(p, u, r), RenderedUi(u, r))
        BY <1>1, <2>1, <4>1, RenderedPollTyped
      <4>3. RenderedUi(u, r) = u
        BY <2>1, <4>1, FirstPageRendered
      <4> QED  BY <4>2, <4>3 DEF r
    <3>2. CASE poll' = RenderedPoll(poll, u, rows')
      BY <1>1, <2>5, <3>1, <3>2
    <3>3. CASE poll' = RenderedPoll(q, u, rows')
      BY <2>2, <2>5, <3>1, <3>3 DEF RunFrom, SameRun
    <3> QED  BY <2>4, <3>2, <3>3
  <2>7. ScreenKept
    BY <1>1, <2>1, <2>3, <2>4, <2>5, <2>6, FirstPageKeeps
  <2>8. RestKept
    BY <1>1, <1>2, <2>3 DEF RestKept, ScreenTypes
  <2> QED  BY <2>7, <2>8
<1> QED  BY <1>3, <1>4

LEMMA ModelsKeep ==
  ASSUME PagesInv, NEW i \in DOMAIN fetches, ModelsArrive(i) \/ ModelsFail(i)
  PROVE  ScreenKept /\ RestKept
<1>1. ModelsInv /\ ScreenTypes /\ NavInv /\ ui \in UiTypes /\ poll \in PollTypes
      /\ caps \in CapTypes /\ last \in Nat \cup {NoVersion} /\ excused \in BOOLEAN
  BY DEF PagesInv, ModelsInv, ScreenTypes, Holds
<1>2. UNCHANGED <<ui, rows, nav, poll>> /\ UNCHANGED <<all, del, bg>>
      /\ (followUp' = FollowsUp(caps', ui) \/ followUp' = FollowsUp(caps, ui))
      /\ (excused' = excused \/ excused' = (excused \/ ~followUp'))
  BY DEF ModelsArrive, ModelsFail, pageVars
<1>3. ScreenKept
  BY <1>1, <1>2, ScreenStays DEF SameRun
<1>4. caps' \in CapTypes
  <2>1. Arrivals \/ Losses
    BY DEF Arrivals, Losses
  <2> QED  BY <1>1, <2>1, ArrivalMoves, LossMoves DEF Moved, ModelsInv, Holds
<1>5. followUp' \in BOOLEAN
  BY <1>1, <1>2, <1>4 DEF FollowsUp, CapTypes, UiTypes
<1>6. excused' \in BOOLEAN
  BY <1>1, <1>2, <1>5
<1>7. last' \in Nat \cup {NoVersion}
  <2>1. CASE ModelsArrive(i)
    <3>1. PICK s \in fetches[i].could : last' = AcceptedVersion(caps, last, Models(s))
      BY <2>1 DEF ModelsArrive
    <3>2. fetches[i] \in Requests(srv)
      BY <1>1 DEF ModelsInv
    <3>3. s \in ServerStates
      BY <3>2 DEF Requests, Past
    <3> QED  BY <1>1, <3>1, <3>3, VersionTyped
  <2>2. CASE ModelsFail(i)
    BY <1>1, <2>2 DEF ModelsFail
  <2> QED  BY <2>1, <2>2
<1> QED  BY <1>1, <1>2, <1>3, <1>5, <1>6, <1>7 DEF RestKept, ScreenTypes

LEMMA BecomingKeeps ==
  ASSUME PagesInv, NEW s \in ServerStates, Becomes(s), del' \in DelTypes
  PROVE  ScreenKept /\ RestKept
<1>1. ScreenTypes /\ NavInv /\ poll \in PollTypes /\ all \in FullTypes
      /\ poll.run \in RunTypes /\ poll.run.get \in GetTypes
  BY DEF PagesInv, ScreenTypes, PollTypes, RunTypes, RunFields
<1>2. UNCHANGED <<ui, rows, nav>> /\ UNCHANGED <<bg, last, followUp, excused>>
  BY DEF Becomes
<1> DEFINE g == [poll.run.get EXCEPT !.could = IF poll.run.get.at = "sent" THEN Learns(@, s) ELSE @]
           c == IF poll.run.at = "core" THEN Learns(poll.run.could, s) ELSE poll.run.could
           run == [poll.run EXCEPT !.could = c, !.get = g]
<1>3. g \in GetTypes /\ g.at = poll.run.get.at
  BY <1>1 DEF GetTypes, Learns
<1>4. c \in SUBSET ServerStates
  BY <1>1 DEF RunTypes, RunFields, Learns
<1>5. poll' = [poll EXCEPT !.run = run]
  BY DEF Becomes
<1> HIDE DEF g, c
<1>6. run \in RunTypes /\ run.at = poll.run.at /\ run.page = poll.run.page
  <2>1. run \in RunFields /\ run.at = poll.run.at /\ run.page = poll.run.page
        /\ run.view = poll.run.view /\ run.get = g
    BY <1>1, <1>3, <1>4 DEF RunTypes, RunFields
  <2> QED  BY <1>1, <1>3, <2>1 DEF RunTypes
<1> HIDE DEF run
<1>7. poll' \in PollTypes /\ SameRun(poll, poll')
  BY <1>1, <1>5, <1>6 DEF PollTypes, SameRun
<1>8. ScreenKept
  BY <1>1, <1>2, <1>7, ScreenStays
<1>9. all' \in FullTypes
  BY <1>1 DEF Becomes, FullTypes, Learns
<1> QED  BY <1>1, <1>2, <1>8, <1>9 DEF RestKept, ScreenTypes

LEMMA WorldKeeps == ASSUME PagesInv, World \/ Deletes PROVE ScreenKept /\ RestKept
<1>1. ModelsInv /\ ScreenTypes /\ NavInv /\ srv \in ServerStates /\ poll \in PollTypes
      /\ del \in DelTypes
  BY DEF PagesInv, ModelsInv, ScreenTypes
<1>2. CASE HistoryChanges
  <2>1. PICK n \in Pages : Becomes(Having(n, {}))
    BY <1>2 DEF HistoryChanges
  <2>2. Having(n, {}) \in ServerStates
    BY <1>1, HistoryGrows DEF Grows
  <2>3. del' \in DelTypes
    BY <1>1, <1>2 DEF HistoryChanges
  <2> QED  BY <2>1, <2>2, <2>3, BecomingKeeps
<1>3. CASE Deletes
  <2>1. PICK n \in 0..srv.pages["all"] :
          Becomes(Having(n, IF del.selected THEN {} ELSE {del.filter}))
    BY <1>3 DEF Deletes
  <2>2. n \in Pages
    BY <1>1, PageAssumption DEF ServerStates, PageCounts, Pages
  <2>3. Having(n, IF del.selected THEN {} ELSE {del.filter}) \in ServerStates
    BY <1>1, <2>2, HistoryGrows DEF Grows
  <2>4. del' \in DelTypes
    BY <1>1, <1>3 DEF Deletes, DelTypes
  <2> QED  BY <2>1, <2>3, <2>4, BecomingKeeps
<1>4. CASE ModelsChange
  <2>1. PICK pending \in BOOLEAN :
          Becomes([srv EXCEPT !.version = @ + 1, !.pending = pending])
    BY <1>4 DEF ModelsChange
  <2>2. srv.version + 1 \in Nat
    BY <1>1 DEF ServerStates
  <2>3. [srv EXCEPT !.version = @ + 1, !.pending = pending] \in ServerStates
    BY <1>1, <2>2, ModelsStep
  <2>4. del' \in DelTypes
    BY <1>1, <1>4 DEF ModelsChange
  <2> QED  BY <2>1, <2>3, <2>4, BecomingKeeps
<1>5. CASE Restarts
  <2>1. UNCHANGED <<ui, rows, nav, poll>> /\ UNCHANGED <<all, del, bg, last, followUp>>
        /\ excused' = TRUE
    BY <1>5 DEF Restarts, pageVars
  <2>2. ScreenKept
    BY <1>1, <2>1, ScreenStays DEF SameRun
  <2> QED  BY <1>1, <2>1, <2>2 DEF RestKept, ScreenTypes
<1> QED  BY <1>2, <1>3, <1>4, <1>5 DEF World

-----------------------------------------------------------------------------
LEMMA PagesInitHolds == Init => PagesInv
<1> SUFFICES ASSUME Init PROVE PagesInv
  OBVIOUS
<1>1. "all" \in Filters /\ 0 \in PageNumbers /\ 0 \in Pages
  BY PagesAreNumbers
<1>2. PICK sc \in Scenarios :
        ui = [open |-> FALSE, hidden |-> FALSE, paused |-> FALSE, ticking |-> FALSE,
              view |-> sc.view, page |-> 0, filter |-> "all"]
  BY DEF Init
<1>3. ui \in UiTypes
  BY <1>1, <1>2, ScenariosAssumption DEF UiTypes
<1>4. rows \in RowTypes /\ nav = NoNav /\ nav \in NavTypes
  BY <1>1 DEF Init, NoRows, RowTypes, NoNav, NavTypes
<1>5. poll \in PollTypes
  BY NoRunTyped DEF Init, PollTypes
<1>6. all \in FullTypes /\ del \in DelTypes /\ bg \in BOOLEAN
  BY <1>1 DEF Init, NoFull, FullTypes, NoDeletion, DelTypes
<1>7. last \in Nat \cup {NoVersion} /\ followUp \in BOOLEAN /\ excused \in BOOLEAN
  BY DEF Init
<1>8. NavInv
  BY <1>4 DEF NavInv, NavOK
<1> QED  BY <1>3, <1>4, <1>5, <1>6, <1>7, <1>8, InitHolds DEF PagesInv, ScreenTypes

LEMMA EveryStepKeeps == ASSUME PagesInv, [Next]_vars PROVE PagesInv' /\ Aligned
<1>1. ScreenTypes /\ NavInv /\ poll \in PollTypes /\ ModelsInv
  BY DEF PagesInv, ScreenTypes
<1>2. ScreenKept /\ RestKept
  <2>1. CASE Operator \/ Reappear
    BY <2>1, OperatorKeeps, ReappearKeeps
  <2>2. CASE Tick \/ BecomesDue \/ FollowUpFires \/ BackgroundFires
    BY <2>2, TimersKeep
  <2>3. CASE Polling \/ ViewFails
    BY <2>3, CoreKeeps, ViewKeeps DEF Polling
  <2>4. CASE FullSteps \/ FullModelsFail \/ FullFails \/ FullRefused
    BY <2>4, FullAnswersKeeps, FullModelsKeep, FullLostKeeps DEF FullSteps
  <2>5. CASE Arrivals \/ \E i \in DOMAIN fetches : ModelsFail(i)
    BY <2>5, ModelsKeep DEF Arrivals
  <2>6. CASE Deletion \/ DeletionFails \/ World
    BY <2>6, DeletionKeeps, WorldKeeps DEF Deletion
  <2>7. CASE UNCHANGED vars
    <3>1. UNCHANGED <<ui, rows, nav, poll>> /\ UNCHANGED <<all, del, bg, last, followUp, excused>>
      BY <2>7 DEF vars, pageVars, capVars
    <3> QED  BY <1>1, <3>1, ScreenStays, RestStays DEF SameRun
  <2> QED  BY <2>1, <2>2, <2>3, <2>4, <2>5, <2>6, <2>7 DEF Next, Losses
<1>3. ModelsInv'
  BY <1>1, EveryStepMoves DEF Moved
<1> QED  BY <1>2, <1>3 DEF PagesInv, ScreenKept, ScreenMoves, ScreenTypes, RestKept

LEMMA PagesAreTyped == PagesInv => PagesTypeOK
<1> SUFFICES ASSUME PagesInv PROVE PagesTypeOK
  OBVIOUS
<1>1. srv.pages \in [Filters -> Pages] /\ srv.rev \in Nat /\ Models(srv) \in CapTypes
  BY DEF PagesInv, ModelsInv, ServerStates, PageCounts, Models, CapTypes
<1>2. caps \in CapTypes
  BY DEF PagesInv, ModelsInv, Holds
<1>3. ui \in UiTypes /\ rows \in RowTypes /\ nav \in NavTypes
      /\ poll \in PollTypes /\ all \in FullTypes /\ del \in DelTypes /\ bg \in BOOLEAN
      /\ last \in Nat \cup {NoVersion} /\ followUp \in BOOLEAN /\ excused \in BOOLEAN
  BY DEF PagesInv, ScreenTypes
<1>4. /\ poll.wanted \in {"no", "plain", "forced"} /\ poll.force \in BOOLEAN
      /\ poll.run.at \in {"idle", "core", "view"} /\ poll.due \subseteq Views
  <2>1. poll.run \in RunTypes
    BY <1>3 DEF PollTypes
  <2>2. poll.run.at \in {"idle", "core", "view"}
    BY <2>1 DEF RunTypes, RunFields
  <2> QED  BY <1>3, <2>2 DEF PollTypes
<1>5. /\ all.at \in {"idle", "sent", "models"} /\ all.wanted \in {"no", "quiet", "loud"}
      /\ del.at \in {"none", "sent", "committed"}
  BY <1>3 DEF FullTypes, DelTypes
<1> QED  BY <1>1, <1>2, <1>3, <1>4, <1>5 DEF PagesTypeOK, UiTypes, NavTypes

-----------------------------------------------------------------------------
(* Whatever clicks, polls, refreshes, deletions and losses come together, the  *)
(* page that is open and the pages of a navigation are ones the history can    *)
(* have, and no answer leaves something unknown on the screen.                 *)
THEOREM PagesTypeCorrect == Spec => []PagesTypeOK
<1>1. PagesInv /\ [Next]_vars => PagesInv'
  BY EveryStepKeeps
<1> QED  BY PagesInitHolds, PagesAreTyped, <1>1, PTL DEF Spec

(* A navigation that ends, confirmed by its answer or rolled back by a failed  *)
(* one, leaves the page indicator on the page of the rows that are shown,      *)
(* whatever else was clicked or rendered while it was under way, unless a full *)
(* refresh wrote rows of its own or the page has gone (refreshRuntimeData).    *)
THEOREM NavigationsStayAligned == Spec => NavigationKeepsRowsAligned
<1>1. PagesInv /\ [Next]_vars => PagesInv'
  BY EveryStepKeeps
<1>2. PagesInv /\ [Next]_vars =>
        [nav # NoNav /\ nav' = NoNav =>
           \/ rows'.page = ui'.page
           \/ ~nav.undisturbed
           \/ sig'.kind = "rows" /\ sig'.rows.page = ui'.page
           \/ PastTheEnd(rows'.page, rows')]_vars
  BY EveryStepKeeps DEF Aligned
<1> QED  BY PagesInitHolds, <1>1, <1>2, PTL DEF Spec, NavigationKeepsRowsAligned

-----------------------------------------------------------------------------
(* Usage statistics. Loads have numbers of their own, none greater than the    *)
(* newest, and the page is loading exactly while the newest is under way.      *)
LoadTypes == [seq : Nat, sel : Selections, asks : SUBSET (Parts \cup {"dimensions"}),
              clears : BOOLEAN]

LoadsInv ==
  /\ newest \in Nat /\ loads \in Seq(LoadTypes) /\ loading \in BOOLEAN
  /\ \A i \in DOMAIN loads : loads[i].seq \in 1..newest
  /\ \A i, j \in DOMAIN loads : i # j => loads[i].seq # loads[j].seq
  /\ loading <=> \E i \in DOMAIN loads : loads[i].seq = newest

PanelTyped ==
  /\ tab \in {"usage", "models", "away"} /\ sel \in Selections
  /\ shown \in [Parts -> Selections \cup {Nothing}]
  /\ missed \subseteq Parts /\ clearing \in {"no", "sent", "loading"} /\ dims \in BOOLEAN

TableTypes == [at : {"idle", "dims", "sent"}, sel : Selections,
               asked : Selections \cup {Nothing}, shown : Selections \cup {Nothing},
               dropped : BOOLEAN]

UsageInv == LoadsInv /\ PanelTyped /\ table \in TableTypes

(* A load that is begun is the newest; the others stay.                        *)
LEMMA LoadBegins ==
  ASSUME UsageInv, NEW ps \in SUBSET Parts, NEW s \in Selections, NEW d \in BOOLEAN,
         NEW c \in BOOLEAN, Load(ps, s, d, c)
  PROVE  LoadsInv' /\ missed' \subseteq Parts
<1> DEFINE l == [seq |-> newest + 1, sel |-> s, clears |-> c,
                 asks |-> ps \cup IF d THEN {"dimensions"} ELSE {}]
<1>1. l \in LoadTypes /\ l.seq = newest + 1
  BY DEF LoadTypes, UsageInv, LoadsInv
<1>2. newest' = newest + 1 /\ loading' = TRUE /\ loads' = Append(loads, l)
  BY DEF Load
<1> HIDE DEF l
<1> DEFINE n == Len(loads)
<1>3. /\ n \in Nat /\ DOMAIN loads = 1..n /\ newest \in Nat
      /\ \A i \in 1..n : loads[i].seq \in 1..newest
      /\ \A i, j \in 1..n : i # j => loads[i].seq # loads[j].seq
  BY DEF UsageInv, LoadsInv
<1>4. /\ loads' \in Seq(LoadTypes) /\ DOMAIN loads' = 1..(n + 1)
      /\ loads'[n + 1] = l /\ \A i \in 1..n : loads'[i] = loads[i]
  BY <1>1, <1>2 DEF UsageInv, LoadsInv
<1> HIDE DEF n
<1>5. \A i \in 1..(n + 1) : loads'[i].seq \in 1..newest'
  BY <1>1, <1>2, <1>3, <1>4
<1>6. \A i, j \in 1..(n + 1) : i # j => loads'[i].seq # loads'[j].seq
  BY <1>1, <1>3, <1>4
<1>7. \E i \in DOMAIN loads' : loads'[i].seq = newest'
  BY <1>1, <1>2, <1>3, <1>4
<1>8. LoadsInv'
  BY <1>2, <1>3, <1>4, <1>5, <1>6, <1>7 DEF LoadsInv
<1>9. missed' \subseteq Parts
  BY DEF Load, UsageInv, PanelTyped
<1> QED  BY <1>8, <1>9

LEMMA NoLoadBegins ==
  ASSUME UsageInv, UNCHANGED <<loads, newest, loading>>
  PROVE  LoadsInv'
BY DEF UsageInv, LoadsInv

(* What is left of a sequence without one place, and where it was before.      *)
LEMMA OneTakenAway ==
  ASSUME NEW S, NEW q \in Seq(S), NEW i \in DOMAIN q
  PROVE  LET r == RemoveAt(q, i)
             was(k) == IF k < i THEN k ELSE k + 1
         IN  /\ r \in Seq(S) /\ DOMAIN r = 1..(Len(q) - 1)
             /\ \A k \in DOMAIN r : was(k) \in DOMAIN q \ {i} /\ r[k] = q[was(k)]
             /\ \A m \in DOMAIN q \ {i} : \E k \in DOMAIN r : r[k] = q[m]
<1> DEFINE before == SubSeq(q, 1, i - 1)
           after == SubSeq(q, i + 1, Len(q))
           r == RemoveAt(q, i)
           was(k) == IF k < i THEN k ELSE k + 1
<1>1. Len(q) \in Nat /\ DOMAIN q = 1..Len(q) /\ i \in 1..Len(q)
  OBVIOUS
<1>2. before \in Seq(S) /\ Len(before) = i - 1 /\ \A k \in 1..(i - 1) : before[k] = q[k]
  BY <1>1
<1>3. after \in Seq(S) /\ Len(after) = Len(q) - i /\ \A k \in 1..(Len(q) - i) : after[k] = q[i + k]
  BY <1>1
<1>4. r = before \o after
  BY DEF RemoveAt
<1> HIDE DEF before, after, r
<1>5. r \in Seq(S) /\ DOMAIN r = 1..(Len(q) - 1)
  <2>1. r \in Seq(S)
    BY <1>2, <1>3, <1>4
  <2>2. Len(r) = Len(q) - 1
    <3>1. Len(r) = Len(before) + Len(after)
      <4>1. before \in Seq(S) /\ after \in Seq(S)
        BY <1>2, <1>3
      <4> QED  BY <1>4, <4>1, ConcatProperties
    <3> QED  BY <1>1, <1>2, <1>3, <3>1
  <2> QED  BY <2>1, <2>2
<1>6. ASSUME NEW k \in 1..(Len(q) - 1)
      PROVE  was(k) \in DOMAIN q \ {i} /\ r[k] = q[was(k)]
  <2>1. CASE k < i
    BY <1>1, <1>2, <1>3, <1>4, <2>1
  <2>2. CASE ~(k < i)
    <3>1. k - (i - 1) \in 1..(Len(q) - i) /\ r[k] = after[k - (i - 1)]
      BY <1>1, <1>2, <1>3, <1>4, <2>2
    <3>2. after[k - (i - 1)] = q[i + (k - (i - 1))] /\ i + (k - (i - 1)) = k + 1
      BY <1>1, <1>3, <3>1
    <3> QED  BY <1>1, <2>2, <3>1, <3>2
  <2> QED  BY <2>1, <2>2
<1>7. ASSUME NEW m \in DOMAIN q \ {i} PROVE \E k \in DOMAIN r : r[k] = q[m]
  <2>1. CASE m < i
    <3>1. m \in 1..(Len(q) - 1) /\ was(m) = m
      BY <1>1, <2>1
    <3> QED  BY <1>5, <1>6, <3>1
  <2>2. CASE ~(m < i)
    <3>1. m - 1 \in 1..(Len(q) - 1) /\ was(m - 1) = m
      BY <1>1, <2>2
    <3> QED  BY <1>5, <1>6, <3>1
  <2> QED  BY <2>1, <2>2
<1> QED  BY <1>5, <1>6, <1>7 DEF r

(* A load's answers: only the newest load ends the loading.                    *)
LEMMA LoadEnds ==
  ASSUME UsageInv, NEW i \in DOMAIN loads, loads' = RemoveAt(loads, i),
         NEW failed \in SUBSET loads[i].asks, Arrive(loads[i], failed)
  PROVE  LoadsInv' /\ PanelTyped' /\ table' \in TableTypes
<1> DEFINE l == loads[i]
           was(k) == IF k < i THEN k ELSE k + 1
<1>1. /\ loads \in Seq(LoadTypes) /\ newest \in Nat /\ loading \in BOOLEAN
      /\ \A j \in DOMAIN loads : loads[j].seq \in 1..newest
      /\ \A j, k \in DOMAIN loads : j # k => loads[j].seq # loads[k].seq
      /\ loading <=> \E j \in DOMAIN loads : loads[j].seq = newest
  BY DEF UsageInv, LoadsInv
<1>2. l \in LoadTypes
  BY <1>1
<1>3. /\ loads' \in Seq(LoadTypes) /\ DOMAIN loads' = 1..(Len(loads) - 1)
      /\ \A k \in DOMAIN loads' : was(k) \in DOMAIN loads \ {i} /\ loads'[k] = loads[was(k)]
      /\ \A m \in DOMAIN loads \ {i} : \E k \in DOMAIN loads' : loads'[k] = loads[m]
  BY <1>1, OneTakenAway
<1>4. \A j, k \in DOMAIN loads' : j # k => was(j) # was(k)
  BY <1>1, <1>3
<1> HIDE DEF was
<1>5. \A k \in DOMAIN loads' : loads'[k].seq \in 1..newest
  BY <1>1, <1>3
<1>6. \A j, k \in DOMAIN loads' : j # k => loads'[j].seq # loads'[k].seq
  <2> TAKE j, k \in DOMAIN loads'
  <2>1. was(j) \in DOMAIN loads /\ was(k) \in DOMAIN loads
    BY <1>3
  <2>2. loads'[j] = loads[was(j)] /\ loads'[k] = loads[was(k)]
    BY <1>3
  <2> QED  BY <1>1, <1>4, <2>1, <2>2
<1>7. newest' = newest
  BY DEF Arrive
<1>8. loading' \in BOOLEAN /\ (loading' <=> \E k \in DOMAIN loads' : loads'[k].seq = newest)
  <2>1. CASE Outdated(l)
    <3>1. loading' = loading /\ l.seq # newest
      BY <2>1 DEF Arrive, Outdated
    <3>2. (\E k \in DOMAIN loads' : loads'[k].seq = newest)
            <=> \E j \in DOMAIN loads : loads[j].seq = newest
      BY <1>3, <3>1
    <3> QED  BY <1>1, <3>1, <3>2
  <2>2. CASE ~Outdated(l)
    <3>1. loading' = FALSE /\ l.seq = newest
      BY <2>2 DEF Arrive, Outdated
    <3>2. \A k \in DOMAIN loads' : loads'[k].seq # newest
      BY <1>1, <1>3, <3>1
    <3> QED  BY <3>1, <3>2
  <2> QED  BY <2>1, <2>2
<1>9. LoadsInv'
  BY <1>3, <1>5, <1>6, <1>7, <1>8, <1>1 DEF LoadsInv
<1>10. PanelTyped'
  <2>1. tab' = tab /\ sel' = sel /\ clearing' \in {"no", clearing} /\ PanelTyped
    BY DEF Arrive, UsageInv
  <2>2. CASE Outdated(l)
    BY <2>1, <2>2 DEF Arrive, PanelTyped
  <2>3. CASE ~Outdated(l)
    <3>1. \A p \in Parts : For(p, l.sel) \in Selections
      BY <1>2 DEF For, LoadTypes, Selections
    <3>2. shown' \in [Parts -> Selections \cup {Nothing}]
      <4>1. shown' = [p \in Parts |-> IF p \in l.asks \ failed THEN For(p, l.sel) ELSE shown[p]]
        BY <2>3 DEF Arrive
      <4> QED  BY <2>1, <3>1, <4>1 DEF PanelTyped
    <3>3. dims' \in BOOLEAN /\ missed' \subseteq Parts
      BY <2>1, <2>3 DEF Arrive, PanelTyped
    <3> QED  BY <2>1, <3>2, <3>3 DEF PanelTyped
  <2> QED  BY <2>2, <2>3
<1>11. table' \in TableTypes
  BY DEF Arrive, UsageInv
<1> QED  BY <1>9, <1>10, <1>11

LEMMA TableLoadTyped ==
  ASSUME NEW tb \in TableTypes, NEW forced
  PROVE  TableLoad(tb, forced) \in TableTypes
<1>1. [tb EXCEPT !.dropped = @ \/ tb.at = "sent"] \in TableTypes
  BY DEF TableTypes
<1>2. [tb EXCEPT !.at = "sent", !.asked = tb.sel, !.dropped = FALSE] \in TableTypes
  BY DEF TableTypes
<1>3. [tb EXCEPT !.at = "dims", !.dropped = FALSE] \in TableTypes
  BY DEF TableTypes
<1> QED  BY <1>1, <1>2, <1>3 DEF TableLoad

(* The operator's clicks.                                                      *)
UsageClicks ==
  \/ \E t \in {"usage", "models", "away"} : OpenTab(t)
  \/ \E r \in Ranges : Select(r) \/ SelectModels(r) \/ ChooseCustom(r) \/ ChooseCustomModels(r)
  \/ TurnBreakdown \/ TurnModels \/ PressUsageRefresh \/ PressClear

LEMMA UsageClicksKeep == ASSUME UsageInv, UsageClicks PROVE UsageInv'
<1>1. PanelTyped /\ table \in TableTypes /\ LoadsInv /\ dims \in BOOLEAN
  BY DEF UsageInv, PanelTyped
<1>2. \A r \in Ranges : [range |-> r, page |-> 0] \in Selections
  BY DEF Selections
<1>3. \A s \in Selections : [s EXCEPT !.page = 1 - @] \in Selections
  BY DEF Selections
<1>4. Parts \in SUBSET Parts /\ {"breakdown"} \in SUBSET Parts /\ (~dims) \in BOOLEAN
      /\ TRUE \in BOOLEAN /\ FALSE \in BOOLEAN
  <2>1. {"breakdown"} \subseteq Parts
    BY DEF Parts
  <2>2. (~dims) \in BOOLEAN
    OBVIOUS
  <2> QED  BY <2>1, <2>2
<1>5. ASSUME NEW t \in {"usage", "models", "away"}, OpenTab(t) PROVE UsageInv'
  <2>1. LoadsInv' /\ missed' \subseteq Parts
    <3>1. CASE LoadForced(Parts, sel)
      BY <1>1, <1>4, <3>1, LoadBegins DEF LoadForced, PanelTyped
    <3>2. CASE NoLoad
      BY <1>1, <3>2, NoLoadBegins DEF NoLoad, PanelTyped
    <3> QED  BY <1>5, <3>1, <3>2 DEF OpenTab, LoadMissing
  <2>2. table' \in TableTypes
    BY <1>1, <1>5, TableLoadTyped DEF OpenTab
  <2>3. PanelTyped'
    BY <1>1, <1>5, <2>1 DEF OpenTab, PanelTyped
  <2> QED  BY <2>1, <2>2, <2>3 DEF UsageInv
<1>6. ASSUME NEW r \in Ranges, Select(r) PROVE UsageInv'
  <2>1. sel' \in Selections /\ LoadForced(Parts, sel')
    BY <1>2, <1>6 DEF Select
  <2>2. LoadsInv' /\ missed' \subseteq Parts
    BY <1>4, <2>1, LoadBegins DEF LoadForced
  <2> QED  BY <1>1, <1>6, <2>1, <2>2 DEF Select, PanelTyped, UsageInv
<1>7. CASE TurnBreakdown
  <2>1. sel' \in Selections /\ LoadForced({"breakdown"}, sel')
    BY <1>1, <1>3, <1>7 DEF TurnBreakdown, PanelTyped
  <2>2. LoadsInv' /\ missed' \subseteq Parts
    BY <1>4, <2>1, LoadBegins DEF LoadForced
  <2> QED  BY <1>1, <1>7, <2>1, <2>2 DEF TurnBreakdown, PanelTyped, UsageInv
<1>8. ASSUME NEW r \in Ranges, ChooseCustom(r) PROVE UsageInv'
  <2>1. LoadsInv'
    BY <1>8, NoLoadBegins DEF ChooseCustom
  <2> QED  BY <1>1, <1>2, <1>8, <2>1 DEF ChooseCustom, PanelTyped, UsageInv
<1>9. CASE PressUsageRefresh
  <2>1. LoadsInv' /\ missed' \subseteq Parts
    <3>1. CASE Load(Parts, sel, TRUE, FALSE)
      BY <1>1, <1>4, <3>1, LoadBegins DEF PanelTyped
    <3>2. CASE NoLoad
      BY <1>1, <3>2, NoLoadBegins DEF NoLoad, PanelTyped
    <3> QED  BY <1>9, <3>1, <3>2 DEF PressUsageRefresh
  <2>2. table' \in TableTypes
    BY <1>1, <1>9, TableLoadTyped DEF PressUsageRefresh
  <2> QED  BY <1>1, <1>9, <2>1, <2>2 DEF PressUsageRefresh, PanelTyped, UsageInv
<1>10. CASE PressClear
  BY <1>1, <1>10, NoLoadBegins DEF PressClear, PanelTyped, UsageInv
<1>11. ASSUME NEW r \in Ranges, SelectModels(r) PROVE UsageInv'
  <2> DEFINE tb == [table EXCEPT !.sel = [range |-> r, page |-> 0]]
  <2>1. tb \in TableTypes
    BY <1>1, <1>2 DEF TableTypes
  <2>2. table' = TableLoad(tb, TRUE)
    BY <1>11 DEF SelectModels
  <2> HIDE DEF tb
  <2>3. table' \in TableTypes
    BY <2>1, <2>2, TableLoadTyped
  <2> QED  BY <1>1, <1>11, <2>3, NoLoadBegins DEF SelectModels, PanelTyped, UsageInv
<1>12. ASSUME NEW r \in Ranges, ChooseCustomModels(r) PROVE UsageInv'
  <2>1. table' \in TableTypes
    BY <1>1, <1>2, <1>12 DEF ChooseCustomModels, TableTypes
  <2> QED  BY <1>1, <1>12, <2>1, NoLoadBegins DEF ChooseCustomModels, PanelTyped, UsageInv
<1>13. CASE TurnModels
  <2> DEFINE tb == [table EXCEPT !.sel.page = 1 - @]
  <2>1. tb \in TableTypes
    <3>1. tb = [table EXCEPT !.sel = [table.sel EXCEPT !.page = 1 - @]]
      BY <1>1 DEF TableTypes
    <3>2. [table.sel EXCEPT !.page = 1 - @] \in Selections
      BY <1>1, <1>3 DEF TableTypes
    <3> QED  BY <1>1, <3>1, <3>2 DEF TableTypes
  <2>2. table' = TableLoad(tb, TRUE)
    BY <1>13 DEF TurnModels
  <2> HIDE DEF tb
  <2>3. table' \in TableTypes
    BY <2>1, <2>2, TableLoadTyped
  <2> QED  BY <1>1, <1>13, <2>3, NoLoadBegins DEF TurnModels, PanelTyped, UsageInv
<1> QED
  BY <1>5, <1>6, <1>7, <1>8, <1>9, <1>10, <1>11, <1>12, <1>13 DEF UsageClicks

(* Answers, and answers that do not come.                                      *)
LEMMA UsageAnswersKeep ==
  ASSUME UsageInv,
         \/ Cleared \/ ClearFails \/ TableAnswers \/ TableFails \/ LoadsArrive
         \/ \E i \in DOMAIN loads : LoadFails(i)
  PROVE  UsageInv'
<1>1. PanelTyped /\ table \in TableTypes /\ LoadsInv /\ dims \in BOOLEAN
  BY DEF UsageInv, PanelTyped
<1>2. CASE Cleared
  <2>1. sel' \in Selections
    BY <1>1, <1>2 DEF Cleared, PanelTyped, Selections
  <2>2. LoadsInv' /\ missed' \subseteq Parts /\ clearing' \in {"no", "loading"}
    <3>1. CASE Load(Parts, sel', TRUE, TRUE) /\ clearing' = "loading"
      BY <2>1, <3>1, LoadBegins
    <3>2. CASE /\ clearing' = "no" /\ UNCHANGED <<loads, newest, loading>>
               /\ missed' = IF loading THEN Parts ELSE missed
      BY <1>1, <3>2, NoLoadBegins DEF PanelTyped
    <3> QED  BY <1>2, <3>1, <3>2 DEF Cleared
  <2>3. shown' \in [Parts -> Selections \cup {Nothing}] /\ dims' = FALSE
    BY <1>2 DEF Cleared
  <2> QED  BY <1>1, <1>2, <2>1, <2>2, <2>3 DEF Cleared, PanelTyped, UsageInv
<1>3. CASE ClearFails
  BY <1>1, <1>3, NoLoadBegins DEF ClearFails, PanelTyped, UsageInv
<1>4. CASE DimensionsArrive
  <2>1. table' \in TableTypes /\ dims' \in BOOLEAN
    BY <1>1, <1>4 DEF DimensionsArrive, TableTypes
  <2> QED  BY <1>1, <1>4, <2>1, NoLoadBegins DEF DimensionsArrive, PanelTyped, UsageInv
<1>5. CASE TableArrives \/ TableFails
  <2>1. table' \in TableTypes
    BY <1>1, <1>5 DEF TableArrives, TableFails, TableTypes
  <2> QED  BY <1>1, <1>5, <2>1, NoLoadBegins DEF TableArrives, TableFails, PanelTyped, UsageInv
<1>6. ASSUME NEW i \in DOMAIN loads, LoadArrives(i) \/ LoadFails(i) PROVE UsageInv'
  <2>1. \E failed \in SUBSET loads[i].asks : Arrive(loads[i], failed)
    BY <1>6 DEF LoadArrives, LoadFails
  <2>2. loads' = RemoveAt(loads, i)
    BY <1>6 DEF LoadArrives, LoadFails
  <2> QED  BY <2>1, <2>2, LoadEnds DEF UsageInv
<1> QED  BY <1>2, <1>3, <1>4, <1>5, <1>6 DEF TableAnswers, LoadsArrive

(* Loading is said exactly while the newest load is under way, whatever loads  *)
(* were begun meanwhile and in whatever order they are answered: an overtaken  *)
(* load neither ends it nor keeps it up (loadUsageStatistics compares its      *)
(* number with usageStatisticsLoadSeq).                                        *)
THEOREM UsageTypeCorrect == UsageSpec => []UsageTypeOK
<1>1. UsageInit => UsageInv
  <2> SUFFICES ASSUME UsageInit PROVE UsageInv
    OBVIOUS
  <2>1. FirstRange \in Ranges
    BY UsageAssumption DEF FirstRange
  <2>2. sel \in Selections /\ table.sel \in Selections
    BY <2>1 DEF UsageInit, Selections
  <2>3. table \in TableTypes
    BY <2>1 DEF UsageInit, TableTypes, Selections
  <2>4. LoadsInv
    <3>1. newest \in Nat /\ loading \in BOOLEAN /\ ~loading
      BY DEF UsageInit
    <3>2. loads \in Seq(LoadTypes) /\ DOMAIN loads = {}
      <4>1. << >> \in Seq(LoadTypes) /\ DOMAIN << >> = {}
        OBVIOUS
      <4> QED  BY <4>1 DEF UsageInit
    <3> QED  BY <3>1, <3>2 DEF LoadsInv
  <2> QED  BY <2>2, <2>3, <2>4 DEF UsageInit, UsageInv, PanelTyped
<1>2. UsageInv /\ [UsageNext]_usageVars => UsageInv'
  <2>1. UsageInv /\ UNCHANGED usageVars => UsageInv'
    BY DEF usageVars, UsageInv, LoadsInv, PanelTyped
  <2> QED  BY <2>1, UsageClicksKeep, UsageAnswersKeep DEF UsageNext, UsageClicks
<1>3. UsageInv => UsageTypeOK
  <2> SUFFICES ASSUME UsageInv PROVE UsageTypeOK
    OBVIOUS
  <2>1. loading <=> InFlight # {}
    BY DEF UsageInv, LoadsInv, InFlight
  <2>2. \A i \in DOMAIN loads : loads[i].asks \subseteq Parts \cup {"dimensions"}
    <3>1. loads \in Seq(LoadTypes) /\ \A l \in LoadTypes : l.asks \subseteq Parts \cup {"dimensions"}
      BY DEF UsageInv, LoadsInv, LoadTypes
    <3> QED  BY <3>1
  <2> QED  BY <2>1, <2>2 DEF UsageInv, LoadsInv, PanelTyped, TableTypes, UsageTypeOK
<1> QED  BY <1>1, <1>2, <1>3, PTL DEF UsageSpec
=============================================================================
