----------------------------- MODULE UsagePanel -----------------------------
(* The statistics page: usage statistics, whose three parts are loaded         *)
(* together or one by one and where only the newest load counts, and the table *)
(* of models, which is loaded once at a time. Both show what was asked for     *)
(* some selection, which the operator may have changed meanwhile.              *)
EXTENDS Naturals, Sequences, SequencesExt

CONSTANTS
  Ranges,          \* time ranges, filters and metrics, as one choice
  UsageScenarios   \* the scenarios: how often each thing may happen

ASSUME UsageAssumption == Ranges # {}

VARIABLES
  tab,         \* the view that is open: "usage", "models" or "away"
  sel,         \* usage statistics' selection: range, and page of the breakdown
  shown,       \* state.data.usageStatistics: each part with the selection it is for
  loads,       \* the loads of usage statistics under way, numbered
  newest,      \* usageStatisticsLoadSeq
  loading,     \* usageStatisticsLoading
  missed,      \* history: parts that nothing will bring up to date (see UsageSettles)
  clearing,    \* the deletion of the statistics is under way
  dims,        \* usageStatisticsDimensions are known
  table,       \* the models' table: selection, its load and what it shows
  allowance

usageVars == <<tab, sel, shown, loads, newest, loading, missed, clearing, dims, table,
               allowance>>

Parts   == {"summary", "timeseries", "breakdown"}
Nothing == [range |-> "none", page |-> 0]

Take(what) == allowance[what] > 0 /\ allowance' = [allowance EXCEPT ![what] = @ - 1]
Gratis     == UNCHANGED allowance

(* Only the breakdown has pages.                                               *)
For(part, s) == IF part = "breakdown" THEN s ELSE [s EXCEPT !.page = 0]

InFlight == {l \in {loads[i] : i \in DOMAIN loads} : l.seq = newest}

(* loadUsageStatistics, past its guards: the answers of older loads will not   *)
(* be looked at, those for other parts neither.                                *)
Load(parts, s, dimensions, clears) ==
  /\ newest' = newest + 1 /\ loading' = TRUE
  /\ loads' = Append(loads, [seq |-> newest + 1, sel |-> s, clears |-> clears,
                             asks |-> parts \cup IF dimensions THEN {"dimensions"} ELSE {}])
  /\ missed' = (missed \cup (Parts \cap UNION {l.asks : l \in InFlight})) \ parts

NoLoad == UNCHANGED <<loads, newest, loading, missed>>

LoadForced(parts, s) == Load(parts, s, ~dims, FALSE)

(* Not forced: nothing, when a load is under way or everything is there.       *)
LoadMissing(t) ==
  IF t = "usage" /\ ~loading /\ (\E p \in Parts : shown[p] = Nothing)
    THEN LoadForced(Parts, sel) ELSE NoLoad

(* loadModelUsage: nothing while it loads, not even a note. It first waits for *)
(* the dimensions, and only then looks at the selection.                       *)
(* TableLoadUnforced forgets that another selection has to be loaded in any    *)
(* case.                                                                       *)
TableLoadUnforced(tb, forced) ==
  IF tb.at # "idle" THEN [tb EXCEPT !.dropped = @ \/ tb.at = "sent"]
  ELSE IF tb.shown # Nothing THEN tb
  ELSE IF dims THEN [tb EXCEPT !.at = "sent", !.asked = tb.sel, !.dropped = FALSE]
  ELSE [tb EXCEPT !.at = "dims", !.dropped = FALSE]
TableLoad(tb, forced) ==
  IF tb.at # "idle" THEN [tb EXCEPT !.dropped = @ \/ tb.at = "sent"]
  ELSE IF tb.shown # Nothing /\ ~forced THEN tb
  ELSE IF dims THEN [tb EXCEPT !.at = "sent", !.asked = tb.sel, !.dropped = FALSE]
  ELSE [tb EXCEPT !.at = "dims", !.dropped = FALSE]

-----------------------------------------------------------------------------
(* switchConfigTab, switchStatisticsView                                       *)
OpenTab(t) ==
  /\ Take("tab") /\ tab' = t
  /\ LoadMissing(t)
  /\ table' = IF t = "models" THEN TableLoad(table, FALSE) ELSE table
  /\ UNCHANGED <<sel, shown, clearing, dims>>

(* Another range, filter or metric, or a custom range that is applied:         *)
(* everything anew, from the first page.                                       *)
Select(r) ==
  /\ tab = "usage" /\ Take("select")
  /\ sel' = [range |-> r, page |-> 0]
  /\ LoadForced(Parts, sel')
  /\ UNCHANGED <<tab, shown, clearing, dims, table>>

(* The custom range's button: the selection moves, and what is shown waits for *)
(* the range to be applied.                                                    *)
ChooseCustom(r) ==
  /\ tab = "usage" /\ Take("custom")
  /\ sel' = [range |-> r, page |-> 0] /\ missed' = Parts
  /\ UNCHANGED <<tab, shown, loads, newest, loading, clearing, dims, table>>

(* The breakdown's pages: its part alone.                                      *)
TurnBreakdown ==
  /\ tab = "usage" /\ shown["breakdown"] # Nothing /\ Take("page")
  /\ sel' = [sel EXCEPT !.page = 1 - @]
  /\ LoadForced({"breakdown"}, sel')
  /\ UNCHANGED <<tab, shown, clearing, dims, table>>

PressUsageRefresh ==
  /\ tab # "away" /\ Take("refresh")
  /\ IF tab = "usage" THEN Load(Parts, sel, TRUE, FALSE) ELSE NoLoad
  /\ table' = IF tab = "models" THEN TableLoad(table, TRUE) ELSE table
  /\ UNCHANGED <<tab, sel, shown, clearing, dims>>

(* Clear: the request, then a page without data, then a load of everything; no *)
(* second clear until that has ended.                                          *)
PressClear ==
  /\ tab = "usage" /\ clearing = "no" /\ Take("clear") /\ clearing' = "sent"
  /\ UNCHANGED <<tab, sel, shown, loads, newest, loading, missed, dims, table>>

Cleared ==
  /\ clearing = "sent" /\ Gratis
  /\ shown' = [p \in Parts |-> Nothing] /\ dims' = FALSE
  /\ sel' = [sel EXCEPT !.page = 0]
  /\ IF tab = "usage"
       THEN Load(Parts, sel', TRUE, TRUE) /\ clearing' = "loading"
       ELSE /\ clearing' = "no" /\ UNCHANGED <<loads, newest, loading>>
            /\ missed' = IF loading THEN Parts ELSE missed
  /\ UNCHANGED <<tab, table>>

ClearFails ==
  /\ clearing = "sent" /\ clearing' = "no" /\ Take("lost")
  /\ UNCHANGED <<tab, sel, shown, loads, newest, loading, missed, dims, table>>

(* All of a load's answers are there, but for those that failed. Only the      *)
(* newest load's are taken, and only it ends the loading. OutdatedNever takes  *)
(* every load's.                                                               *)
OutdatedNever(l) == FALSE
Outdated(l) == l.seq # newest
Arrive(l, failed) ==
  /\ clearing' = IF l.clears THEN "no" ELSE clearing
  /\ IF Outdated(l) THEN UNCHANGED <<shown, loading, missed, dims>>
     ELSE /\ shown' = [p \in Parts |-> IF p \in l.asks \ failed THEN For(p, l.sel)
                                                               ELSE shown[p]]
          /\ dims' = (dims \/ "dimensions" \in l.asks \ failed)
          /\ loading' = FALSE
          /\ missed' = missed \cup (failed \cap Parts)
  /\ UNCHANGED <<tab, sel, newest, table>>

LoadArrives(i) ==
  /\ i \in DOMAIN loads /\ loads' = RemoveAt(loads, i)
  /\ Arrive(loads[i], {}) /\ Gratis
LoadFails(i) ==
  /\ i \in DOMAIN loads /\ loads' = RemoveAt(loads, i) /\ Take("lost")
  /\ \E failed \in SUBSET loads[i].asks \ {{}} : Arrive(loads[i], failed)

-----------------------------------------------------------------------------
(* Another selection for the models' table.                                    *)
SelectModels(r) ==
  /\ tab = "models" /\ Take("select")
  /\ table' = TableLoad([table EXCEPT !.sel = [range |-> r, page |-> 0]], TRUE)
  /\ UNCHANGED <<tab, sel, shown, loads, newest, loading, missed, clearing, dims>>

ChooseCustomModels(r) ==
  /\ tab = "models" /\ Take("custom")
  /\ table' = [table EXCEPT !.sel = [range |-> r, page |-> 0],
                           !.dropped = @ \/ table.at # "dims"]
  /\ UNCHANGED <<tab, sel, shown, loads, newest, loading, missed, clearing, dims>>

TurnModels ==
  /\ tab = "models" /\ table.shown # Nothing /\ Take("page")
  /\ table' = TableLoad([table EXCEPT !.sel.page = 1 - @], TRUE)
  /\ UNCHANGED <<tab, sel, shown, loads, newest, loading, missed, clearing, dims>>

(* The dimensions are there, or are not to be had.                             *)
DimensionsArrive ==
  /\ table.at = "dims" /\ Gratis
  /\ dims' \in {TRUE, dims}
  /\ table' = [table EXCEPT !.at = "sent", !.asked = table.sel]
  /\ UNCHANGED <<tab, sel, shown, loads, newest, loading, missed, clearing>>

TableArrives ==
  /\ table.at = "sent" /\ Gratis
  /\ table' = [table EXCEPT !.at = "idle", !.shown = table.asked]
  /\ UNCHANGED <<tab, sel, shown, loads, newest, loading, missed, clearing, dims>>

TableFails ==
  /\ table.at = "sent" /\ Take("lost")
  /\ table' = [table EXCEPT !.at = "idle", !.dropped = TRUE]
  /\ UNCHANGED <<tab, sel, shown, loads, newest, loading, missed, clearing, dims>>

-----------------------------------------------------------------------------
FirstRange == CHOOSE r \in Ranges : TRUE

UsageInit ==
  /\ tab = "away" /\ sel = [range |-> FirstRange, page |-> 0]
  /\ shown = [p \in Parts |-> Nothing]
  /\ loads = << >> /\ newest = 0 /\ loading = FALSE /\ missed = {} /\ clearing = "no"
  /\ dims = FALSE
  /\ table = [at |-> "idle", sel |-> [range |-> FirstRange, page |-> 0],
              asked |-> Nothing, shown |-> Nothing, dropped |-> FALSE]
  /\ allowance \in UsageScenarios

LoadsArrive  == \E i \in DOMAIN loads : LoadArrives(i)
TableAnswers == DimensionsArrive \/ TableArrives

UsageNext ==
  \/ \E t \in {"usage", "models", "away"} : OpenTab(t)
  \/ \E r \in Ranges : Select(r) \/ SelectModels(r) \/ ChooseCustom(r) \/ ChooseCustomModels(r)
  \/ TurnBreakdown \/ TurnModels \/ PressUsageRefresh \/ PressClear
  \/ Cleared \/ ClearFails \/ TableAnswers \/ TableFails \/ LoadsArrive
  \/ \E i \in DOMAIN loads : LoadFails(i)

(* Requests end.                                                               *)
UsageFairness ==
  WF_usageVars(LoadsArrive) /\ WF_usageVars(TableAnswers) /\ WF_usageVars(Cleared)

UsageSpec == UsageInit /\ [][UsageNext]_usageVars /\ UsageFairness

-----------------------------------------------------------------------------
Selections == [range : Ranges, page : 0..1]

(* Types of the state; what is under way has a number that was given out.      *)
UsageTypeOK ==
  /\ tab \in {"usage", "models", "away"} /\ sel \in Selections
  /\ shown \in [Parts -> Selections \cup {Nothing}]
  /\ newest \in Nat /\ loading \in BOOLEAN /\ missed \subseteq Parts
  /\ clearing \in {"no", "sent", "loading"} /\ dims \in BOOLEAN
  /\ \A i \in DOMAIN loads : loads[i].seq \in 1..newest /\ loads[i].asks \subseteq Parts \cup {"dimensions"}
  /\ loading <=> InFlight # {}
  /\ table.at \in {"idle", "dims", "sent"} /\ table.sel \in Selections

(* Left alone, the statistics page ends up with every part showing the         *)
(* operator's selection, in whatever order the answers came, except parts      *)
(* whose load failed, or was overtaken by a load that did not include them, or *)
(* that wait for a custom range to be applied, or that were cleared behind the *)
(* page's back while a load was under way.                                     *)
UsageSettles ==
  <>[](tab = "usage" =>
         ~loading /\ \A p \in Parts \ missed : shown[p] = For(p, sel))

(* Left alone, the models' table ends up showing the operator's selection,     *)
(* unless it was changed after the request under way had been sent (such a     *)
(* change is dropped), the request failed, or a custom range is not applied.   *)
ModelUsageSettles ==
  <>[](tab = "models" => table.at = "idle" /\ (table.dropped \/ table.shown = table.sel))

=============================================================================
