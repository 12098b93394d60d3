---------------------------- MODULE ConfigContent ----------------------------
(* The configuration as far as the console edits it, the edits its forms and   *)
(* buttons can make, what an edit does on the server (config_manager.py) and   *)
(* what it does to the copy the browser shows at once, before the answer       *)
(* (the `apply` callbacks in app.js and optimistic-config.mjs).                *)
EXTENDS Integers, Sequences, FiniteSets, SequencesExt

CONSTANTS
  Knobs,      \* blocks saved as a value: routing, a provider's fields, a route ...
  Models,     \* ids a provider's static_models may list
  Declared,   \* those it lists at the start
  Groups,     \* client-facing ids a variant group may have
  MaxEdits    \* bound: edits made in a behaviour

ASSUME ContentAssumption ==
  /\ {"routing", "provider", "format"} \subseteq Knobs
  /\ Declared \subseteq Models
  /\ MaxEdits \in Nat \ {0}

EditIds == 1..MaxEdits

Pending == 0                    \* key id of a key that is being added
FirstKeys == << 101, 102 >>     \* ids of the keys configured at the start
KeyIds == {Pending} \cup EditIds \cup Range(FirstKeys)
NoProxy == 0

Key(id, proxy) == [id |-> id, proxy |-> proxy]

(* A group that does not exist has no members; members are known only by the   *)
(* edit that wrote them (0: those of the base configuration).                  *)
Absent == -1

(* What somebody else writes: a value no edit of this console has.             *)
Foreign == MaxEdits + 1

Configs == [knob   : [Knobs -> 0..Foreign],
            static : SUBSET Models,
            keys   : Seq([id : KeyIds, proxy : 0..MaxEdits]),
            group  : [Groups -> {Absent} \cup 0..MaxEdits]]

FirstConfig(g) ==
  [knob   |-> [k \in Knobs |-> 0],
   static |-> Declared,
   keys   |-> << Key(FirstKeys[1], NoProxy), Key(FirstKeys[2], NoProxy) >>,
   group  |-> [i \in Groups |-> IF i = g THEN 0 ELSE Absent]]

(* The writes of an edit, in the order the console sends them. Every edit is   *)
(* one request, except the renaming of a variant group, which writes the new   *)
(* id first and then empties the old one.                                      *)
SetKnob(k, v)      == [op |-> "knob", k |-> k, v |-> v]
SetStatic(ms)      == [op |-> "static", ms |-> ms]
AddKey(v)          == [op |-> "addKey", v |-> v]
EditKey(i, v)      == [op |-> "editKey", i |-> i, v |-> v]
DeleteKey(i)       == [op |-> "deleteKey", i |-> i]
SetGroup(g, v)     == [op |-> "group", g |-> g, v |-> v]

(* What config_manager does with a write, under its commit lock. Keys are      *)
(* addressed by position in the list as it is now.                             *)
ServerAccepts(c, w) ==
  w.op \in {"editKey", "deleteKey"} => w.i \in DOMAIN c.keys

ServerApply(c, w) ==
  CASE w.op = "knob"      -> [c EXCEPT !.knob[w.k] = w.v]
    [] w.op = "static"    -> [c EXCEPT !.static = w.ms]
    [] w.op = "addKey"    -> [c EXCEPT !.keys = Append(@, Key(w.v, NoProxy))]
    [] w.op = "editKey"   -> [c EXCEPT !.keys[w.i].proxy = w.v]
    [] w.op = "deleteKey" -> [c EXCEPT !.keys = RemoveAt(@, w.i)]
    [] w.op = "group"     -> [c EXCEPT !.group[w.g] = w.v]

(* What the browser shows of a write that is on its way: the same, except that *)
(* a new key is a placeholder and a key being deleted stays listed, marked.    *)
PreviewWrite(c, w) ==
  CASE w.op = "addKey"    -> [c EXCEPT !.keys = Append(@, Key(Pending, NoProxy))]
    [] w.op = "deleteKey" -> c
    [] w.op = "editKey"   -> IF w.i \in DOMAIN c.keys THEN ServerApply(c, w) ELSE c
    [] OTHER              -> ServerApply(c, w)

Preview(c, writes) ==
  LET after[n \in 0..Len(writes)] ==
        IF n = 0 THEN c ELSE PreviewWrite(after[n - 1], writes[n])
  IN  after[Len(writes)]

(* The edits an operator can make while the console shows configuration c, as  *)
(* records: the resource key that keeps two saves of one setting apart, the    *)
(* helper that runs the save and the writes it sends.                          *)
Edit(rk, runner, writes) == [rk |-> rk, runner |-> runner, writes |-> writes]

(* A block saved as a whole, when this instance has it.                        *)
Block(rk, runner, n) ==
  {Edit(k, runner, << SetKnob(k, n) >>) : k \in {rk} \cap Knobs}

(* Switches in the provider drawer: one field each, one PATCH each.            *)
FlagSwitch(n) == Block("provider", "action", n)

(* The provider's settings form.                                               *)
ProviderForm(n) == Block("provider", "form", n)

(* The routing form, the timeouts form and the default-pool switch all write   *)
(* the routing block.                                                          *)
RoutingForm(n)  == Block("routing", "form", n)
TimeoutsForm(n) == Block("routing", "form", n)
PoolSwitch(n)   == Block("routing", "action", n)

(* A format card's toggle and its path editor save without a mutation scope.   *)
FormatToggle(n) == Block("format", "format", n)
FormatPath(n)   == Block("format", "format", n)

(* A model's route: its form, and the buttons that set one provider's priority *)
(* or delete it.                                                               *)
RouteForm(n)    == Block("route", "form", n)
RouteButtons(n) == Block("route", "action", n)

(* Blocks with one editor each.                                                 *)
RetryForm(n)           == Block("retry", "form", n)
FailurePolicyForm(n)   == Block("failure-policy", "form", n)
GlobalProxyForm(n)     == Block("global-proxy", "form", n)
HealthMonitorButton(n) == Block("health-monitor", "action", n)
ModelDisableButton(n)  == Block("provider-model-disabled", "action", n)
ModelMapEditor(n)      == Block("provider-model-map", "action", n)

(* The drawer's static-models form and buttons rewrite the whole list they     *)
(* see, under the provider's resource key ...                                  *)
StaticListForm(c) ==
  {Edit("provider", "form", << SetStatic(c.static \cup {m}) >>) : m \in Models}
StaticListButtons(c) ==
  {Edit("provider", "action", << SetStatic(c.static \ {m}) >>) : m \in c.static}

(* ... and the catalog's editor renames or drops an entry of the list it saw    *)
(* when it was opened, under a key of its own.                                 *)
StaticModelEditor(existing) ==
  LET rewrites == {existing \ {m} : m \in existing}
            \cup {(existing \ {mn[1]}) \cup {mn[2]} : mn \in existing \X (Models \ existing)}
  IN  {Edit("provider-static", "action", << SetStatic(ms) >>) : ms \in rewrites}

KeyForm(n) == {Edit("keys", "form", << AddKey(n) >>)}

KeyDeleteButton(c) ==
  {Edit("keys", "action", << DeleteKey(i) >>) : i \in DOMAIN c.keys}

KeyProxyForm(c, n) ==
  {Edit("key" \o ToString(i), "form", << EditKey(i, n) >>) : i \in DOMAIN c.keys}

(* Mutant: the old id is emptied before the new one is written.                *)
GroupWritesSwapped(g, h, n) ==
  IF g = h THEN << SetGroup(g, n) >> ELSE << SetGroup(g, Absent), SetGroup(h, n) >>

(* Saving a variant group: the members under the id typed, and, when that id   *)
(* is another one, the emptied old id.                                         *)
GroupWrites(g, h, n) ==
  IF g = h THEN << SetGroup(g, n) >> ELSE << SetGroup(h, n), SetGroup(g, Absent) >>

Present(c) == {g \in Groups : c.group[g] # Absent}

GroupForm(c, n) ==
  UNION {{Edit("variants-" \o g, "form", GroupWrites(g, h, n)) : h \in Groups} :
           g \in Present(c)}

GroupDeleteButton(c) ==
  {Edit("variants-" \o g, "action", << SetGroup(g, Absent) >>) : g \in Present(c)}
=============================================================================
