----------------------------- MODULE ModelCatalog -----------------------------
(* The client-facing model ids of one provider: the rows the console's drawer  *)
(* lists for them (provider-model-config.mjs, app.js) beside what the proxy    *)
(* does with a request for one (model_registry.py). Both read the same four    *)
(* sources: variant groups, renames, static declarations and discovery.        *)
EXTENDS Integers, Sequences, FiniteSets

CONSTANTS
  Ids,      \* model ids, in the spellings they have in the configuration
  Lower     \* the lower-case spelling of each

ASSUME IdsAssumption ==
  /\ Lower \in [Ids -> Ids]
  /\ \A i \in Ids : Lower[Lower[i]] = Lower[i]

Same(i, j) == Lower[i] = Lower[j]

Maps(S) == UNION {[D -> S] : D \in SUBSET Ids}

(* groups: the members of a variant group, best first (both sides sort and     *)
(* drop repetitions alike; a deleted group is not in the map). renames:        *)
(* provider_model_map. found: the vendor copies of a discovered id, the        *)
(* primary first (canonical_map and variant_map). listed: the ids the provider *)
(* itself reports. off: the ids switched off. An answer is in (status ok).     *)
Sources == [groups  : Maps(Seq(Ids)),
            renames : Maps(Ids),
            found   : Maps(Seq(Ids) \ {<< >>}),
            listed  : SUBSET Ids,
            static  : SUBSET Ids,
            routes  : SUBSET Ids,
            off     : SUBSET Ids]

Primary(c, k) == c.found[k][1]

(* Discovery collapses the copies of a model into one id, so two discovered    *)
(* ids share no name; were it otherwise the console would list one of them.    *)
Tidy(c) ==
  \A k, l \in DOMAIN c.found :
    k # l => \A x \in {k, Primary(c, k)}, y \in {l, Primary(c, l)} : ~Same(x, y)

Catalogs == {c \in Sources : Tidy(c)}

Named(c) == DOMAIN c.groups \cup DOMAIN c.renames \cup DOMAIN c.found
              \cup c.listed \cup c.static \cup c.routes

(* Ids that differ only by case share a row; the row is then known by one of   *)
(* them only, and the proxy finds some of them and not others.                 *)
OneSpelling(c, i) == \A j \in Named(c) : Same(i, j) => j = i

-------------------------------------------------------------------------------
(* The proxy.                                                                  *)

(* How the maps are looked up: the id as it is, else in lower case.            *)
At(f, i)  == IF i \in DOMAIN f THEN i ELSE Lower[i]
Has(f, i) == At(f, i) \in DOMAIN f

Off(c, m) == m \in c.off \/ Lower[m] \in c.off

IdOff(c, i) ==
  \/ Off(c, i)
  \/ Has(c.found, i) /\ Off(c, Primary(c, At(c.found, i)))
  \/ \E k \in DOMAIN c.found : Primary(c, k) = i /\ Off(c, k)

(* The gate of a provider that the model's route names.                        *)
RequestOff(c, i) ==
  IF Has(c.renames, i) THEN Off(c, c.renames[At(c.renames, i)]) ELSE IdOff(c, i)

HealthyCopies(c, k) == {n \in DOMAIN c.found[k] : ~Off(c, c.found[k][n])}

(* A discovered id goes when it or every copy of it is switched off.           *)
Visible(c, i) ==
  /\ ~Off(c, i)
  /\ Has(c.found, i) => HealthyCopies(c, At(c.found, i)) # {}

(* ... or when a rename took its name or the model behind it.                  *)
AutoHidden(c, i) ==
  \/ Has(c.renames, i)
  \/ /\ Has(c.found, i)
     /\ \E j \in DOMAIN c.renames :
          c.renames[j] = Primary(c, At(c.found, i)) /\ j # i

HasMembers(c, i) == Has(c.groups, i) /\ c.groups[At(c.groups, i)] # << >>

IsDeclared(c, i) == \E m \in c.static : m \in {i, Lower[i]}

(* The gate of a provider that is in the pool.                                 *)
Supports(c, i) ==
  IF Has(c.renames, i)
  THEN ~RequestOff(c, i)
  ELSE /\ Visible(c, i)
       /\ \/ HasMembers(c, i)
          \/ IsDeclared(c, i)
          \/ ~AutoHidden(c, i) /\ Has(c.found, i)

(* The model a request for i is sent for first. Renames are looked up as they  *)
(* are spelled, everything else in lower case too.                             *)
First(c, i) ==
  CASE HasMembers(c, i)      -> c.groups[At(c.groups, i)][1]
    [] ~HasMembers(c, i) /\ i \in DOMAIN c.renames -> c.renames[i]
    [] OTHER ->
         IF Has(c.found, i) /\ HealthyCopies(c, At(c.found, i)) # {}
         THEN LET k    == At(c.found, i)
                  good == HealthyCopies(c, k)
              IN  c.found[k][CHOOSE n \in good : \A m \in good : n <= m]
         ELSE i

(* What the provider contributes to GET /v1/models.                            *)
AdvertisedFound(c) ==
  IF DOMAIN c.found = {}
  THEN {m \in c.listed : ~Off(c, m)}
  ELSE {k \in DOMAIN c.found : Visible(c, k) /\ ~AutoHidden(c, k)}

AdvertisedConfigured(c) ==
  {m \in c.static : ~Off(c, m)}
    \cup {j \in DOMAIN c.renames : ~RequestOff(c, j)}
    \cup {g \in DOMAIN c.groups : c.groups[g] # << >> /\ ~Off(c, g)}

-------------------------------------------------------------------------------
(* The console. A row is described by the id it is named by, for ids that have *)
(* one spelling.                                                               *)

Item(label, raw) == [label |-> label, raw |-> raw]

(* modelCapabilityItems: the discovered ids, then what is listed beside them.  *)
DiscoveredItems(c) ==
  {Item(k, Primary(c, k)) : k \in DOMAIN c.found}
    \cup {Item(m, m) : m \in {m \in c.listed : \A k \in DOMAIN c.found :
                                ~Same(m, k) /\ ~Same(m, Primary(c, k))}}

Claimed(c, raw) == \E j \in DOMAIN c.renames : Same(c.renames[j], raw)

(* mergeProviderModelCatalogItems: a rename replaces what discovery says of    *)
(* the model behind it.                                                        *)
ShownItems(c)   == {t \in DiscoveredItems(c) : ~Claimed(c, t.raw)}
RenamedItems(c) == {Item(j, c.renames[j]) : j \in DOMAIN c.renames}

Labelled(c, i) == \E t \in ShownItems(c) \cup RenamedItems(c) : Same(t.label, i)

(* Routes add ids of their own, except those a rename replaced.                *)
RouteItems(c) ==
  {Item(m, m) : m \in {m \in c.routes :
     /\ ~Labelled(c, m)
     /\ ~\E t \in DiscoveredItems(c) : Claimed(c, t.raw) /\ t.label = m}}

Items(c) == ShownItems(c) \cup RenamedItems(c) \cup RouteItems(c)

Rows(c) == DOMAIN c.groups \cup c.static \cup {t.label : t \in Items(c)}

IsVariant(c, i) == i \in DOMAIN c.groups
IsRenamed(c, i) == i \in DOMAIN c.renames

(* The models discovery or a route put behind a row.                           *)
Raws(c, i) == {t.raw : t \in {t \in ShownItems(c) \cup RouteItems(c) : t.label = i}}

IsDiscovered(c, i) == Raws(c, i) # {}

IsStatic(c, i) ==
  \E s \in c.static : \/ Same(s, i)
                      \/ IsRenamed(c, i) /\ Same(s, c.renames[i])
                      \/ \E r \in Raws(c, i) : Same(s, r)

MainSource(c, i) ==
  CASE IsVariant(c, i) -> "variant"
    [] ~IsVariant(c, i) /\ IsRenamed(c, i) -> "renamed"
    [] OTHER -> IF IsStatic(c, i) THEN "static" ELSE "discovered"

(* The id under which the row's switch is saved: the group itself, or else the *)
(* model that the row says its requests go to.                                 *)
SourceModel(c, i) ==
  CASE IsVariant(c, i) -> i
    [] ~IsVariant(c, i) /\ IsRenamed(c, i) -> c.renames[i]
    [] OTHER -> IF Raws(c, i) # {} THEN CHOOSE r \in Raws(c, i) : TRUE ELSE i

ShownOff(c, i) == Off(c, SourceModel(c, i))

(* The model the row names as the first that answers.                          *)
ShownFirst(c, i) == IF IsVariant(c, i) THEN c.groups[i][1] ELSE SourceModel(c, i)

(* A row whose discovered model a rename took over: the row is there for the   *)
(* sake of a declaration or a route and knows nothing of that model.           *)
ReplacedByRename(c, i) ==
  i \in DOMAIN c.found /\ Claimed(c, Primary(c, i)) /\ ~IsRenamed(c, i)

(* The rows left by the toolbar's filter "disabled" (or "enabled"): an item is *)
(* filtered by the model behind it, and what configuration alone keeps on      *)
(* screen is filtered as a row.                                                *)
Filtered(c, disabled) ==
  {i \in Rows(c) :
     \/ \E t \in Items(c) : Same(t.label, i) /\ (Off(c, t.raw) <=> disabled)
     \/ (IsVariant(c, i) \/ IsStatic(c, i)) /\ (ShownOff(c, i) <=> disabled)}

(* The advisory warnings of a row that say which source is overridden.         *)
Warnings(c, i) ==
  {w \in {"variant_shadows_manual_map", "variant_shadows_discovered",
          "same_name_static", "empty_variant_group"} :
     /\ IsVariant(c, i)
     /\ \/ w = "variant_shadows_manual_map" /\ IsRenamed(c, i)
        \/ w = "variant_shadows_discovered" /\ IsDiscovered(c, i)
        \/ w = "same_name_static" /\ \E s \in c.static : Same(s, i)
        \/ w = "empty_variant_group" /\ c.groups[i] = << >>}
-------------------------------------------------------------------------------
(* Switches are staged in a draft and applied together.                        *)

(* setProviderModelsDisabledDraft: a choice that is the saved one is no        *)
(* change. The switch of a row stages one model, the bulk buttons those of all *)
(* rows the filter left.                                                       *)
Staged(c, draft, models, off) ==
  LET changes == {m \in models : Off(c, m) # off}
  IN  [m \in (DOMAIN draft \ models) \cup changes |-> IF m \in models THEN off ELSE draft[m]]

BulkModels(c, rows) == {SourceModel(c, i) : i \in rows}

SwitchShown(c, draft, m) == IF m \in DOMAIN draft THEN draft[m] ELSE Off(c, m)

(* One PATCH: the server adds and removes the models as they are spelled, and  *)
(* so does the console's preview.                                              *)
Applied(c, draft) ==
  [c EXCEPT !.off = (@ \cup {m \in DOMAIN draft : draft[m]}) \ {m \in DOMAIN draft : ~draft[m]}]

-------------------------------------------------------------------------------
(* What the console and the proxy should agree on (proved, for every set of    *)
(* ids, in ModelCatalogProofs).                                                *)

RowOf(c, i) == i \in Rows(c) /\ OneSpelling(c, i)

(* The model a row names is the model a request is sent for first, if the row  *)
(* is switched on (the drawer "must mirror" the backend's precedence,          *)
(* 2026-10-10-variant-group-catalog-design.md). Two kinds of row are excepted: *)
(* an empty group hides that something else still answers, and the row of a    *)
(* declaration does not know of the discovered model a rename took over.       *)
NamesItsUpstream(c, i) ==
  (~ShownOff(c, i) /\ ~(IsVariant(c, i) /\ c.groups[i] = << >>) /\ ~ReplacedByRename(c, i))
    => First(c, i) = ShownFirst(c, i)

(* A row shown as switched off is refused by providers named in a route, and,  *)
(* unless other copies of its model are left, by those in the pool. Excepted   *)
(* is a group that shares its id with a rename: its switch does nothing.       *)
OffIsRefused(c, i) ==
  (ShownOff(c, i) /\ ~(IsVariant(c, i) /\ IsRenamed(c, i)))
    => /\ RequestOff(c, i)
       /\ (i \in DOMAIN c.found => DOMAIN c.found[i] = {1}) => ~Supports(c, i)

(* Bulk switching acts on what the filter left: the rows shown as off (or on), *)
(* all of them and no other; unless two sources speak of one id, for then the  *)
(* filter looks at both and the row shows one.                                 *)
FilterIsExact(c, i) ==
  ~(\/ IsVariant(c, i) /\ IsRenamed(c, i)
    \/ IsVariant(c, i) /\ IsDiscovered(c, i)
    \/ IsRenamed(c, i) /\ IsDiscovered(c, i))
    => \A disabled \in BOOLEAN : i \in Filtered(c, disabled) <=> (ShownOff(c, i) <=> disabled)

(* A group that takes an id over from a rename or from discovery says so.      *)
TakeoverIsSaid(c, i) ==
  LET without == [c EXCEPT !.groups = << >>]
  IN  (HasMembers(c, i) /\ ~ReplacedByRename(c, i) /\ First(without, i) # i)
        => Warnings(c, i) \cap {"variant_shadows_manual_map", "variant_shadows_discovered"} # {}

(* Whatever GET /v1/models offers on behalf of the provider has a row, so the  *)
(* operator can switch it off; provided renames spell the models they take     *)
(* over as discovery does, and discovery normalised at least one id.           *)
AdvertisedHasRow(c, i) ==
  (/\ i \in AdvertisedFound(c) \cup AdvertisedConfigured(c)
   /\ \A j \in DOMAIN c.renames, k \in DOMAIN c.found :
        Same(c.renames[j], Primary(c, k)) => c.renames[j] = Primary(c, k)
   /\ DOMAIN c.found = {} => \A m \in c.listed : ~Claimed(c, m))
    => i \in Rows(c)

(* The primary copy of i is switched off while another copy is left, or i is   *)
(* the primary copy of another id that is switched off.                        *)
CopiesDiffer(c, i) ==
  \/ /\ Has(c.found, i)
     /\ Off(c, Primary(c, At(c.found, i)))
     /\ HealthyCopies(c, At(c.found, i)) # {}
  \/ \E k \in DOMAIN c.found : k # i /\ Primary(c, k) = i /\ Off(c, k)

(* The two gates of the proxy give one answer for every id the provider has,   *)
(* except where the copies of a discovered model are switched separately: then *)
(* a model that is offered because a sibling is left is refused on a route.    *)
GatesAgree(c, i) ==
  (/\ \/ Has(c.renames, i) \/ HasMembers(c, i) \/ IsDeclared(c, i)
      \/ Has(c.found, i) /\ ~AutoHidden(c, i)
   /\ ~CopiesDiffer(c, i))
    => (Supports(c, i) <=> ~RequestOff(c, i))

(* Staging shows the choice for the models it is about and no other.           *)
StagingIsShown(c, draft, models, off, m) ==
  SwitchShown(c, Staged(c, draft, models, off), m)
    = IF m \in models THEN off ELSE SwitchShown(c, draft, m)

(* ... and so for all the rows of a bulk button.                               *)
BulkIsShown(c, draft, rows, off, i) ==
  i \in rows => SwitchShown(c, Staged(c, draft, BulkModels(c, rows), off), SourceModel(c, i)) = off

(* Applying a draft saves what was shown; except for a model that is switched  *)
(* under another spelling too: switched on under its own, it stays off under   *)
(* the lower-case one.                                                         *)
OneSwitch(c, draft, m) == \A x \in c.off \cup DOMAIN draft : Same(x, m) => x = m

ApplyingSavesWhatWasShown(c, draft, m) ==
  OneSwitch(c, draft, m) => (Off(Applied(c, draft), m) <=> SwitchShown(c, draft, m))

(* A row that was switched off and applied is refused, with the exception of   *)
(* OffIsRefused.                                                               *)
AppliedSwitchIsObeyed(c, draft, i) ==
  LET m == SourceModel(c, i)
  IN  (OneSwitch(c, draft, m) /\ SwitchShown(c, draft, m) /\ ~(IsVariant(c, i) /\ IsRenamed(c, i)))
        => RequestOff(Applied(c, draft), i)
=============================================================================
