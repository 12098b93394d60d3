-------------------------- MODULE ModelCatalogProofs --------------------------
(* What the console says of a model id and what the proxy does with it, for    *)
(* every set of ids and every configuration of a provider.                     *)
EXTENDS ModelCatalog, TLAPS

LEMMA SourceTypes ==
  ASSUME NEW c \in Catalogs
  PROVE  /\ DOMAIN c.groups \subseteq Ids /\ \A g \in DOMAIN c.groups : c.groups[g] \in Seq(Ids)
         /\ DOMAIN c.renames \subseteq Ids /\ \A j \in DOMAIN c.renames : c.renames[j] \in Ids
         /\ DOMAIN c.found \subseteq Ids
         /\ \A k \in DOMAIN c.found : c.found[k] \in Seq(Ids) /\ c.found[k] # << >>
         /\ c.listed \subseteq Ids /\ c.static \subseteq Ids
         /\ c.routes \subseteq Ids /\ c.off \subseteq Ids
  <1>1. c.groups \in Maps(Seq(Ids)) /\ c.renames \in Maps(Ids)
          /\ c.found \in Maps(Seq(Ids) \ {<< >>})
    BY DEF Catalogs, Sources
  <1>2. PICK D \in SUBSET Ids : c.groups \in [D -> Seq(Ids)]
    BY <1>1 DEF Maps
  <1>3. PICK E \in SUBSET Ids : c.renames \in [E -> Ids]
    BY <1>1 DEF Maps
  <1>4. PICK F \in SUBSET Ids : c.found \in [F -> Seq(Ids) \ {<< >>}]
    BY <1>1 DEF Maps
  <1>5. c.listed \subseteq Ids /\ c.static \subseteq Ids /\ c.routes \subseteq Ids /\ c.off \subseteq Ids
    BY DEF Catalogs, Sources
  <1>6. QED
    BY <1>2, <1>3, <1>4, <1>5

(* An id without case twins among the keys of a map is found under its own     *)
(* spelling or not at all.                                                     *)
LEMMA Lookup ==
  ASSUME NEW f, NEW i \in Ids, \A j \in DOMAIN f : Same(i, j) => j = i
  PROVE  /\ Has(f, i) <=> i \in DOMAIN f
         /\ Has(f, i) => At(f, i) = i
  BY IdsAssumption DEF Has, At, Same

LEMMA PrimaryIsACopy ==
  ASSUME NEW c \in Catalogs, NEW k \in DOMAIN c.found
  PROVE  /\ Primary(c, k) \in Ids
         /\ 1 \in DOMAIN c.found[k]
         /\ DOMAIN c.found[k] \subseteq Nat \ {0}
         /\ ~Off(c, Primary(c, k)) => 1 \in HealthyCopies(c, k)
  <1>1. c.found[k] \in Seq(Ids) /\ c.found[k] # << >>
    BY SourceTypes
  <1>2. 1 \in DOMAIN c.found[k] /\ DOMAIN c.found[k] \subseteq Nat \ {0}
    BY <1>1
  <1>3. QED
    BY <1>1, <1>2 DEF Primary, HealthyCopies

LEMMA RowIsNamed ==
  ASSUME NEW c \in Catalogs, NEW i \in Rows(c)
  PROVE  i \in Named(c)
  BY SourceTypes DEF Rows, Items, Named, ShownItems, RenamedItems, RouteItems, DiscoveredItems, Item

LEMMA NamedIsAnId ==
  ASSUME NEW c \in Catalogs, NEW i \in Named(c)
  PROVE  i \in Ids
  BY SourceTypes DEF Named

(* For an id with one spelling the proxy's lookups are plain applications.     *)
LEMMA PlainLookups ==
  ASSUME NEW c \in Catalogs, NEW i \in Rows(c), OneSpelling(c, i)
  PROVE  /\ i \in Ids
         /\ Has(c.groups, i)  <=> i \in DOMAIN c.groups
         /\ i \in DOMAIN c.groups => At(c.groups, i) = i
         /\ Has(c.renames, i) <=> i \in DOMAIN c.renames
         /\ i \in DOMAIN c.renames => At(c.renames, i) = i
         /\ Has(c.found, i)   <=> i \in DOMAIN c.found
         /\ i \in DOMAIN c.found => At(c.found, i) = i
  <1>1. i \in Ids
    BY RowIsNamed, NamedIsAnId
  <1>2. /\ \A j \in DOMAIN c.groups  : Same(i, j) => j = i
        /\ \A j \in DOMAIN c.renames : Same(i, j) => j = i
        /\ \A j \in DOMAIN c.found   : Same(i, j) => j = i
    BY DEF OneSpelling, Named
  <1>3. QED
    BY <1>1, <1>2, Lookup

(* Behind the row of a discovered model that no rename took over is its        *)
(* primary copy.                                                               *)
LEMMA DiscoveredRow ==
  ASSUME NEW c \in Catalogs, NEW i \in DOMAIN c.found, ~Claimed(c, Primary(c, i))
  PROVE  Raws(c, i) = {Primary(c, i)} /\ IsDiscovered(c, i)
  <1>1. Item(i, Primary(c, i)) \in ShownItems(c)
    BY DEF ShownItems, DiscoveredItems, Item
  <1>2. Labelled(c, i)
    BY <1>1 DEF Labelled, Item, Same
  <1>3. ASSUME NEW t \in ShownItems(c), t.label = i
        PROVE  t.raw = Primary(c, i)
    BY <1>3 DEF ShownItems, DiscoveredItems, Item, Same
  <1>4. ASSUME NEW t \in RouteItems(c) PROVE t.label # i
    BY <1>2 DEF RouteItems, Item
  <1>5. Primary(c, i) \in Raws(c, i)
    BY <1>1 DEF Raws, Item
  <1>6. QED
    BY <1>3, <1>4, <1>5 DEF Raws, IsDiscovered

(* Behind any other row is nothing but its own id.                             *)
LEMMA OtherRow ==
  ASSUME NEW c \in Catalogs, NEW i,
         i \in DOMAIN c.found => Claimed(c, Primary(c, i))
  PROVE  Raws(c, i) \subseteq {i}
  <1>1. ASSUME NEW t \in ShownItems(c), t.label = i
        PROVE  t.raw = i
    BY <1>1 DEF ShownItems, DiscoveredItems, Item
  <1>2. ASSUME NEW t \in RouteItems(c), t.label = i
        PROVE  t.raw = i
    BY <1>2 DEF RouteItems, Item
  <1>3. QED
    BY <1>1, <1>2 DEF Raws

(* The id behind a row's switch, source by source.                             *)
LEMMA SwitchOfARow ==
  ASSUME NEW c \in Catalogs, NEW i
  PROVE  /\ IsVariant(c, i) => SourceModel(c, i) = i
         /\ ~IsVariant(c, i) /\ IsRenamed(c, i) => SourceModel(c, i) = c.renames[i]
         /\ ~IsVariant(c, i) /\ ~IsRenamed(c, i) /\ i \in DOMAIN c.found /\ ~Claimed(c, Primary(c, i))
              => SourceModel(c, i) = Primary(c, i)
         /\ ~IsVariant(c, i) /\ ~IsRenamed(c, i) /\ (i \in DOMAIN c.found => Claimed(c, Primary(c, i)))
              => SourceModel(c, i) = i
  <1>1. IsVariant(c, i) => SourceModel(c, i) = i
    BY DEF SourceModel
  <1>2. ~IsVariant(c, i) /\ IsRenamed(c, i) => SourceModel(c, i) = c.renames[i]
    BY DEF SourceModel
  <1>3. ASSUME ~IsVariant(c, i), ~IsRenamed(c, i), i \in DOMAIN c.found, ~Claimed(c, Primary(c, i))
        PROVE  SourceModel(c, i) = Primary(c, i)
    <2>1. Raws(c, i) = {Primary(c, i)}
      BY <1>3, DiscoveredRow
    <2>2. SourceModel(c, i) = CHOOSE r \in Raws(c, i) : TRUE
      BY <1>3, <2>1 DEF SourceModel
    <2>3. QED
      BY <2>1, <2>2
  <1>4. ASSUME ~IsVariant(c, i), ~IsRenamed(c, i), i \in DOMAIN c.found => Claimed(c, Primary(c, i))
        PROVE  SourceModel(c, i) = i
    <2>1. Raws(c, i) \subseteq {i}
      BY <1>4, OtherRow
    <2>2. CASE Raws(c, i) = {}
      BY <1>4, <2>2 DEF SourceModel
    <2>3. CASE Raws(c, i) = {i}
      <3>1. SourceModel(c, i) = CHOOSE r \in Raws(c, i) : TRUE
        BY <1>4, <2>3 DEF SourceModel
      <3>2. QED
        BY <2>3, <3>1
    <2>4. QED
      BY <2>1, <2>2, <2>3
  <1>5. QED
    BY <1>1, <1>2, <1>3, <1>4

-------------------------------------------------------------------------------

(* A row that is switched on names the model its requests are sent for first   *)
(* (planCatalogEntries and providerCatalogRowItem beside                       *)
(* resolve_provider_model_candidates).                                         *)
THEOREM RowsNameTheirUpstream ==
  ASSUME NEW c \in Catalogs, NEW i, RowOf(c, i)
  PROVE  NamesItsUpstream(c, i)
  <1> SUFFICES ASSUME ~ShownOff(c, i),
                      ~(IsVariant(c, i) /\ c.groups[i] = << >>),
                      ~ReplacedByRename(c, i)
               PROVE  First(c, i) = ShownFirst(c, i)
    BY DEF NamesItsUpstream
  <1>1. i \in Rows(c) /\ OneSpelling(c, i)
    BY DEF RowOf
  <1>2. CASE IsVariant(c, i)
    <2>1. HasMembers(c, i) /\ At(c.groups, i) = i
      BY <1>1, <1>2, PlainLookups DEF HasMembers, IsVariant
    <2>2. QED
      BY <1>2, <2>1 DEF First, ShownFirst
  <1>3. CASE ~IsVariant(c, i) /\ IsRenamed(c, i)
    <2>1. ~HasMembers(c, i)
      BY <1>1, <1>3, PlainLookups DEF HasMembers, IsVariant
    <2>2. First(c, i) = c.renames[i]
      BY <1>3, <2>1 DEF First, IsRenamed
    <2>3. QED
      BY <1>3, <2>2, SwitchOfARow DEF ShownFirst
  <1>4. CASE ~IsVariant(c, i) /\ ~IsRenamed(c, i) /\ i \in DOMAIN c.found
    <2>1. ~Claimed(c, Primary(c, i))
      BY <1>4 DEF ReplacedByRename
    <2>2. SourceModel(c, i) = Primary(c, i)
      BY <1>4, <2>1, SwitchOfARow
    <2>3. 1 \in HealthyCopies(c, i) /\ HealthyCopies(c, i) \subseteq Nat \ {0}
      BY <1>4, <2>2, PrimaryIsACopy DEF ShownOff, HealthyCopies
    <2>4. (CHOOSE n \in HealthyCopies(c, i) : \A m \in HealthyCopies(c, i) : n <= m) = 1
      BY <2>3
    <2>5. ~HasMembers(c, i) /\ Has(c.found, i) /\ At(c.found, i) = i
      BY <1>1, <1>4, PlainLookups DEF HasMembers, IsVariant
    <2>6. First(c, i) = c.found[i][1]
      BY <1>4, <2>3, <2>4, <2>5 DEF First, IsRenamed
    <2>7. QED
      BY <1>4, <2>2, <2>6 DEF ShownFirst, Primary
  <1>5. CASE ~IsVariant(c, i) /\ ~IsRenamed(c, i) /\ i \notin DOMAIN c.found
    <2>1. SourceModel(c, i) = i
      BY <1>5, SwitchOfARow
    <2>2. ~HasMembers(c, i) /\ ~Has(c.found, i)
      BY <1>1, <1>5, PlainLookups DEF HasMembers, IsVariant
    <2>3. First(c, i) = i
      BY <1>5, <2>2 DEF First, IsRenamed
    <2>4. QED
      BY <1>5, <2>1, <2>3 DEF ShownFirst
  <1>6. QED
    BY <1>2, <1>3, <1>4, <1>5

(* A row shown as switched off is refused, unless it is a group that shares    *)
(* its id with a rename (provider_model_request_disabled looks at the rename   *)
(* and returns); in the pool a sibling copy may still answer.                  *)
THEOREM SwitchedOffIsRefused ==
  ASSUME NEW c \in Catalogs, NEW i, RowOf(c, i)
  PROVE  OffIsRefused(c, i)
  <1> SUFFICES ASSUME ShownOff(c, i), ~(IsVariant(c, i) /\ IsRenamed(c, i))
               PROVE  /\ RequestOff(c, i)
                      /\ (i \in DOMAIN c.found => DOMAIN c.found[i] = {1}) => ~Supports(c, i)
    BY DEF OffIsRefused
  <1>1. i \in Rows(c) /\ OneSpelling(c, i)
    BY DEF RowOf
  <1>2. CASE IsRenamed(c, i)
    <2>1. Off(c, c.renames[i])
      BY <1>2, SwitchOfARow DEF ShownOff
    <2>2. Has(c.renames, i) /\ At(c.renames, i) = i
      BY <1>1, <1>2, PlainLookups DEF IsRenamed
    <2>3. QED
      BY <2>1, <2>2 DEF RequestOff, Supports
  <1>3. CASE ~IsRenamed(c, i) /\ Off(c, i)
    <2>1. ~Has(c.renames, i)
      BY <1>1, <1>3, PlainLookups DEF IsRenamed
    <2>2. QED
      BY <1>3, <2>1 DEF RequestOff, IdOff, Supports, Visible
  <1>4. CASE ~IsRenamed(c, i) /\ ~Off(c, i)
    <2>1. /\ ~IsVariant(c, i)
          /\ i \in DOMAIN c.found
          /\ ~Claimed(c, Primary(c, i))
      BY <1>4, SwitchOfARow DEF ShownOff
    <2>2. Off(c, Primary(c, i))
      BY <1>4, <2>1, SwitchOfARow DEF ShownOff
    <2>3. ~Has(c.renames, i) /\ Has(c.found, i) /\ At(c.found, i) = i
      BY <1>1, <1>4, <2>1, PlainLookups DEF IsRenamed
    <2>4. DOMAIN c.found[i] = {1} => HealthyCopies(c, i) = {}
      BY <2>2 DEF HealthyCopies, Primary
    <2>5. QED
      BY <2>1, <2>2, <2>3, <2>4 DEF RequestOff, IdOff, Supports, Visible
  <1>5. QED
    BY <1>2, <1>3, <1>4

(* The toolbar's filter leaves exactly the rows it names, if no two sources    *)
(* speak of the id (filteredProviderModelItems, providerDrawerCatalogItems).   *)
THEOREM FilterShowsWhatItNames ==
  ASSUME NEW c \in Catalogs, NEW i, RowOf(c, i)
  PROVE  FilterIsExact(c, i)
  <1> SUFFICES ASSUME ~(IsVariant(c, i) /\ IsRenamed(c, i)),
                      ~(IsVariant(c, i) /\ IsDiscovered(c, i)),
                      ~(IsRenamed(c, i) /\ IsDiscovered(c, i)),
                      NEW disabled \in BOOLEAN
               PROVE  i \in Filtered(c, disabled) <=> (ShownOff(c, i) <=> disabled)
    BY DEF FilterIsExact
  <1>1. i \in Rows(c) /\ OneSpelling(c, i)
    BY DEF RowOf
  <1>2. ASSUME NEW t \in Items(c), Same(t.label, i)
        PROVE  t.label = i
    <2>1. t.label \in Named(c)
      BY <1>2, RowIsNamed DEF Rows
    <2>2. QED
      BY <1>1, <1>2, <2>1 DEF OneSpelling, Same
  <1>3. ASSUME NEW t \in Items(c), t.label = i
        PROVE  t.raw = SourceModel(c, i)
    <2>1. CASE t \in RenamedItems(c)
      <3>1. IsRenamed(c, i) /\ t.raw = c.renames[i]
        BY <1>3, <2>1 DEF RenamedItems, IsRenamed, Item
      <3>2. QED
        BY <3>1, SwitchOfARow
    <2>2. CASE t \in ShownItems(c) \cup RouteItems(c)
      <3>1. t.raw \in Raws(c, i)
        BY <1>3, <2>2 DEF Raws
      <3>2. IsDiscovered(c, i)
        BY <3>1 DEF IsDiscovered
      <3>3. ~IsVariant(c, i) /\ ~IsRenamed(c, i)
        BY <3>2
      <3>4. CASE i \in DOMAIN c.found /\ ~Claimed(c, Primary(c, i))
        BY <3>1, <3>3, <3>4, DiscoveredRow, SwitchOfARow
      <3>5. CASE i \in DOMAIN c.found => Claimed(c, Primary(c, i))
        BY <3>1, <3>3, <3>5, OtherRow, SwitchOfARow
      <3>6. QED
        BY <3>4, <3>5
    <2>3. QED
      BY <2>1, <2>2 DEF Items
  <1>4. (\E t \in Items(c) : Same(t.label, i)) \/ IsVariant(c, i) \/ IsStatic(c, i)
    BY <1>1 DEF Rows, IsVariant, IsStatic, Same
  <1>5. ASSUME NEW t \in Items(c), Same(t.label, i)
        PROVE  Off(c, t.raw) <=> ShownOff(c, i)
    BY <1>2, <1>3, <1>5 DEF ShownOff
  <1>6. QED
    BY <1>1, <1>4, <1>5 DEF Filtered

(* A group that takes over what a rename or discovery would have answered      *)
(* carries the warning that says so (the design's A-A duplication).            *)
THEOREM TakeoversAreSaid ==
  ASSUME NEW c \in Catalogs, NEW i, RowOf(c, i)
  PROVE  TakeoverIsSaid(c, i)
  <1> DEFINE without == [c EXCEPT !.groups = << >>]
  <1> SUFFICES ASSUME HasMembers(c, i), ~ReplacedByRename(c, i), First(without, i) # i
               PROVE  \E w \in Warnings(c, i) :
                        w \in {"variant_shadows_manual_map", "variant_shadows_discovered"}
    BY DEF TakeoverIsSaid
  <1>1. i \in Rows(c) /\ OneSpelling(c, i)
    BY DEF RowOf
  <1>2. IsVariant(c, i)
    BY <1>1, PlainLookups DEF HasMembers, IsVariant
  <1>3. CASE IsRenamed(c, i)
    BY <1>2, <1>3 DEF Warnings
  <1>4. CASE ~IsRenamed(c, i)
    <2>1. /\ without.renames = c.renames /\ without.found = c.found /\ without.off = c.off
          /\ without.groups = << >>
      BY DEF Catalogs, Sources
    <2>2. ~HasMembers(without, i)
      BY <2>1 DEF HasMembers, Has
    <2>3. Has(c.found, i)
      BY <1>4, <2>1, <2>2 DEF First, IsRenamed
    <2>4. i \in DOMAIN c.found /\ ~Claimed(c, Primary(c, i))
      BY <1>1, <1>4, <2>3, PlainLookups DEF ReplacedByRename
    <2>5. IsDiscovered(c, i)
      BY <2>4, DiscoveredRow
    <2>6. QED
      BY <1>2, <2>5 DEF Warnings
  <1>5. QED
    BY <1>3, <1>4

(* Every id the provider offers in GET /v1/models has a row in the drawer      *)
(* (rebuild_models_union_snapshot and _configured_model_ids beside the rows).  *)
THEOREM AdvertisedIdsHaveRows ==
  ASSUME NEW c \in Catalogs, NEW i
  PROVE  AdvertisedHasRow(c, i)
  <1> SUFFICES ASSUME i \in AdvertisedFound(c) \cup AdvertisedConfigured(c),
                      \A j \in DOMAIN c.renames, k \in DOMAIN c.found :
                        Same(c.renames[j], Primary(c, k)) => c.renames[j] = Primary(c, k),
                      DOMAIN c.found = {} => \A m \in c.listed : ~Claimed(c, m)
               PROVE  i \in Rows(c)
    BY DEF AdvertisedHasRow
  <1>1. CASE i \in AdvertisedConfigured(c)
    <2>1. ASSUME i \in DOMAIN c.renames PROVE i \in Rows(c)
      <3>1. Item(i, c.renames[i]) \in RenamedItems(c)
        BY <2>1 DEF RenamedItems
      <3>2. QED
        BY <3>1 DEF Rows, Items, Item
    <2>2. QED
      BY <1>1, <2>1 DEF AdvertisedConfigured, Rows
  <1>2. ASSUME NEW t \in ShownItems(c), t.label = i
        PROVE  i \in Rows(c)
    BY <1>2 DEF Rows, Items
  <1>3. CASE i \in AdvertisedFound(c) /\ DOMAIN c.found = {}
    <2>1. i \in c.listed /\ ~Claimed(c, i)
      BY <1>3 DEF AdvertisedFound
    <2>2. Item(i, i) \in ShownItems(c)
      BY <1>3, <2>1 DEF ShownItems, DiscoveredItems, Item
    <2>3. QED
      BY <1>2, <2>2 DEF Item
  <1>4. CASE i \in AdvertisedFound(c) /\ DOMAIN c.found # {}
    <2>1. i \in DOMAIN c.found /\ ~AutoHidden(c, i)
      BY <1>4 DEF AdvertisedFound
    <2>2. At(c.found, i) = i /\ Has(c.found, i) /\ i \notin DOMAIN c.renames
      BY <2>1 DEF At, Has, AutoHidden
    <2>3. ~Claimed(c, Primary(c, i))
      BY <2>1, <2>2 DEF Claimed, AutoHidden
    <2>4. Item(i, Primary(c, i)) \in ShownItems(c)
      BY <2>1, <2>3 DEF ShownItems, DiscoveredItems, Item
    <2>5. QED
      BY <1>2, <2>4 DEF Item
  <1>5. QED
    BY <1>1, <1>3, <1>4

(* provider_supports_model (the pool) and provider_model_request_disabled      *)
(* (routes) give the same answer for every id of the provider, except where    *)
(* copies of one model are switched separately.                                *)
THEOREM TheGatesAgree ==
  ASSUME NEW c \in Catalogs, NEW i \in Ids
  PROVE  GatesAgree(c, i)
  <1> SUFFICES ASSUME \/ Has(c.renames, i) \/ HasMembers(c, i) \/ IsDeclared(c, i)
                      \/ Has(c.found, i) /\ ~AutoHidden(c, i),
                      ~CopiesDiffer(c, i)
               PROVE  Supports(c, i) <=> ~RequestOff(c, i)
    BY DEF GatesAgree
  <1>1. CASE Has(c.renames, i)
    BY <1>1 DEF Supports
  <1>2. CASE ~Has(c.renames, i)
    <2>1. Supports(c, i) <=> Visible(c, i)
      BY <1>2 DEF Supports
    <2>2. RequestOff(c, i) <=> IdOff(c, i)
      BY <1>2 DEF RequestOff
    <2>3. ASSUME Has(c.found, i)
          PROVE  Off(c, Primary(c, At(c.found, i))) <=> HealthyCopies(c, At(c.found, i)) = {}
      BY <2>3, PrimaryIsACopy DEF Has, CopiesDiffer
    <2>4. ASSUME NEW k \in DOMAIN c.found, Primary(c, k) = i, Off(c, k)
          PROVE  Off(c, i)
      BY <2>4 DEF CopiesDiffer
    <2>5. IdOff(c, i) <=> ~Visible(c, i)
      BY <2>3, <2>4 DEF IdOff, Visible
    <2>6. QED
      BY <2>1, <2>2, <2>5
  <1>3. QED
    BY <1>1, <1>2

-------------------------------------------------------------------------------

(* Staging switches, one or in bulk, shows the choice for those models and     *)
(* changes nothing else (setProviderModelsDisabledDraft,                       *)
(* isProviderModelDisabled).                                                   *)
THEOREM StagingShowsTheChoice ==
  ASSUME NEW c, NEW draft \in Maps(BOOLEAN), NEW models,
         NEW off \in BOOLEAN, NEW m
  PROVE  StagingIsShown(c, draft, models, off, m)
  <1>1. Off(c, m) \in BOOLEAN
    BY DEF Off
  <1>2. QED
    BY <1>1 DEF StagingIsShown, SwitchShown, Staged

(* So does a bulk button, for every row the filter left.                       *)
COROLLARY BulkShowsTheChoice ==
  ASSUME NEW c \in Catalogs, NEW draft \in Maps(BOOLEAN), NEW rows \in SUBSET Rows(c),
         NEW off \in BOOLEAN, NEW i \in rows
  PROVE  BulkIsShown(c, draft, rows, off, i)
  <1>1. SourceModel(c, i) \in BulkModels(c, rows)
    BY DEF BulkModels
  <1>2. StagingIsShown(c, draft, BulkModels(c, rows), off, SourceModel(c, i))
    BY StagingShowsTheChoice
  <1>3. QED
    BY <1>1, <1>2 DEF StagingIsShown, BulkIsShown

(* Only the switches differ after a draft was applied.                         *)
LEMMA AppliedKeepsTheRest ==
  ASSUME NEW c \in Catalogs, NEW draft \in Maps(BOOLEAN)
  PROVE  /\ Applied(c, draft) \in Catalogs
         /\ Applied(c, draft).groups = c.groups
         /\ Applied(c, draft).renames = c.renames
         /\ Applied(c, draft).found = c.found
         /\ Applied(c, draft).listed = c.listed
         /\ Applied(c, draft).static = c.static
         /\ Applied(c, draft).routes = c.routes
         /\ Applied(c, draft).off
              = (c.off \cup {m \in DOMAIN draft : draft[m]}) \ {m \in DOMAIN draft : ~draft[m]}
  <1> DEFINE a == Applied(c, draft)
  <1>1. c \in Sources /\ Tidy(c)
    BY DEF Catalogs
  <1>2. PICK D \in SUBSET Ids : draft \in [D -> BOOLEAN]
    BY DEF Maps
  <1>3. /\ a.groups = c.groups /\ a.renames = c.renames /\ a.found = c.found
        /\ a.listed = c.listed /\ a.static = c.static /\ a.routes = c.routes
        /\ a.off = (c.off \cup {m \in DOMAIN draft : draft[m]}) \ {m \in DOMAIN draft : ~draft[m]}
    BY <1>1 DEF Applied, Sources
  <1>4. a.off \in SUBSET Ids
    BY <1>1, <1>2, <1>3 DEF Sources
  <1>5. a \in Sources
    BY <1>1, <1>4 DEF Applied, Sources
  <1>6. Tidy(a)
    BY <1>1, <1>3 DEF Tidy, Primary
  <1>7. QED
    BY <1>3, <1>5, <1>6 DEF Catalogs

(* Applying a draft saves what was shown, for a model with one switch          *)
(* (updateProviderModelDisabled, update_provider_models_disabled).             *)
THEOREM ApplyingKeepsTheChoice ==
  ASSUME NEW c \in Catalogs, NEW draft \in Maps(BOOLEAN), NEW m \in Ids
  PROVE  ApplyingSavesWhatWasShown(c, draft, m)
  <1> SUFFICES ASSUME OneSwitch(c, draft, m)
               PROVE  Off(Applied(c, draft), m) <=> SwitchShown(c, draft, m)
    BY DEF ApplyingSavesWhatWasShown
  <1>1. Applied(c, draft).off
          = (c.off \cup {x \in DOMAIN draft : draft[x]}) \ {x \in DOMAIN draft : ~draft[x]}
    BY AppliedKeepsTheRest
  <1>2. Lower[m] \in c.off \cup DOMAIN draft => Lower[m] = m
    BY IdsAssumption DEF OneSwitch, Same
  <1>3. Off(Applied(c, draft), m) <=> m \in Applied(c, draft).off
    BY <1>1, <1>2 DEF Off
  <1>4. Off(c, m) <=> m \in c.off
    BY <1>2 DEF Off
  <1>5. QED
    BY <1>1, <1>3, <1>4 DEF SwitchShown

(* The switch of a row, staged and applied, is obeyed by the proxy.            *)
THEOREM SwitchesAreObeyed ==
  ASSUME NEW c \in Catalogs, NEW draft \in Maps(BOOLEAN), NEW i, RowOf(c, i)
  PROVE  AppliedSwitchIsObeyed(c, draft, i)
  <1> DEFINE a == Applied(c, draft)
  <1> SUFFICES ASSUME OneSwitch(c, draft, SourceModel(c, i)),
                      SwitchShown(c, draft, SourceModel(c, i)),
                      ~(IsVariant(c, i) /\ IsRenamed(c, i))
               PROVE  RequestOff(a, i)
    BY DEF AppliedSwitchIsObeyed
  <1>1. /\ a \in Catalogs
        /\ a.groups = c.groups /\ a.renames = c.renames /\ a.found = c.found
        /\ a.listed = c.listed /\ a.static = c.static /\ a.routes = c.routes
    BY AppliedKeepsTheRest
  <1>2. DiscoveredItems(a) = DiscoveredItems(c)
    BY <1>1 DEF DiscoveredItems, Primary
  <1>3. \A x : Claimed(a, x) <=> Claimed(c, x)
    BY <1>1 DEF Claimed
  <1>4. ShownItems(a) = ShownItems(c)
    BY <1>2, <1>3 DEF ShownItems
  <1>5. RenamedItems(a) = RenamedItems(c)
    BY <1>1 DEF RenamedItems
  <1>6. RouteItems(a) = RouteItems(c)
    BY <1>1, <1>2, <1>3, <1>4, <1>5 DEF RouteItems, Labelled
  <1>7. RowOf(a, i)
    BY <1>1, <1>4, <1>5, <1>6 DEF RowOf, Rows, Items, OneSpelling, Named
  <1>8. (IsVariant(a, i) <=> IsVariant(c, i)) /\ (IsRenamed(a, i) <=> IsRenamed(c, i))
    BY <1>1 DEF IsVariant, IsRenamed
  <1>9. SourceModel(a, i) = SourceModel(c, i)
    <2>1. Raws(a, i) = Raws(c, i)
      BY <1>4, <1>6 DEF Raws
    <2>2. QED
      BY <1>1, <1>8, <2>1, SwitchOfARow DEF SourceModel
  <1>0. SourceModel(c, i) \in Ids
    BY RowIsNamed, NamedIsAnId, SourceTypes, PrimaryIsACopy, SwitchOfARow
       DEF RowOf, IsVariant, IsRenamed
  <1>10. Off(a, SourceModel(c, i))
    BY <1>0, ApplyingKeepsTheChoice DEF ApplyingSavesWhatWasShown
  <1>11. OffIsRefused(a, i)
    BY <1>1, <1>7, SwitchedOffIsRefused
  <1>12. QED
    BY <1>8, <1>9, <1>10, <1>11 DEF OffIsRefused, ShownOff
=============================================================================
