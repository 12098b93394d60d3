-------------------------- MODULE MCDashboardConfig --------------------------
(* Small instances of DashboardConfig: two saves of any kind, and then fewer   *)
(* kinds of save with what the world may do to them. What the catalog of a     *)
(* provider's models must satisfy is evaluated for small configurations of it. *)
EXTENDS DashboardConfig, ModelCatalog

MCKnobs == {"routing", "provider", "format", "route"}

Allow(b) == [s \in Spendable |-> IF s \in DOMAIN b THEN b[s] ELSE 0]

Mixed     == Allow([login |-> 1, form |-> 1, button |-> 1])
Refreshed == Allow([login |-> 1, manual |-> 2, switch |-> 1, button |-> 1])
Forms     == Allow([login |-> 1, form |-> 2])
Keys      == Allow([login |-> 1, button |-> 2])
Catalog   == Allow([login |-> 1, editor |-> 1, form |-> 1, switch |-> 1])
Typing    == Allow([login |-> 1, manual |-> 1, type |-> 1, switch |-> 1])
Elsewhere == Allow([login |-> 1, foreign |-> 1, button |-> 1, switch |-> 1])
Torn      == Allow([login |-> 1, manual |-> 1, foreign |-> 1, torn |-> 1, switch |-> 1])
Restarted == Allow([login |-> 1, restart |-> 1, form |-> 1, switch |-> 1])
Lost      == Allow([login |-> 1, lost |-> 1, button |-> 1, form |-> 1])
Relogin   == Allow([login |-> 2, manual |-> 1, rotate |-> 1, switch |-> 2, button |-> 1])

MCBudgets == {Mixed, Refreshed, Forms, Keys, Catalog, Typing, Elsewhere, Torn, Restarted,
              Lost, Relogin}

MCIds   == {"a", "A", "b"}
MCLower == [i \in MCIds |-> IF i = "A" THEN "a" ELSE i]

(* Maps with at most one entry.                                                *)
Few(S) == {<< >>} \cup {[x \in {k} |-> v] : k \in MCIds, v \in S}

(* One group, one rename, one discovered id with up to two copies or two with  *)
(* one: enough for an id to have all four sources and one source to name the   *)
(* id of another, in another case.                                             *)
SmallCatalogs ==
  {c \in [groups  : Few({<< >>, << "b" >>, << "A", "b" >>}),
          renames : Few(MCIds),
          found   : Few({<< "b" >>, << "a", "b" >>})
                      \cup {[x \in {"a", "b"} |-> IF x = "a" THEN << "A" >> ELSE << "b" >>]},
          listed  : {{}, {"b"}},
          static  : {{}, {"a"}, {"A"}},
          routes  : {{}, {"b"}},
          off     : {{}, {"a"}, {"b"}}] : Tidy(c)}

ASSUME CatalogAndProxyAgree ==
  \A c \in SmallCatalogs, i \in MCIds :
    /\ RowOf(c, i) => /\ NamesItsUpstream(c, i) /\ OffIsRefused(c, i)
                      /\ TakeoverIsSaid(c, i) /\ FilterIsExact(c, i)
    /\ AdvertisedHasRow(c, i)
    /\ GatesAgree(c, i)

Configured(base) ==
  LET none == [groups |-> << >>, renames |-> << >>, found |-> << >>, listed |-> {},
               static |-> {}, routes |-> {}, off |-> {}]
  IN  [s \in DOMAIN none |-> IF s \in DOMAIN base THEN base[s] ELSE none[s]]

One(k, v) == [x \in {k} |-> v]

(* The exceptions are real: a renamed group is on whatever its switch says; a  *)
(* declared id is sent as the model a rename took over; and an id offered for  *)
(* the sake of its second copy is refused on a route.                          *)
ASSUME ExceptionsHappen ==
  /\ LET c == Configured([groups |-> One("a", << "b" >>), renames |-> One("a", "b"), off |-> {"a"}])
     IN  RowOf(c, "a") /\ ShownOff(c, "a") /\ ~RequestOff(c, "a") /\ Supports(c, "a")
  /\ LET c == Configured([found |-> One("a", << "A" >>), renames |-> One("b", "A"),
                         static |-> {"a"}])
     IN  RowOf(c, "a") /\ ShownFirst(c, "a") = "a" /\ First(c, "a") = "A"
  /\ LET c == Configured([found |-> One("b", << "A", "b" >>), off |-> {"A"}])
     IN  "b" \in AdvertisedFound(c) /\ Supports(c, "b") /\ RequestOff(c, "b")

(* Drafts over any switches of one configuration with all kinds of rows.       *)
ASSUME SwitchesDoWhatTheyShow ==
  \A switched \in SUBSET MCIds, draft \in Maps(BOOLEAN), choice \in BOOLEAN :
    LET c == Configured([groups |-> One("b", << "A" >>), found |-> One("a", << "b" >>),
                         listed |-> {"b"}, off |-> switched])
    IN  /\ \A models \in SUBSET MCIds, m \in MCIds : StagingIsShown(c, draft, models, choice, m)
        /\ \A rows \in SUBSET Rows(c) : \A i \in rows : BulkIsShown(c, draft, rows, choice, i)
        /\ \A m \in MCIds : ApplyingSavesWhatWasShown(c, draft, m)
        /\ \A i \in MCIds : RowOf(c, i) => AppliedSwitchIsObeyed(c, draft, i)
=============================================================================
