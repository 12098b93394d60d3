---------------------------- MODULE RequestsPage ----------------------------
(* The pure parts of what the console polls for: pages of the request history  *)
(* (request-pagination.mjs), and the order of two snapshots of the providers'  *)
(* models (model-capability-order.mjs).                                        *)
EXTENDS Naturals, Integers

CONSTANTS
  Filters,      \* what the operator may filter the history by; "all" is no filter
  MaxPages      \* bound: pages of request history

ASSUME PageAssumption == "all" \in Filters /\ MaxPages \in Nat \ {0}

(* A server: how many pages of history it has under each filter, a number for  *)
(* the history's content, and its model catalogue: the process's start, the    *)
(* version and whether some provider's discovery has not ended.                *)
Pages == 0..MaxPages

(* GET /-/admin/requests: the offset asked for comes back, also past the end.  *)
Served(s, page, filter) ==
  [page |-> page, filter |-> filter, pages |-> s.pages[filter], rev |-> s.rev]

(* Nothing was loaded yet: no rows, no total.                                  *)
NoRows == [page |-> 0, filter |-> "all", pages |-> 0, rev |-> 0]

(* A target that forgets that pages count from zero.                           *)
TargetOnePast(page, pages, direction) ==
  IF direction = "prev" THEN IF page = 0 THEN 0 ELSE page - 1
                        ELSE IF page + 1 <= pages THEN page + 1 ELSE pages - 1

(* requestPageTarget: one page on or back, inside the pages there are.         *)
PageTarget(page, pages, direction) ==
  IF direction = "prev" THEN IF page = 0 THEN 0 ELSE page - 1
                        ELSE IF page + 1 < pages THEN page + 1 ELSE pages - 1

(* What a poll got for its view: nothing asked, an aborted or a failed         *)
(* request, rows, or what the overview shows.                                  *)
NothingAsked == [kind |-> "none"]
Aborted      == [kind |-> "aborted"]
Failed       == [kind |-> "failed"]
Rows(r)      == [kind |-> "rows", rows |-> r]
Overview(s)  == [kind |-> "overview", rev |-> s.rev]

(* requestPayloadMatchesPage, requestNavigationPayloadMatchesPage: an answer   *)
(* that did not come contradicts no page, but confirms no navigation.          *)
PayloadMatchesPage(answer, page) == answer.kind = "rows" => answer.rows.page = page
(* An offset computed from a page that counts from one.                        *)
MatchesTheNextPage(answer, page) == answer.kind = "rows" /\ answer.rows.page = page + 1
NavigationPayloadMatchesPage(answer, page) ==
  answer.kind = "rows" /\ PayloadMatchesPage(answer, page)

(* renderRequestsTable: the page lies behind the last one there is.            *)
PastTheEnd(page, r) == r.pages > 0 /\ page >= r.pages

NoCaps    == [epoch |-> 0, version |-> 0, pending |-> FALSE]
Models(s) == [epoch |-> s.epoch, version |-> s.version, pending |-> s.pending]

OlderModels(new, old) ==
  \/ new.epoch < old.epoch
  \/ new.epoch = old.epoch /\ new.version < old.version

(* shouldAcceptModelCapabilitySnapshot, and one that takes whatever comes.     *)
AcceptAny(current, incoming)    == TRUE
ShouldAccept(current, incoming) == current = NoCaps \/ ~OlderModels(incoming, current)
=============================================================================
