------------------------------ MODULE Consoles ------------------------------
(***************************************************************************)
(* The pages that write: the order form of a listing, a stored row edited  *)
(* as a whole, an operator's queue, a listing between its seller and its   *)
(* reviewers, an organization, a request for quotation, and the lists read *)
(* page by page.  Each works on records of its own, so a behaviour is one  *)
(* page's behaviour while the others stay as they began.                   *)
(***************************************************************************)
EXTENDS Storefront, SettingsDesk, CaseDesk, ListingReview, Organization, Quotes, PagedList

VARIABLE scene

consoles == <<scene, shop, desks, cases, sale, org, deal, paging>>

Scenes == {"form", "settings", "queue", "listing", "organization", "quotes", "pages"}

Init ==
  /\ scene \in Scenes
  /\ ShopInit /\ (scene = "form" \/ shape.package = "basic")
  /\ DeskInit /\ (scene = "settings" \/ what = "role")
  /\ CaseInit /\ (scene = "queue" \/ queue = "reports")
  /\ SaleInit /\ (scene = "listing" \/ covers = {})
  /\ OrgInit /\ DealInit
  /\ ListInit /\ (scene = "pages" \/ list.kind = "orders")

Next ==
  /\ UNCHANGED scene
  /\ \/ scene = "form" /\ ShopNext /\ UNCHANGED <<desks, cases, sale, org, deal, paging>>
     \/ scene = "settings" /\ DeskNext /\ UNCHANGED <<shop, cases, sale, org, deal, paging>>
     \/ scene = "queue" /\ CaseNext /\ UNCHANGED <<shop, desks, sale, org, deal, paging>>
     \/ scene = "listing" /\ SaleNext /\ UNCHANGED <<shop, desks, cases, org, deal, paging>>
     \/ scene = "organization" /\ OrgNext /\ UNCHANGED <<shop, desks, cases, sale, deal, paging>>
     \/ scene = "quotes" /\ DealNext /\ UNCHANGED <<shop, desks, cases, sale, org, paging>>
     \/ scene = "pages" /\ ListNext /\ UNCHANGED <<shop, desks, cases, sale, org, deal>>

Spec == Init /\ [][Next]_consoles
=============================================================================
