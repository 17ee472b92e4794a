----------------------------- MODULE PagedList -----------------------------
(***************************************************************************)
(* A list that is read page by page: orders, settlements, audit rows, the  *)
(* reviews a seller answers, inquiry threads, the reviews of a listing,    *)
(* and the marketplace.  A page is asked for and answered later; the first *)
(* page replaces what is shown, a further one is appended to whatever is   *)
(* shown when it arrives.  Meanwhile rows are added, leave the filter, or  *)
(* move to the top.  The server answers by keyset (internal/httpapi/       *)
(* paging.go), the marketplace by offset (talents.go).                     *)
(*                                                                         *)
(* A row's sort key is one number, the pair (time, id) of the code: keys   *)
(* differ, and rows become visible in the order of their keys.             *)
(***************************************************************************)
EXTENDS Integers, Sequences, FiniteSets, FiniteSetsExt

CONSTANTS
  Kinds,     \* the pages looked at
  Rows,      \* the rows there will ever be
  Standing,  \* those there from the start
  PageSize,  \* rows on one page
  Asked,     \* bound: pages asked for
  Moves      \* bound: rows added, moved or closed

ASSUME PagedListAssumption ==
  /\ Rows \subseteq Nat \ {0} /\ IsFiniteSet(Rows) /\ Standing \subseteq Rows
  /\ Kinds \subseteq {"orders", "earnings", "operations", "audit", "answers",
                      "threads", "reviews", "seller", "market"}
  /\ PageSize \in Nat \ {0} /\ Asked \in Nat /\ Moves \in Nat

VARIABLES
  list,   \* the page
  key,    \* sort key of each row, 0 for a row not there yet
  open    \* the rows an "open only" filter keeps

paging == <<list, key, open>>

\* Pages whose button is disabled while a page is under way.
Disabling == {"orders", "earnings", "operations", "audit", "answers", "threads"}

-----------------------------------------------------------------------------
(* The server.                                                             *)
(***************************************************************************)
Visible(filter) == {r \in Rows : key[r] > 0 /\ (filter = "open" => r \in open)}
Newer(r, S)     == {s \in S : key[s] > key[r]}
NewestFirst(S)  == [i \in 1..Cardinality(S) |-> CHOOSE r \in S : Cardinality(Newer(r, S)) = i - 1]

\* A plausible bug: the row the cursor stands on is served again.
MutKeyset(l) == NewestFirst({r \in Visible(l.filter) : l.after = 0 \/ key[r] <= l.after})

keyset(l) == NewestFirst({r \in Visible(l.filter) : l.after = 0 \/ key[r] < l.after})
offset(l) == LET all == NewestFirst(Visible(l.filter)) IN SubSeq(all, l.after + 1, Len(all))

\* The page, and the cursor to send for the next one: 0 when there is none.
pageResult(l) ==
  LET rows == IF list.kind = "market" THEN offset(l) ELSE keyset(l)
      page == SubSeq(rows, 1, Min({PageSize, Len(rows)}))
  IN  [items |-> [i \in DOMAIN page |-> [row |-> page[i], at |-> key[page[i]]]],
       next  |-> IF Len(rows) <= PageSize THEN 0
                 ELSE IF list.kind = "market" THEN l.after + PageSize
                 ELSE key[page[PageSize]]]

-----------------------------------------------------------------------------
(* The page.                                                               *)
(***************************************************************************)
Unanswered == [items |-> <<>>, next |-> -1]

Load(after, filter) == [nr |-> list.asked + 1, after |-> after, filter |-> filter, answer |-> Unanswered]

ListInit ==
  /\ key = [r \in Rows |-> IF r \in Standing THEN r ELSE 0]
  /\ open = Rows
  /\ list \in {[kind |-> k, filter |-> "all", under |-> "all", items |-> <<>>, cursor |-> 0,
                busy |-> k \in Disabling, disturbed |-> FALSE,
                asked |-> 1, moves |-> 0,
                loads |-> {[nr |-> 1, after |-> 0, filter |-> "all", answer |-> Unanswered]}] : k \in Kinds}

\* A first page is asked for whatever else is under way.  What is shown is
\* disturbed from here on when something is.
FetchFirst(filter) ==
  /\ list.asked < Asked
  /\ list' = [list EXCEPT !.filter = filter, !.asked = @ + 1,
                          !.busy = @ \/ list.kind \in Disabling,
                          !.disturbed = @ \/ list.loads # {},
                          !.loads = @ \cup {Load(0, filter)}]

SetFilter == \E f \in {"all", "open"} \ {list.filter} : FetchFirst(f)

\* A reply, a message, a search sent again: the same filter from the top.
ReloadFirst == FetchFirst(list.filter)

\* The marketplace disables its button for further pages only.
FetchMore ==
  /\ list.cursor # 0 /\ ~list.busy /\ list.asked < Asked
  /\ list' = [list EXCEPT !.asked = @ + 1, !.busy = list.kind \in Disabling \cup {"market"},
                          !.disturbed = @ \/ (list.kind \notin Disabling /\ list.loads # {}),
                          !.loads = @ \cup {Load(list.cursor, list.filter)}]

Served(l) ==
  /\ l.answer = Unanswered
  /\ list' = [list EXCEPT !.loads = (@ \ {l}) \cup {[l EXCEPT !.answer = pageResult(l)]}]

\* A first page that nothing crosses puts right what was disturbed.
Settles(l) ==
  /\ l.after = 0 /\ l.filter = list.filter /\ list.loads = {l}
  /\ list.kind = "market" => l.answer = pageResult(l)

\* The answer is shown, whatever was asked for since.
Shown(l) ==
  /\ l.answer # Unanswered
  /\ LET items == (IF l.after = 0 THEN <<>> ELSE list.items) \o l.answer.items
     IN  list' = [list EXCEPT
           !.items = items, !.busy = FALSE, !.loads = @ \ {l},
           !.under = IF l.after = 0 THEN l.filter ELSE @,
           !.disturbed = @ /\ ~Settles(l),
           !.cursor = IF list.kind = "market" /\ l.answer.next # 0 THEN Len(items) ELSE l.answer.next]

\* The rows shown before stay, under whatever filter is set by now.
Failed(l) ==
  list' = [list EXCEPT !.busy = FALSE, !.loads = @ \ {l},
                       !.disturbed = @ \/ (l.after = 0 /\ l.filter # list.under)]

-----------------------------------------------------------------------------
(* Everyone else.                                                          *)
(***************************************************************************)
Top == Max({key[r] : r \in Rows}) + 1

\* An offset does not hold against any change.
Changed == list' = [list EXCEPT !.moves = @ + 1, !.disturbed = @ \/ list.kind = "market"]

Added(r) == key[r] = 0 /\ key' = [key EXCEPT ![r] = Top] /\ UNCHANGED open

\* A thread rises with every message.
Raised(r) == list.kind = "threads" /\ key[r] > 0 /\ key' = [key EXCEPT ![r] = Top] /\ UNCHANGED open

\* An order is finished, a review answered, a listing put away.
Closed(r) == key[r] > 0 /\ r \in open /\ open' = open \ {r} /\ UNCHANGED key

-----------------------------------------------------------------------------
(* The pages.                                                              *)
(***************************************************************************)
OrdersPage    == list.kind = "orders" /\ (SetFilter \/ FetchMore)
EarningsPage  == list.kind = "earnings" /\ (SetFilter \/ FetchMore)
OrdersAdmin   == list.kind = "operations" /\ (SetFilter \/ FetchMore)
AuditAdmin    == list.kind = "audit" /\ (SetFilter \/ FetchMore)
SellerReviews == /\ list.kind = "answers"
                 /\ SetFilter \/ (list.items # <<>> /\ ReloadFirst) \/ FetchMore
InquiriesPage == list.kind = "threads" /\ ((list.items # <<>> /\ ReloadFirst) \/ FetchMore)
TalentReviews == list.kind = "reviews" /\ ((list.items # <<>> /\ ReloadFirst) \/ FetchMore)
SellerPage    == list.kind = "seller" /\ FetchMore
MarketplacePage == list.kind = "market" /\ (SetFilter \/ ReloadFirst \/ FetchMore)

ListNext ==
  \/ /\ UNCHANGED <<key, open>>
     /\ \/ OrdersPage \/ EarningsPage \/ OrdersAdmin \/ AuditAdmin \/ SellerReviews
        \/ InquiriesPage \/ TalentReviews \/ SellerPage \/ MarketplacePage
        \/ \E l \in list.loads : Served(l) \/ Shown(l) \/ Failed(l)
  \/ list.moves < Moves /\ Changed /\ \E r \in Rows : Added(r) \/ Raised(r) \/ Closed(r)

Paging == ListInit /\ [][ListNext]_paging

-----------------------------------------------------------------------------
(* "The cursor carries the sort key and the row identity so rows inserted   *)
(* while a reader pages through cannot shift the window or make a row       *)
(* appear twice" (paging.go:12): however many rows come, close or rise      *)
(* between two pages, no row is shown twice and none that belongs between   *)
(* the first and the last row shown is missing, unless two loads crossed or *)
(* a first page failed.  And with nothing under way the rows are those of   *)
(* the filter that is set.                                                  *)
PagesJoinUp ==
  list.disturbed \/
    /\ \A i, j \in DOMAIN list.items : list.items[i].row = list.items[j].row => i = j
    /\ \A r \in Visible(list.under) :
         (\E i, j \in DOMAIN list.items : list.items[i].at >= key[r] /\ key[r] >= list.items[j].at)
           => \E i \in DOMAIN list.items : list.items[i].row = r
    /\ list.loads = {} => list.under = list.filter
=============================================================================
