------------------------------- MODULE Quotes -------------------------------
(***************************************************************************)
(* One request for quotation: sellers who quote and revise, the buyer's    *)
(* page that compares, and the acceptances that make an order of a quote.  *)
(*                                                                         *)
(* A quote is written by one statement, after the request was seen open    *)
(* outside any transaction.  An acceptance locks its own quote, looks at   *)
(* the request without locking it, and closes the others row by row; under *)
(* READ COMMITTED its statements see what was committed when they began,   *)
(* and a row that was locked is looked at again once it is free.           *)
(*                                                                         *)
(* An offer is what a quote says: its amount and whether a listing is      *)
(* linked.  Clicks are the acceptances there may be, MaxBids bounds the    *)
(* quotes and revisions sent.                                              *)
(***************************************************************************)
EXTENDS Integers, FiniteSets

CONSTANTS Sellers, Amounts, Clicks, MaxBids

ASSUME QuotesAssumption == MaxBids \in Nat

Offers == [amount : Amounts, linked : BOOLEAN]

VARIABLES
  rfq,      \* "open" or "awarded"
  quotes,   \* for each seller the quote's state ("none" before there is one) and offer
  bids,     \* for each seller the offers that have passed the look at the request
  compared, \* what the buyer's page shows of the quotes, as it loaded them
  awards,   \* the acceptances, each with the rows it has locked
  bought,   \* the orders made: click, seller, amount, and the amount the page showed
  told,     \* sellers with a QuoteRejected event
  sent

deal   == <<rfq, quotes, bids, compared, awards, bought, told, sent>>
served == <<rfq, quotes, bought, told>>

NoAward == [stage |-> "none"]

\* The transactions that are running, and the quotes they hold.
Running == {c \in Clicks : awards[c].stage \in {"holding", "closing"}}
Locked(s) == \E c \in Running : s \in awards[c].mine
Free(c, s) == \A d \in Running \ {c} : s \notin awards[d].mine

DealInit ==
  /\ rfq = "open" /\ bought = {} /\ told = {} /\ sent = 0
  /\ quotes = [s \in Sellers |-> [state |-> "none"]]
  /\ bids = [s \in Sellers |-> {}]
  /\ compared = [s \in Sellers |-> [state |-> "none"]]
  /\ awards = [c \in Clicks |-> NoAward]

(***************************************************************************)
(* A seller quotes.                                                        *)
(***************************************************************************)
\* The handler's look at the request, before its transaction.
createQuote(s) ==
  /\ rfq = "open" /\ sent < MaxBids /\ sent' = sent + 1
  /\ \E o \in Offers : bids' = [bids EXCEPT ![s] = @ \cup {o}]
  /\ UNCHANGED <<rfq, quotes, compared, awards, bought, told>>

\* What the statement may write over.  A plausible bug: whatever is there.
MutRevisable(s) == TRUE

Revisable(s) == quotes[s].state \in {"none", "submitted"}

\* INSERT ... ON CONFLICT DO UPDATE; it waits for a row that is being decided.
insertQuote(s) ==
  /\ ~Locked(s)
  /\ \E o \in bids[s] :
       /\ bids' = [bids EXCEPT ![s] = @ \ {o}]
       /\ \/ /\ Revisable(s)
             /\ quotes' = [quotes EXCEPT ![s] =
                  [state |-> IF @.state = "none" THEN "submitted" ELSE @.state, offer |-> o]]
          \/ UNCHANGED quotes             \* not revisable, the listing is off sale, or an error
  /\ UNCHANGED <<rfq, compared, awards, bought, told, sent>>

(***************************************************************************)
(* The buyer's page.                                                       *)
(***************************************************************************)
\* Another window's list may still call the request open.
viewQuotes == /\ compared # quotes /\ compared' = quotes
              /\ UNCHANGED <<rfq, quotes, bids, awards, bought, told, sent>>

\* The button; the statement that locks the quote sees the request as it is now.
pressAccept(c, s) ==
  /\ awards[c].stage = "none"
  /\ compared[s].state = "submitted" /\ compared[s].offer.linked
  /\ awards' = [awards EXCEPT ![c] = [stage |-> "locking", seller |-> s, seen |-> rfq,
                                      saw |-> compared[s].offer.amount]]
  /\ UNCHANGED <<rfq, quotes, bids, compared, bought, told, sent>>

(***************************************************************************)
(* acceptQuote.                                                            *)
(***************************************************************************)
\* Any refusal, any error, and the way out of a deadlock.
refuse(c) == /\ awards[c].stage \in {"locking", "holding", "closing"}
             /\ awards' = [awards EXCEPT ![c] = [stage |-> "over"]]
             /\ UNCHANGED <<rfq, quotes, bids, compared, bought, told, sent>>

Selectable(a) == quotes[a.seller].state = "submitted" /\ quotes[a.seller].offer.linked
                 /\ a.seen = "open"

lockQuote(c) ==
  LET a == awards[c] IN
  /\ a.stage = "locking" /\ Free(c, a.seller) /\ Selectable(a)
  /\ awards' = [awards EXCEPT ![c] =
       [stage |-> "holding", seller |-> a.seller, saw |-> a.saw,
        amount |-> quotes[a.seller].offer.amount, mine |-> {a.seller}, todo |-> {}]]
  /\ UNCHANGED <<served, bids, compared, sent>>

\* UPDATE quotes ... WHERE state = 'submitted': the rows it sees when it begins.
closeOthers(c) ==
  /\ awards[c].stage = "holding"
  /\ awards' = [awards EXCEPT ![c].stage = "closing",
                              ![c].todo = {s \in Sellers : quotes[s].state = "submitted"}]
  /\ UNCHANGED <<served, bids, compared, sent>>

\* One of them, once it is free, if it still is submitted.
closeRow(c, s) ==
  /\ awards[c].stage = "closing" /\ s \in awards[c].todo /\ Free(c, s)
  /\ awards' = [awards EXCEPT ![c].todo = @ \ {s},
                              ![c].mine = IF quotes[s].state = "submitted" THEN @ \cup {s} ELSE @]
  /\ UNCHANGED <<served, bids, compared, sent>>

Decided(s, a) ==
  IF s \notin a.mine THEN quotes[s]
  ELSE [quotes[s] EXCEPT !.state = IF s = a.seller THEN "accepted" ELSE "rejected"]

\* The request is awarded, everyone turned down is told, and all of it commits.
award(c) ==
  LET a == awards[c] IN
  /\ a.stage = "closing" /\ a.todo = {}
  /\ quotes' = [s \in Sellers |-> Decided(s, a)]
  /\ rfq' = "awarded"
  /\ told' = told \cup {s \in Sellers \ {a.seller} : quotes'[s].state = "rejected"}
  /\ bought' = bought \cup {[click |-> c, seller |-> a.seller, amount |-> a.amount, saw |-> a.saw]}
  /\ awards' = [awards EXCEPT ![c] = [stage |-> "over"]]
  /\ UNCHANGED <<bids, compared, sent>>

acceptQuote(c) == \/ lockQuote(c) \/ closeOthers(c) \/ award(c) \/ refuse(c)
                  \/ \E s \in Sellers : closeRow(c, s)

DealNext ==
  \/ viewQuotes
  \/ \E s \in Sellers : createQuote(s) \/ insertQuote(s)
  \/ \E c \in Clicks : acceptQuote(c) \/ \E s \in Sellers : pressAccept(c, s)

Deal == DealInit /\ [][DealNext]_deal

-----------------------------------------------------------------------------
(* A decided quote stays what it was decided on: each accepted quote has    *)
(* one order, at the amount the quote still names, no other quote has one,  *)
(* and whoever was turned down was told (rfq.go: createQuote writes over    *)
(* submitted quotes only, acceptQuote holds the quote while it orders).     *)
DecidedQuotesStand ==
  /\ \A s \in Sellers : quotes[s].state = "accepted" <=> \E o \in bought : o.seller = s
  /\ \A o \in bought : quotes[o.seller].offer.amount = o.amount
  /\ \A o, p \in bought : o.seller = p.seller => o = p
  /\ \A s \in Sellers : quotes[s].state = "rejected" => s \in told

(* "The losing quotes close with the request so no seller is left waiting"  *)
(* (rfq.go).                                                                *)
LosersAreAnswered == rfq = "awarded" => \A s \in Sellers : quotes[s].state # "submitted"

(* "The request is closed, so a second acceptance is refused"               *)
(* (integration_test.go): one request makes one order.                      *)
OneOrderPerRequest == Cardinality(bought) <= 1

(* "The agreed quotation price is used" (README.md): the buyer pays the     *)
(* amount that was on the page when the quote was chosen.                   *)
PricedAsSeen == \A o \in bought : o.amount = o.saw
=============================================================================
