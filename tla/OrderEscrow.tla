----------------------------- MODULE OrderEscrow -----------------------------
(***************************************************************************)
(* The life of one order: its state, the ledger written for it, the        *)
(* settlement owed to the seller, its dispute, its captured payments, and  *)
(* the maintenance workers that move it while people do the same.          *)
(*                                                                         *)
(* Every handler takes the order's row lock (SELECT ... FOR UPDATE) before *)
(* it reads and commits once, so each is one action.  settlementAction and *)
(* the worker's settlement decision do not lock the order; they are one    *)
(* conditional UPDATE of the settlement row, hence also one action.  The   *)
(* maintenance jobs are two actions each: a scan outside any transaction,  *)
(* and later a transaction that acts on what the scan saw.                 *)
(***************************************************************************)
EXTENDS Money, OrderTable, FiniteSets

CONSTANTS
  Terms,          \* the orders considered: amount, discount, budgeted
  FeeRates,       \* values platform_fee_rate takes while the order lives
  PartialRefunds, \* amounts an operator may enter for refund_partial
  Keys,           \* Idempotency-Key values clients send
  Workers,        \* instances running the maintenance scans
  OperatorMoves,  \* transitions orders.manage requests by hand, <<from, to>>
  IncludedRevisions, CeilingRevisions,  \* product's count, policy's ceiling
  MaxRounds,      \* bound on trips through REVISION_REQUESTED
  ExpiryOn, AutoAcceptOn, BatchOn  \* order_expiry_hours > 0, auto_accept_days > 0,
                                   \* settlement.policy.batch_enabled

ASSUME TermsAssumption ==
  /\ Terms \subseteq [amount : Nat, discount : Nat, budgeted : BOOLEAN]
  /\ \A t \in Terms : t.discount <= t.amount
ASSUME FeeRatesAssumption == FeeRates \subseteq 0..100
ASSUME RefundsAssumption == PartialRefunds \subseteq Nat
ASSUME KeysAssumption == IsFiniteSet(Keys)
ASSUME MovesAssumption == OperatorMoves \subseteq orderTransitions
ASSUME RevisionsAssumption ==
  /\ IncludedRevisions \in Nat
  /\ CeilingRevisions \in Nat
  /\ MaxRounds \in Nat
ASSUME PolicyAssumption ==
  ExpiryOn \in BOOLEAN /\ AutoAcceptOn \in BOOLEAN /\ BatchOn \in BOOLEAN

VARIABLES
  terms,       \* amount, discount_amount and whether a budget was reserved
  state,       \* orders.state
  books,       \* ledger_entries of the order: credits minus debits by account,
               \* and orders.budget_consumed
  settlement,  \* the order's settlements row (at most one: order_id is UNIQUE)
  dispute,     \* the order's disputes row: none, open or resolved
  payments,    \* idempotency keys of the captured payments rows
  revisions,   \* number of revisions rows
  rounds,      \* order_timeline rows with to_state REVISION_REQUESTED
  reviewed,    \* whether the reviews row exists (order_id is UNIQUE)
  quiet,       \* updated_at is older than auto_accept_days
  plan         \* what each worker's last scan saw and has not acted on yet

vars == <<terms, state, books, settlement, dispute, payments, revisions,
          rounds, reviewed, quiet, plan>>

order == <<state, quiet>>
-----------------------------------------------------------------------------
Amount == terms.amount
ToPay == Payable(terms.amount, terms.discount)

(* The accounts the handlers post to, each written as one word ("Buyer     *)
(* Payment" in the code is "BuyerPayment"), and the orders.budget_consumed *)
(* column: what the order still holds of the organization's budget.        *)
Accounts ==
  {"Escrow", "BuyerPayment", "PromotionExpense", "BuyerRefund",
   "PromotionRecovery", "PlatformRevenue", "SellerPayable", "SellerPayout"}
Columns == Accounts \cup {"budget_consumed"}

Pending == {"scheduled", "confirmed"}
Live == Pending \cup {"hold"}
SettlementStates == Live \cup {"none", "completed", "cancelled"}
NoSettlement == [state |-> "none", fee |-> 0, net |-> 0]

Ended == {"CANCELLED", "REFUNDED"}
Plans == {"idle", "CREATED", "PAYMENT_PENDING", "DELIVERED", "confirm", "hold"}

TypeOK ==
  /\ terms \in Terms
  /\ state \in OrderStates
  /\ books \in [Columns -> Int]
  /\ settlement \in [state : SettlementStates, fee : Nat, net : Nat]
  /\ dispute \in {"none", "open", "resolved"}
  /\ payments \subseteq Keys
  /\ revisions \in Nat
  /\ rounds \in 0..MaxRounds
  /\ reviewed \in BOOLEAN
  /\ quiet \in BOOLEAN
  /\ plan \in [Workers -> Plans]
-----------------------------------------------------------------------------
(* Each operator below is the effect of one Go helper on the books.        *)

debit(b, account, n) == [b EXCEPT ![account] = @ - n]
credit(b, account, n) == [b EXCEPT ![account] = @ + n]

releaseBudget(b, upTo) ==
  debit(b, "budget_consumed", Released(b["budget_consumed"], upTo))

(* Mutant: the promotion's part of a refund is not booked.                 *)
MutRefundBuyerOnly(b, refund) ==
  LET mine == BuyerShare(refund, terms.amount, terms.discount)
  IN  releaseBudget(credit(debit(b, "Escrow", refund), "BuyerRefund", mine), mine)

bookRefund(b, refund) ==
  IF refund <= 0 THEN b
  ELSE LET mine == BuyerShare(refund, terms.amount, terms.discount)
       IN  releaseBudget(
             credit(credit(debit(b, "Escrow", refund), "BuyerRefund", mine),
                    "PromotionRecovery", refund - mine), mine)

(* Mutant: ending an order returns the money but keeps the reservation.    *)
MutEndKeepsBudget(b) == bookRefund(b, IF b["Escrow"] < 0 THEN 0 ELSE b["Escrow"])

(* Ending an order returns whatever escrow still holds, never a negative   *)
(* amount, and then gives back all that is left of the reservation.        *)
endOrder(b) ==
  LET held == IF b["Escrow"] < 0 THEN 0 ELSE b["Escrow"]
  IN  releaseBudget(bookRefund(b, held), 0)

(* Mutant: an ended order leaves its money in escrow.                      *)
MutStrandEscrow(b, to) == IF to \in Ended THEN releaseBudget(b, 0) ELSE b

(* applyOrderTransition's effect on the books.                             *)
booksAfter(b, to) == IF to \in Ended THEN endOrder(b) ELSE b

bookSettlement(b, fee, net) ==
  credit(credit(debit(b, "Escrow", fee + net), "PlatformRevenue", fee),
         "SellerPayable", net)

(* A settlement that was paid out cannot be unwound.                       *)
MutUnwindPaid == TRUE
Unwindable == settlement.state # "completed"

unwindSettlement(b) ==
  IF settlement.state \in Live
    THEN credit(debit(debit(b, "PlatformRevenue", settlement.fee),
                      "SellerPayable", settlement.net),
                "Escrow", settlement.fee + settlement.net)
    ELSE b

bookPayment(b) ==
  credit(debit(debit(b, "BuyerPayment", ToPay), "PromotionExpense", terms.discount),
         "Escrow", Amount)

bookPayout(b) ==
  credit(debit(b, "SellerPayable", settlement.net), "SellerPayout", settlement.net)

Settled(gross, rate) ==
  LET fee == PlatformFee(gross, rate)
  IN  [state |-> "scheduled", fee |-> fee, net |-> gross - fee]

(* The order row: new state, updated_at = now().                           *)
moveTo(to) == state' = to /\ quiet' = FALSE
-----------------------------------------------------------------------------
(* Checkout leaves the order CREATED, its budget share reserved.           *)
Init ==
  /\ terms \in Terms
  /\ state = "CREATED"
  /\ books = [c \in Columns |-> IF c = "budget_consumed" /\ terms.budgeted
                                  THEN ToPay ELSE 0]
  /\ settlement = NoSettlement
  /\ dispute = "none"
  /\ payments = {}
  /\ revisions = 0
  /\ rounds = 0
  /\ reviewed = FALSE
  /\ quiet = FALSE
  /\ plan = [w \in Workers |-> "idle"]

(* Mutant: any order can be paid as long as the key is new.                *)
MutPayInAnyState(key) ==
  /\ key \notin payments
  /\ payments' = payments \cup {key}
  /\ books' = bookPayment(books)
  /\ moveTo("READY")
  /\ UNCHANGED <<terms, settlement, dispute, revisions, rounds, reviewed, plan>>

(* payOrder with a key not yet captured for this order (a known key is a   *)
(* replay and changes nothing).  It passes PAYMENT_PENDING and PAID and    *)
(* commits in READY.                                                       *)
payOrder(key) ==
  /\ key \notin payments
  /\ state \in {"CREATED", "PAYMENT_PENDING"}
  /\ Postable({ToPay, terms.discount, Amount}, ToPay + terms.discount, Amount)
  /\ payments' = payments \cup {key}
  /\ books' = bookPayment(books)
  /\ moveTo("READY")
  /\ UNCHANGED <<terms, settlement, dispute, revisions, rounds, reviewed, plan>>

(* acceptAndSettle: the purchase confirmation every accepting path runs.   *)
acceptAndSettle ==
  \E rate \in FeeRates :
    LET s == Settled(Amount, rate)
    IN  /\ settlement.state = "none"
        /\ Postable({Amount, s.fee, s.net}, Amount, s.fee + s.net)
        /\ settlement' = s
        /\ books' = bookSettlement(books, s.fee, s.net)
        /\ moveTo("ACCEPTED")
        /\ UNCHANGED <<terms, dispute, payments, revisions, rounds, reviewed>>

(* What each side may request.  orders.manage may request anything, and    *)
(* OperatorMoves is what its holders do request.  A buyer may also finish  *)
(* a requested cancellation once the deadline plus its grace has passed.   *)
BuyerTargets == {"PAYMENT_PENDING", "CANCEL_REQUESTED", "ACCEPTED", "REVISION_REQUESTED"}
SellerTargets == {"READY", "IN_PROGRESS", "DELIVERED"}

canTransition(who, to, overdue) ==
  CASE who = "buyer" -> \/ to \in BuyerTargets
                        \/ overdue /\ state = "CANCEL_REQUESTED" /\ to = "CANCELLED"
    [] who = "seller" -> to \in SellerTargets
    [] who = "operator" -> <<state, to>> \in OperatorMoves

transitionOrder(who, to, overdue) ==
  /\ <<state, to>> \in orderTransitions
  /\ canTransition(who, to, overdue)
  /\ ~(state = "DISPUTED" /\ to = "COMPLETED")
  /\ \/ /\ to = "ACCEPTED"
        /\ acceptAndSettle
     \/ /\ to # "ACCEPTED"
        /\ to = "REVISION_REQUESTED" => rounds < MaxRounds
        /\ rounds' = IF to = "REVISION_REQUESTED" THEN rounds + 1 ELSE rounds
        /\ books' = booksAfter(books, to)
        /\ moveTo(to)
        /\ UNCHANGED <<terms, settlement, dispute, payments, revisions, reviewed>>
  /\ UNCHANGED plan

createDelivery ==
  /\ state \in {"IN_PROGRESS", "REVISION_REQUESTED"}
  /\ moveTo("DELIVERED")
  /\ UNCHANGED <<terms, books, settlement, dispute, payments, revisions, rounds,
                 reviewed, plan>>

createRevision ==
  LET limit == RevisionLimit(IncludedRevisions, CeilingRevisions)
  IN  /\ state = "DELIVERED"
      /\ ~(limit > 0 /\ revisions + 1 > limit)
      /\ rounds < MaxRounds
      /\ revisions' = revisions + 1
      /\ rounds' = rounds + 1
      /\ moveTo("REVISION_REQUESTED")
      /\ UNCHANGED <<terms, books, settlement, dispute, payments, reviewed, plan>>

(* Mutant: the confirmation moves the state and books nothing.             *)
MutAcceptStateOnly ==
  /\ state = "DELIVERED"
  /\ moveTo("ACCEPTED")
  /\ UNCHANGED <<terms, books, settlement, dispute, payments, revisions, rounds,
                 reviewed, plan>>

acceptOrder ==
  /\ state = "DELIVERED"
  /\ acceptAndSettle
  /\ UNCHANGED plan

createReview ==
  /\ state \in {"ACCEPTED", "COMPLETED"}
  /\ ~reviewed
  /\ reviewed' = TRUE
  /\ IF state = "ACCEPTED" THEN moveTo("COMPLETED") ELSE UNCHANGED order
  /\ UNCHANGED <<terms, books, settlement, dispute, payments, revisions, rounds, plan>>

(* The submit_requirement tool writes the order row itself: updated_at     *)
(* moves, and REQUIREMENT_PENDING becomes READY.                           *)
submitRequirement ==
  /\ state \in {"CREATED", "PAID", "REQUIREMENT_PENDING"}
  /\ state' = IF state = "REQUIREMENT_PENDING" THEN "READY" ELSE state
  /\ quiet' = FALSE
  /\ UNCHANGED <<terms, books, settlement, dispute, payments, revisions, rounds,
                 reviewed, plan>>
-----------------------------------------------------------------------------
openDispute ==
  /\ <<state, "DISPUTED">> \in orderTransitions
  /\ dispute # "open"
  /\ dispute' = "open"
  /\ settlement' = IF settlement.state \in Pending
                     THEN [settlement EXCEPT !.state = "hold"] ELSE settlement
  /\ moveTo("DISPUTED")
  /\ UNCHANGED <<terms, books, payments, revisions, rounds, reviewed, plan>>

(* The three outcomes as the amount they refund.                           *)
Refunds == {0, Amount} \cup {r \in PartialRefunds : 0 < r /\ r < Amount}

resolveDispute(refund, rate) ==
  LET remaining == Amount - refund
      s == Settled(remaining, rate)
      mine == BuyerShare(refund, terms.amount, terms.discount)
      refunded == bookRefund(unwindSettlement(books), refund)
      to == IF refund = Amount THEN "REFUNDED" ELSE "COMPLETED"
  IN  /\ dispute = "open"
      /\ state = "DISPUTED"
      /\ Unwindable
      /\ Postable({refund, mine, refund - mine}, refund, refund)
      /\ dispute' = "resolved"
      /\ IF remaining > 0
           THEN /\ Postable({remaining, s.fee, s.net}, remaining, s.fee + s.net)
                /\ settlement' = s
                /\ books' = booksAfter(bookSettlement(refunded, s.fee, s.net), to)
           ELSE /\ settlement' = IF settlement.state \in Live
                                   THEN [settlement EXCEPT !.state = "cancelled"]
                                   ELSE settlement
                /\ books' = booksAfter(refunded, to)
      /\ moveTo(to)
      /\ UNCHANGED <<terms, payments, revisions, rounds, reviewed, plan>>

(* settlementAction: hold, release and complete.  None looks at the order. *)
holdSettlement ==
  /\ settlement.state \in Pending
  /\ settlement' = [settlement EXCEPT !.state = "hold"]
  /\ UNCHANGED <<terms, order, books, dispute, payments, revisions, rounds, reviewed, plan>>

releaseSettlement ==
  /\ settlement.state = "hold"
  /\ settlement' = [settlement EXCEPT !.state = "scheduled"]
  /\ UNCHANGED <<terms, order, books, dispute, payments, revisions, rounds, reviewed, plan>>

(* Mutants: a settlement is paid without its ledger entry; one that was    *)
(* already completed is paid again.                                        *)
MutPayUnbooked ==
  /\ settlement.state \in Pending
  /\ settlement' = [settlement EXCEPT !.state = "completed"]
  /\ UNCHANGED <<terms, order, books, dispute, payments, revisions, rounds, reviewed, plan>>

MutPayAgain ==
  /\ settlement.state \in Pending \cup {"completed"}
  /\ settlement' = [settlement EXCEPT !.state = "completed"]
  /\ books' = bookPayout(books)
  /\ UNCHANGED <<terms, order, dispute, payments, revisions, rounds, reviewed, plan>>

completeSettlement ==
  /\ settlement.state \in Pending
  /\ settlement' = [settlement EXCEPT !.state = "completed"]
  /\ books' = bookPayout(books)
  /\ UNCHANGED <<terms, order, dispute, payments, revisions, rounds, reviewed, plan>>
-----------------------------------------------------------------------------
(* The scans read without a lock and leave a plan behind.                  *)
Scanned(w, seen) ==
  /\ plan[w] = "idle"
  /\ plan' = [plan EXCEPT ![w] = seen]
  /\ UNCHANGED <<terms, order, books, settlement, dispute, payments, revisions,
                 rounds, reviewed>>

(* Mutants: the scan forgets its state filter; it forgets PAYMENT_PENDING. *)
MutScanAnyState(w) == ExpiryOn /\ Scanned(w, state)
MutScanCreatedOnly(w) == ExpiryOn /\ state = "CREATED" /\ Scanned(w, state)

expireUnpaidOrders(w) ==
  /\ ExpiryOn
  /\ state \in {"CREATED", "PAYMENT_PENDING"}
  /\ Scanned(w, state)

(* Mutant: the age comparison is turned around.                            *)
MutScanFresh(w) ==
  /\ AutoAcceptOn
  /\ state = "DELIVERED"
  /\ ~quiet
  /\ dispute # "open"
  /\ Scanned(w, "DELIVERED")

autoAcceptDeliveries(w) ==
  /\ AutoAcceptOn
  /\ state = "DELIVERED"
  /\ quiet
  /\ dispute # "open"
  /\ Scanned(w, "DELIVERED")

processDueSettlements(w) ==
  /\ settlement.state = "scheduled"
  /\ \/ Scanned(w, "hold")
     \/ BatchOn /\ Scanned(w, "confirm")

Done(w) == plan' = [plan EXCEPT ![w] = "idle"]

(* Mutant: the expiry trusts the scan.                                     *)
MutExpireUnchecked(w) ==
  /\ plan[w] \in {"CREATED", "PAYMENT_PENDING"}
  /\ Done(w)
  /\ books' = booksAfter(books, "CANCELLED")
  /\ moveTo("CANCELLED")
  /\ UNCHANGED <<terms, settlement, dispute, payments, revisions, rounds, reviewed>>

(* expireOrder re-reads the state under the lock and gives up if the order *)
(* is no longer where the scan saw it.                                     *)
expireOrder(w) ==
  /\ plan[w] \in {"CREATED", "PAYMENT_PENDING"}
  /\ Done(w)
  /\ IF state = plan[w]
       THEN books' = booksAfter(books, "CANCELLED") /\ moveTo("CANCELLED")
       ELSE UNCHANGED <<books, order>>
  /\ UNCHANGED <<terms, settlement, dispute, payments, revisions, rounds, reviewed>>

(* Mutant: the confirmation trusts the scan.                               *)
MutAcceptUnchecked(w) == plan[w] = "DELIVERED" /\ Done(w) /\ acceptAndSettle

(* autoAccept re-reads only the state: updated_at is fetched and not used. *)
autoAccept(w) ==
  /\ plan[w] = "DELIVERED"
  /\ Done(w)
  /\ \/ state = "DELIVERED" /\ acceptAndSettle
     \/ /\ state # "DELIVERED"
        /\ UNCHANGED <<terms, order, books, settlement, dispute, payments,
                       revisions, rounds, reviewed>>

(* Mutant: only holds are written, a confirmation is lost.                 *)
MutDecideHoldsOnly(w) ==
  /\ plan[w] \in {"confirm", "hold"}
  /\ Done(w)
  /\ settlement' = IF settlement.state = "scheduled" /\ plan[w] = "hold"
                     THEN [settlement EXCEPT !.state = "hold"] ELSE settlement
  /\ UNCHANGED <<terms, order, books, dispute, payments, revisions, rounds, reviewed>>

applySettlementDecision(w) ==
  /\ plan[w] \in {"confirm", "hold"}
  /\ Done(w)
  /\ settlement' = IF settlement.state = "scheduled"
                     THEN [settlement EXCEPT !.state =
                             IF plan[w] = "hold" THEN "hold" ELSE "confirmed"]
                     ELSE settlement
  /\ UNCHANGED <<terms, order, books, dispute, payments, revisions, rounds, reviewed>>

(* A failed transaction is logged and skipped, and a stopping process      *)
(* drops what it had scanned.                                              *)
dropPlan(w) ==
  /\ plan[w] # "idle"
  /\ Done(w)
  /\ UNCHANGED <<terms, order, books, settlement, dispute, payments, revisions,
                 rounds, reviewed>>

(* auto_accept_days pass without the order row being touched; only the     *)
(* scan of deliveries looks at that age.                                   *)
agePasses ==
  /\ state = "DELIVERED"
  /\ ~quiet
  /\ quiet' = TRUE
  /\ UNCHANGED <<terms, state, books, settlement, dispute, payments,
                 revisions, rounds, reviewed, plan>>
-----------------------------------------------------------------------------
Request ==
  \/ \E key \in Keys : payOrder(key)
  \/ \E who \in {"buyer", "seller", "operator"}, to \in OrderStates,
        overdue \in BOOLEAN : transitionOrder(who, to, overdue)
  \/ createDelivery
  \/ createRevision
  \/ acceptOrder
  \/ createReview
  \/ submitRequirement
  \/ openDispute
  \/ \E refund \in Refunds, rate \in FeeRates : resolveDispute(refund, rate)
  \/ holdSettlement
  \/ releaseSettlement
  \/ completeSettlement

Scan(w) == expireUnpaidOrders(w) \/ autoAcceptDeliveries(w) \/ processDueSettlements(w)
Act(w) == expireOrder(w) \/ autoAccept(w) \/ applySettlementDecision(w)

Next == Request \/ agePasses \/ \E w \in Workers : Scan(w) \/ Act(w) \/ dropPlan(w)

Spec == Init /\ [][Next]_vars

(* The dispatcher's ticker runs the scans for ever and a transaction that  *)
(* is tried again and again does not fail every time; time passes.  Nobody *)
(* is obliged to send a request.                                           *)
Fairness ==
  /\ WF_vars(agePasses)
  /\ \A w \in Workers : SF_vars(Scan(w)) /\ SF_vars(Act(w))

FairSpec == Spec /\ Fairness
-----------------------------------------------------------------------------
(* Properties that hold whatever operators request by hand.                *)

(* Every ledger transaction balances, so the order's eight accounts sum to *)
(* zero in every state (writeLedger; docs/architecture.md, "분쟁과 환불").  *)
Total(b) ==
  b["Escrow"] + b["BuyerPayment"] + b["PromotionExpense"] + b["BuyerRefund"]
    + b["PromotionRecovery"] + b["PlatformRevenue"] + b["SellerPayable"]
    + b["SellerPayout"]

LedgerCloses == Total(books) = 0

(* The settlement row and the ledger say the same thing: the fee is        *)
(* revenue while the settlement stands, the net amount is payable until it *)
(* is paid and paid out afterwards, and a cancelled one left no trace.     *)
SettlementOnBooks ==
  /\ books["PlatformRevenue"] =
       IF settlement.state \in Live \cup {"completed"} THEN settlement.fee ELSE 0
  /\ books["SellerPayable"] = IF settlement.state \in Live THEN settlement.net ELSE 0
  /\ books["SellerPayout"] = IF settlement.state = "completed" THEN settlement.net ELSE 0

(* However many clients retry the payment, with the same key or with other *)
(* keys, one payment is captured and the buyer is charged once (payOrder). *)
CapturedOnce ==
  /\ Cardinality(payments) <= 1
  /\ books["BuyerPayment"] = IF payments = {} THEN 0 ELSE -ToPay
  /\ books["PromotionExpense"] = IF payments = {} THEN 0 ELSE -terms.discount

Cash(b) == [a \in Accounts |-> b[a]]

(* Once the seller has been paid out nothing reverses it: the settlement   *)
(* stays completed and no account of the order moves again                 *)
(* (unwindSettlement refuses, settlementAction no longer applies).         *)
PayoutIsFinal ==
  [][settlement.state = "completed"
       => settlement' = settlement /\ Cash(books') = Cash(books)]_vars

(* Every way an order moves - the generic endpoint, the dedicated          *)
(* handlers, the dispute decision, the agent tool and the workers acting   *)
(* on an old scan - follows orderTransitions; payment takes three moves.   *)
MovesAreAllowed ==
  [][state' # state => \/ <<state, state'>> \in orderTransitions
                       \/ /\ state \in {"CREATED", "PAYMENT_PENDING"}
                          /\ state' = "READY"
                          /\ payments' # payments]_vars
-----------------------------------------------------------------------------
(* Two moves of the table that orders.manage may request by hand bypass    *)
(* the handlers that keep the money: PAYMENT_PENDING to PAID captures no   *)
(* payment, and DISPUTED to REFUNDED, once the order was confirmed, leaves *)
(* the settlement standing.  What follows holds although operators make    *)
(* both; it says of the orders they leave behind only what is true of them.*)

(* The moves left when payment and disputes are left to their handlers.    *)
WorkflowMoves ==
  {m \in orderTransitions :
     m # <<"PAYMENT_PENDING", "PAID">> /\ "DISPUTED" \notin {m[1], m[2]}}

InWork == {"PAID", "REQUIREMENT_PENDING", "READY", "IN_PROGRESS", "DELIVERED",
           "REVISION_REQUESTED", "CANCEL_REQUESTED"}
Confirmed == {"ACCEPTED", "COMPLETED"}

(* A payment was captured: the order was not marked PAID by hand.          *)
Funded == payments # {}

(* An operator moved a confirmed order from DISPUTED to REFUNDED by hand:  *)
(* its settlement stands and no dispute was decided.                       *)
ClosedByHand ==
  state = "REFUNDED" /\ dispute # "resolved" /\ settlement.state # "none"

(* Escrow covers the whole of a funded order while it is being worked on,  *)
(* and holds nothing of it once it is confirmed or ended, whichever path   *)
(* led there, by hand or not (applyOrderTransition, acceptAndSettle).      *)
EscrowFollowsOrder ==
  Funded => /\ state \in InWork => books["Escrow"] = Amount
            /\ state \in Confirmed \cup Ended => books["Escrow"] = 0

(* A funded order that was cancelled or refunded gave the buyer back       *)
(* exactly what the buyer paid and the promotion what it paid, and no      *)
(* settlement of it can still be paid to the seller - unless an operator   *)
(* closed it by hand after its confirmation (bookRefund, unwindSettlement).*)
EndedMeansRepaid ==
  state \in Ended /\ Funded /\ ~ClosedByHand =>
    /\ books["BuyerRefund"] = ToPay
    /\ books["PromotionRecovery"] = terms.discount
    /\ settlement.state \in {"none", "cancelled"}

(* A confirmed order owes or has paid the seller everything that was not   *)
(* refunded, less the fee: no path completes an order without settling it  *)
(* (acceptAndSettle, resolveDispute).                                      *)
ConfirmedMeansSettled ==
  state \in Confirmed =>
    /\ settlement.state \in Live \cup {"completed"}
    /\ settlement.fee + settlement.net
         = Amount - books["BuyerRefund"] - books["PromotionRecovery"]

(* The organization's reservation is whole until something is refunded,    *)
(* never counts money the buyer got back, and is gone when the order ends  *)
(* (releaseBudget).                                                        *)
BudgetTracksSpend ==
  terms.budgeted =>
    /\ books["budget_consumed"] >= 0
    /\ books["budget_consumed"] + books["BuyerRefund"] <= ToPay
    /\ state \in Ended => books["budget_consumed"] = 0
    /\ books["BuyerRefund"] + books["PromotionRecovery"] = 0 /\ state \notin Ended
         => books["budget_consumed"] = ToPay

(* Nothing touches the money of an order that was cancelled or refunded -  *)
(* no late payment, settlement decision or worker acts on it - unless an   *)
(* operator closed it by hand after its confirmation.                      *)
EndedIsFinal ==
  [][~ClosedByHand /\ state \in Ended
       => state' = state /\ books' = books /\ settlement' = settlement]_vars

(* What the detailed order promises, seen from the money that was captured *)
(* for it; an order marked PAID by hand stays an open promise.             *)
Stage ==
  IF ~Funded THEN "open"
  ELSE IF settlement.state = "completed" THEN "paid"
  ELSE IF state \in InWork \/ (state = "DISPUTED" /\ settlement.state = "none")
    THEN "held" ELSE "divided"

Captured(n) == IF Funded THEN n ELSE 0

Promise == INSTANCE EscrowPromise WITH
  Amounts <- {t.amount : t \in Terms},
  amount <- terms.amount,
  stage <- Stage,
  escrow <- Captured(books["Escrow"]),
  returned <- Captured(books["BuyerRefund"] + books["PromotionRecovery"]),
  fee <- Captured(books["PlatformRevenue"]),
  due <- Captured(books["SellerPayable"]),
  paid <- Captured(books["SellerPayout"])

(* Every order whose payment was captured implements the promise, with     *)
(* every handler, worker and move by hand.                                 *)
PromiseKept == Promise!Spec
-----------------------------------------------------------------------------
(* An order nobody pays for ends, although payment, the buyer's own moves  *)
(* and other workers race the expiry (expireUnpaidOrders, expireOrder).    *)
UnpaidOrdersEnd ==
  ExpiryOn => (state \in {"CREATED", "PAYMENT_PENDING"}
                 ~> state \notin {"CREATED", "PAYMENT_PENDING"})

(* A buyer's silence does not keep the seller waiting: a delivered order   *)
(* leaves DELIVERED (autoAcceptDeliveries, autoAccept).                    *)
DeliveriesAreAnswered == AutoAcceptOn => (state = "DELIVERED" ~> state # "DELIVERED")

(* A due settlement is decided, whatever holds and releases happen between *)
(* the scan and the decision (processDueSettlements).                      *)
DueSettlementsDecided ==
  BatchOn => (settlement.state = "scheduled" ~> settlement.state # "scheduled")
-----------------------------------------------------------------------------
(* Claims of the documentation that the code does not keep.                *)

(* "검토 중에는 돈이 움직이지 않습니다": no account of an order moves while its *)
(* dispute is under review.                                                *)
ReviewFreezesMoney ==
  [][state = "DISPUTED" /\ state' = "DISPUTED" => Cash(books') = Cash(books)]_vars

(* "Escrow 계정 잔액도 0으로 닫힙니다": a finished order leaves no balance in   *)
(* escrow, whatever path it took.                                          *)
EscrowAlwaysCloses == state \in Confirmed \cup Ended => books["Escrow"] = 0

(* "분쟁 중인 주문의 종료는 일반 전이에서 거부하고": the generic endpoint closes *)
(* no disputed order whose seller is already owed the money.               *)
NoneClosedByHand == ~ClosedByHand

(* "부분 환불에서는 구매자가 실제로 돌려받은 금액만 반환": a completed order's *)
(* reservation shrank by exactly what the buyer got back.                  *)
BudgetReleasesWhatReturned ==
  terms.budgeted /\ state = "COMPLETED" => books["budget_consumed"] = ToPay - books["BuyerRefund"]

(* "포함된 횟수를 넘기면 거부하고": an order never goes through more revision  *)
(* rounds than the product includes and the platform allows.               *)
RevisionLimitHolds ==
  LET limit == RevisionLimit(IncludedRevisions, CeilingRevisions)
  IN  limit > 0 => rounds <= limit

(* "그 기간 동안 반응이 없는 DELIVERED 주문을 구매확정": a worker confirms only *)
(* an order that has not been touched for auto_accept_days.                *)
OnlySilenceConfirms ==
  [][\A w \in Workers :
       plan[w] = "DELIVERED" /\ plan'[w] = "idle" /\ state' # state => quiet]_vars
=============================================================================
