-------------------------- MODULE OrderEscrowProofs --------------------------
(* Theorems about OrderEscrow, for every value of its constants.           *)
EXTENDS OrderEscrow, TLAPS, FiniteSetTheorems

(* A percentage of an amount lies between zero and the amount.             *)
LEMMA FeeBounds ==
  ASSUME NEW gross \in Nat, NEW rate \in 0..100
  PROVE  PlatformFee(gross, rate) \in 0..gross
<1>1. gross * rate \in Nat
  OBVIOUS
<1>2. gross * rate <= gross * 100
  OBVIOUS
<1>3. QED
  BY <1>1, <1>2 DEF PlatformFee

(* The buyer's share of a refund lies between zero and the refund, and the *)
(* share of a full refund is what the buyer paid.                          *)
LEMMA ShareBounds ==
  ASSUME NEW amount \in Nat, NEW discount \in 0..amount, NEW refund \in Nat
  PROVE  /\ BuyerShare(refund, amount, discount) \in 0..refund
         /\ refund <= amount
              => BuyerShare(refund, amount, discount) <= Payable(amount, discount)
         /\ BuyerShare(amount, amount, discount) = Payable(amount, discount)
<1>1. CASE discount > 0 /\ amount > 0
  <2> DEFINE p == amount - discount
  <2>1. p \in 0..amount
    OBVIOUS
  <2>2. refund * p \in Nat /\ refund * p <= refund * amount
    BY <2>1
  <2>3. (refund * p) \div amount \in 0..refund
    BY <2>2, <1>1
  <2>4. refund <= amount => refund * p <= p * amount
    BY <2>1
  <2>5. refund <= amount => (refund * p) \div amount <= p
    BY <2>4, <2>2, <2>1, <1>1
  <2>6. (amount * p) \div amount = p
    BY <2>1, <1>1
  <2>7. QED
    BY <1>1, <2>3, <2>5, <2>6 DEF BuyerShare, Payable
<1>2. CASE ~(discount > 0 /\ amount > 0)
  BY <1>2 DEF BuyerShare, Payable
<1>3. QED
  BY <1>1, <1>2

(* With integers up to W, the greatest int64 in the code, and root the     *)
(* whole part of its square root: the product from which the buyer's share *)
(* is divided (bookRefund) and the product of the fee fit for every refund *)
(* of every order of at most root won, and the full refund of an order of  *)
(* two won more, with a discount of one, does not.                         *)
THEOREM SharesFit ==
  ASSUME NEW W \in Nat, NEW root \in Nat,
         root * root <= W, W < (root + 1) * (root + 1), 100 <= root
  PROVE  /\ \A amount \in 0..root : \A discount, refund \in 0..amount :
              refund * Payable(amount, discount) \in 0..W
         /\ \A amount \in 0..root, rate \in 0..100 : amount * rate \in 0..W
         /\ (root + 2) * Payable(root + 2, 1) > W
<1>1. ASSUME NEW m \in 0..root, NEW n \in 0..root
      PROVE  m * n \in 0..W
  <2>1. m * n \in Nat /\ m * n <= m * root
    OBVIOUS
  <2>2. m * root \in Nat /\ m * root <= root * root /\ root * root \in Nat
    OBVIOUS
  <2> QED BY <2>1, <2>2
<1>2. ASSUME NEW amount \in 0..root, NEW discount \in 0..amount, NEW refund \in 0..amount
      PROVE  refund * Payable(amount, discount) \in 0..W
  <2>1. refund \in 0..root /\ amount - discount \in 0..root
    OBVIOUS
  <2> QED BY <1>1, <2>1 DEF Payable
<1>3. ASSUME NEW amount \in 0..root, NEW rate \in 0..100
      PROVE  amount * rate \in 0..W
  <2>1. rate \in 0..root
    OBVIOUS
  <2> QED BY <1>1, <2>1
<1>4. (root + 2) * Payable(root + 2, 1) > W
  <2>1. (root + 1) * (root + 1) \in Nat /\ (root + 2) * (root + 1) \in Nat
        /\ (root + 2) * (root + 1) = (root + 1) * (root + 1) + (root + 1)
    OBVIOUS
  <2>2. Payable(root + 2, 1) = root + 1
    BY DEF Payable
  <2> QED BY <2>1, <2>2
<1> QED BY <1>2, <1>3, <1>4
-----------------------------------------------------------------------------
(* What the helpers post to the books.                                     *)

(* The columns, one by one.                                                *)
LEMMA ColumnNames ==
  /\ "Escrow" \in Columns
  /\ "BuyerPayment" \in Columns
  /\ "PromotionExpense" \in Columns
  /\ "BuyerRefund" \in Columns
  /\ "PromotionRecovery" \in Columns
  /\ "PlatformRevenue" \in Columns
  /\ "SellerPayable" \in Columns
  /\ "SellerPayout" \in Columns
  /\ "budget_consumed" \in Columns
  BY DEF Columns, Accounts

(* An order's terms, field by field.                                       *)
LEMMA TermsType ==
  ASSUME NEW t \in Terms
  PROVE  /\ t.amount \in Nat
         /\ t.discount \in 0..t.amount
         /\ Payable(t.amount, t.discount) \in Nat
  BY TermsAssumption DEF Payable

(* The books after are well formed and differ from the books before by the *)
(* given amounts, in the order of Accounts.                                *)
Posts(b, after, escrow, payment, expense, refund, recovery, revenue, payable, payout) ==
  /\ after \in [Columns -> Int]
  /\ after["Escrow"] = b["Escrow"] + escrow
  /\ after["BuyerPayment"] = b["BuyerPayment"] + payment
  /\ after["PromotionExpense"] = b["PromotionExpense"] + expense
  /\ after["BuyerRefund"] = b["BuyerRefund"] + refund
  /\ after["PromotionRecovery"] = b["PromotionRecovery"] + recovery
  /\ after["PlatformRevenue"] = b["PlatformRevenue"] + revenue
  /\ after["SellerPayable"] = b["SellerPayable"] + payable
  /\ after["SellerPayout"] = b["SellerPayout"] + payout

(* A budget release posts nothing to the accounts.                         *)
LEMMA ReleasePosts ==
  ASSUME NEW b \in [Columns -> Int], NEW upTo \in Int
  PROVE  Posts(b, releaseBudget(b, upTo), 0, 0, 0, 0, 0, 0, 0, 0)
  BY ColumnNames DEF Posts, releaseBudget, Released, debit

(* A refund moves its amount from escrow to the buyer and the promotion.   *)
LEMMA RefundPosts ==
  ASSUME terms \in Terms, NEW b \in [Columns -> Int], NEW refund \in Nat,
         NEW mine, mine = BuyerShare(refund, terms.amount, terms.discount)
  PROVE  /\ mine \in 0..refund
         /\ Posts(b, bookRefund(b, refund), -refund, 0, 0, mine, refund - mine, 0, 0, 0)
<1>1. mine \in 0..refund
  BY ShareBounds, TermsType
<1>2. CASE refund = 0
  BY <1>1, <1>2, ColumnNames DEF bookRefund, Posts
<1>3. CASE refund # 0
  BY <1>1, <1>3, ColumnNames
  DEF Posts, bookRefund, releaseBudget, Released, debit, credit
<1>4. QED
  BY <1>1, <1>2, <1>3

(* Ending an order refunds what escrow holds.                              *)
LEMMA EndPosts ==
  ASSUME terms \in Terms, NEW b \in [Columns -> Int], NEW held \in Nat,
         held = IF b["Escrow"] < 0 THEN 0 ELSE b["Escrow"],
         NEW mine, mine = BuyerShare(held, terms.amount, terms.discount)
  PROVE  /\ mine \in 0..held
         /\ Posts(b, endOrder(b), -held, 0, 0, mine, held - mine, 0, 0, 0)
<1>1. PICK r : r = bookRefund(b, held)
  OBVIOUS
<1>2. mine \in 0..held /\ Posts(b, r, -held, 0, 0, mine, held - mine, 0, 0, 0)
  BY <1>1, RefundPosts
<1>3. Posts(r, releaseBudget(r, 0), 0, 0, 0, 0, 0, 0, 0, 0)
  BY <1>2, ReleasePosts DEF Posts
<1>4. endOrder(b) = releaseBudget(r, 0)
  BY <1>1 DEF endOrder
<1>5. QED
  BY <1>2, <1>3, <1>4, ColumnNames DEF Posts

(* What any transition books: a refund of what escrow holds, or nothing.   *)
LEMMA TransitionPosts ==
  ASSUME terms \in Terms, NEW b \in [Columns -> Int], NEW to
  PROVE  \E held \in Nat : \E mine \in 0..held :
           /\ Posts(b, booksAfter(b, to), -held, 0, 0, mine, held - mine, 0, 0, 0)
           /\ to \notin Ended => held = 0 /\ booksAfter(b, to) = b
           /\ to \in Ended =>
                /\ held = IF b["Escrow"] < 0 THEN 0 ELSE b["Escrow"]
                /\ mine = BuyerShare(held, terms.amount, terms.discount)
<1>1. CASE to \in Ended
  <2>1. PICK held \in Nat : held = IF b["Escrow"] < 0 THEN 0 ELSE b["Escrow"]
    BY ColumnNames
  <2>2. PICK mine : mine = BuyerShare(held, terms.amount, terms.discount)
    OBVIOUS
  <2>3. QED
    BY <1>1, <2>1, <2>2, EndPosts DEF booksAfter
<1>2. CASE to \notin Ended
  <2>1. Posts(b, b, 0, 0, 0, 0, 0, 0, 0, 0)
    BY ColumnNames DEF Posts
  <2>2. booksAfter(b, to) = b
    BY <1>2 DEF booksAfter
  <2>3. WITNESS 0 \in Nat
  <2>4. WITNESS 0 \in 0..0
  <2>5. QED
    BY <1>2, <2>1, <2>2
<1>3. QED
  BY <1>1, <1>2

(* Capturing a payment, settling, unwinding a settlement and paying it.    *)
LEMMA PaymentPosts ==
  ASSUME terms \in Terms, NEW b \in [Columns -> Int]
  PROVE  Posts(b, bookPayment(b), Amount, -ToPay, -terms.discount, 0, 0, 0, 0, 0)
  BY ColumnNames, TermsType DEF Posts, bookPayment, debit, credit, Amount, ToPay

(* bookSettlement moves fee + net out of escrow and nothing else (acceptAndSettle). *)
LEMMA SettlementPosts ==
  ASSUME NEW b \in [Columns -> Int], NEW fee \in Int, NEW net \in Int
  PROVE  Posts(b, bookSettlement(b, fee, net), -(fee + net), 0, 0, 0, 0, fee, net, 0)
  BY ColumnNames DEF Posts, bookSettlement, debit, credit

(* unwindSettlement puts a live settlement back into escrow, column by column. *)
LEMMA UnwindPosts ==
  ASSUME NEW b \in [Columns -> Int], TypeOK, settlement.state \in Live
  PROVE  Posts(b, unwindSettlement(b), settlement.fee + settlement.net,
               0, 0, 0, 0, -settlement.fee, -settlement.net, 0)
  BY ColumnNames DEF Posts, unwindSettlement, debit, credit, TypeOK

(* bookPayout turns what is payable into what was paid (settlementAction complete). *)
LEMMA PayoutPosts ==
  ASSUME NEW b \in [Columns -> Int], TypeOK
  PROVE  Posts(b, bookPayout(b), 0, 0, 0, 0, 0, 0, -settlement.net, settlement.net)
  BY ColumnNames DEF Posts, bookPayout, debit, credit, TypeOK
-----------------------------------------------------------------------------
(* Type correctness.                                                       *)

(* A settlement of a whole amount is well formed and divides the amount.   *)
LEMMA SettledType ==
  ASSUME NEW gross \in Nat, NEW rate \in FeeRates
  PROVE  /\ Settled(gross, rate) \in [state : SettlementStates, fee : Nat, net : Nat]
         /\ Settled(gross, rate).state = "scheduled"
         /\ Settled(gross, rate).fee + Settled(gross, rate).net = gross
<1>1. PICK fee \in 0..gross : fee = PlatformFee(gross, rate)
  BY FeeBounds, FeeRatesAssumption
<1>2. Settled(gross, rate) = [state |-> "scheduled", fee |-> fee, net |-> gross - fee]
  BY <1>1 DEF Settled
<1>3. QED
  BY <1>1, <1>2 DEF SettlementStates, Live, Pending

(* The confirmation as one fact: a settlement of the whole amount, booked. *)
LEMMA AcceptEffect ==
  ASSUME TypeOK, acceptAndSettle
  PROVE  /\ settlement.state = "none"
         /\ settlement' \in [state : SettlementStates, fee : Nat, net : Nat]
         /\ settlement'.state = "scheduled"
         /\ settlement'.fee + settlement'.net = Amount
         /\ Posts(books, books', -Amount, 0, 0, 0, 0, settlement'.fee, settlement'.net, 0)
         /\ moveTo("ACCEPTED")
         /\ UNCHANGED <<terms, dispute, payments, revisions, rounds, reviewed>>
<1>1. PICK rate \in FeeRates :
        /\ settlement.state = "none"
        /\ settlement' = Settled(Amount, rate)
        /\ books' = bookSettlement(books, settlement'.fee, settlement'.net)
        /\ moveTo("ACCEPTED")
        /\ UNCHANGED <<terms, dispute, payments, revisions, rounds, reviewed>>
  BY DEF acceptAndSettle
<1>2. Amount \in Nat
  BY TermsType DEF TypeOK, Amount
<1>3. /\ settlement' \in [state : SettlementStates, fee : Nat, net : Nat]
      /\ settlement'.state = "scheduled"
      /\ settlement'.fee + settlement'.net = Amount
  BY <1>1, <1>2, SettledType
<1>4. Posts(books, books', -Amount, 0, 0, 0, 0, settlement'.fee, settlement'.net, 0)
  BY <1>1, <1>3, SettlementPosts DEF TypeOK
<1>5. QED
  BY <1>1, <1>3, <1>4

(* The two kinds of move the generic endpoint makes.                       *)
LEMMA TransitionEffect ==
  ASSUME TypeOK, NEW who, NEW to \in OrderStates, NEW overdue,
         transitionOrder(who, to, overdue)
  PROVE  /\ <<state, to>> \in orderTransitions
         /\ UNCHANGED plan
         /\ \/ to = "ACCEPTED" /\ acceptAndSettle
            \/ /\ to # "ACCEPTED"
               /\ books' = booksAfter(books, to)
               /\ rounds' \in 0..MaxRounds
               /\ moveTo(to)
               /\ UNCHANGED <<terms, settlement, dispute, payments, revisions, reviewed>>
  BY RevisionsAssumption DEF transitionOrder, TypeOK

(* What a standing settlement holds, and what unwinding it brings back.    *)
StandingFee == IF settlement.state \in Live THEN settlement.fee ELSE 0
StandingNet == IF settlement.state \in Live THEN settlement.net ELSE 0

(* A decision either refunds a part and settles the rest, or refunds all.  *)
PartRefunded(refund, mine) ==
  /\ refund < Amount
  /\ settlement'.state = "scheduled"
  /\ settlement'.fee + settlement'.net = Amount - refund
  /\ Posts(books, books', StandingFee + StandingNet - Amount, 0, 0, mine, refund - mine,
           settlement'.fee - StandingFee, settlement'.net - StandingNet, 0)
  /\ moveTo("COMPLETED")

AllRefunded(mine, held, extra) ==
  /\ settlement' = IF settlement.state \in Live
                     THEN [settlement EXCEPT !.state = "cancelled"] ELSE settlement
  /\ StandingFee + StandingNet + books["Escrow"] <= Amount => held = 0
  /\ Posts(books, books', StandingFee + StandingNet - Amount - held, 0, 0,
           mine + extra, (Amount - mine) + (held - extra),
           -StandingFee, -StandingNet, 0)
  /\ moveTo("REFUNDED")

(* What resolveDispute leaves behind, for each of its decisions. *)
LEMMA DecisionEffect ==
  ASSUME TypeOK, NEW refund \in Refunds, NEW rate \in FeeRates,
         resolveDispute(refund, rate)
  PROVE  /\ state = "DISPUTED"
         /\ dispute = "open"
         /\ dispute' = "resolved"
         /\ settlement.state # "completed"
         /\ UNCHANGED <<terms, payments, revisions, rounds, reviewed, plan>>
         /\ settlement' \in [state : SettlementStates, fee : Nat, net : Nat]
         /\ refund \in 0..Amount
         /\ moveTo("COMPLETED") \/ moveTo("REFUNDED")
         /\ books' \in [Columns -> Int]
         /\ \E mine \in 0..refund :
              /\ mine = BuyerShare(refund, terms.amount, terms.discount)
              /\ \/ PartRefunded(refund, mine)
                 \/ /\ refund = Amount
                    /\ \E held \in Nat : \E extra \in 0..held :
                         AllRefunded(mine, held, extra)
<1>1. Amount \in Nat /\ refund \in 0..Amount /\ Amount - refund \in Nat
  BY TermsType DEF TypeOK, Amount, Refunds
<1>2. PICK u : u = unwindSettlement(books)
  OBVIOUS
<1>3. Posts(books, u, StandingFee + StandingNet, 0, 0, 0, 0, -StandingFee, -StandingNet, 0)
  <2>1. CASE settlement.state \in Live
    BY <1>2, <2>1, UnwindPosts DEF TypeOK, StandingFee, StandingNet
  <2>2. CASE settlement.state \notin Live
    BY <1>2, <2>2, ColumnNames
    DEF unwindSettlement, Posts, TypeOK, StandingFee, StandingNet
  <2>3. QED
    BY <2>1, <2>2
<1>4. PICK mine : mine = BuyerShare(refund, terms.amount, terms.discount)
  OBVIOUS
<1>5. PICK r : r = bookRefund(u, refund)
  OBVIOUS
<1>6. /\ mine \in 0..refund
      /\ Posts(u, r, -refund, 0, 0, mine, refund - mine, 0, 0, 0)
  BY <1>1, <1>3, <1>4, <1>5, RefundPosts DEF Posts, TypeOK
<1>7. /\ StandingFee \in Nat
      /\ StandingNet \in Nat
      /\ Posts(books, r, StandingFee + StandingNet - refund, 0, 0, mine, refund - mine,
               -StandingFee, -StandingNet, 0)
  BY <1>1, <1>3, <1>6, ColumnNames DEF Posts, TypeOK, StandingFee, StandingNet
<1>8. CASE refund < Amount
  <2>1. PICK s : s = Settled(Amount - refund, rate)
    OBVIOUS
  <2>2. /\ s \in [state : SettlementStates, fee : Nat, net : Nat]
        /\ s.state = "scheduled"
        /\ s.fee + s.net = Amount - refund
    BY <1>1, <2>1, SettledType
  <2>3. /\ settlement' = s
        /\ books' = bookSettlement(r, s.fee, s.net)
        /\ moveTo("COMPLETED")
    BY <1>1, <1>2, <1>5, <1>8, <2>1 DEF resolveDispute, booksAfter, Ended
  <2>4. Posts(r, books', -(s.fee + s.net), 0, 0, 0, 0, s.fee, s.net, 0)
    BY <2>2, <2>3, <1>6, SettlementPosts DEF Posts
  <2>5. Posts(books, books', StandingFee + StandingNet - Amount, 0, 0, mine, refund - mine,
              settlement'.fee - StandingFee, settlement'.net - StandingNet, 0)
    BY <1>1, <1>6, <1>7, <2>2, <2>3, <2>4, ColumnNames DEF Posts, TypeOK
  <2>6. QED
    <3>1. PartRefunded(refund, mine)
      BY <1>8, <2>2, <2>3, <2>5 DEF PartRefunded
    <3>2. QED
      BY <1>1, <1>4, <1>6, <2>2, <2>3, <2>5, <3>1
      DEF resolveDispute, Unwindable, Posts
<1>9. CASE refund = Amount
  <2>1. /\ settlement' = IF settlement.state \in Live
                           THEN [settlement EXCEPT !.state = "cancelled"]
                           ELSE settlement
        /\ books' = endOrder(r)
        /\ moveTo("REFUNDED")
    BY <1>1, <1>2, <1>5, <1>9 DEF resolveDispute, booksAfter, Ended
  <2>2. PICK held \in Nat : held = IF r["Escrow"] < 0 THEN 0 ELSE r["Escrow"]
    BY <1>6, ColumnNames DEF Posts
  <2>3. PICK extra : extra = BuyerShare(held, terms.amount, terms.discount)
    OBVIOUS
  <2>4. /\ extra \in 0..held
        /\ Posts(r, books', -held, 0, 0, extra, held - extra, 0, 0, 0)
    BY <1>6, <2>1, <2>2, <2>3, EndPosts DEF Posts, TypeOK
  <2>5. Posts(books, books', StandingFee + StandingNet - Amount - held, 0, 0,
              mine + extra, (Amount - mine) + (held - extra),
              -StandingFee, -StandingNet, 0)
    BY <1>1, <1>6, <1>7, <1>9, <2>4, ColumnNames DEF Posts, TypeOK
  <2>6. StandingFee + StandingNet + books["Escrow"] <= Amount => held = 0
    <3>1. r["Escrow"] = books["Escrow"] + (StandingFee + StandingNet - Amount)
      BY <1>7, <1>9 DEF Posts
    <3>2. books["Escrow"] \in Int
      BY ColumnNames DEF TypeOK
    <3>3. QED
      BY <1>1, <1>7, <2>2, <3>1, <3>2
  <2>7. settlement' \in [state : SettlementStates, fee : Nat, net : Nat]
    BY <2>1 DEF TypeOK, SettlementStates
  <2>8. QED
    <3>1. AllRefunded(mine, held, extra)
      BY <2>1, <2>5, <2>6 DEF AllRefunded
    <3>2. QED
      BY <1>1, <1>4, <1>6, <1>9, <2>1, <2>4, <2>5, <2>7, <3>1
      DEF resolveDispute, Unwindable, Posts
<1>10. QED
  BY <1>1, <1>8, <1>9

(* An order starts well formed.                                            *)
LEMMA TypeInit == Init => TypeOK
<1> SUFFICES ASSUME Init
             PROVE  TypeOK
  OBVIOUS
<1>1. books \in [Columns -> Int]
  BY TermsType DEF Init, ToPay
<1>2. plan \in [Workers -> Plans]
  BY DEF Init, Plans
<1>3. settlement \in [state : SettlementStates, fee : Nat, net : Nat]
  BY DEF Init, NoSettlement, SettlementStates
<1>4. rounds \in 0..MaxRounds
  BY RevisionsAssumption DEF Init
<1>5. state \in OrderStates
  BY DEF Init, OrderStates
<1>6. QED
  BY <1>1, <1>2, <1>3, <1>4, <1>5 DEF Init, TypeOK

(* What each step does to the variables no action can make ill-typed on    *)
(* its own: the lemma every later invariant relies on.                     *)
LEMMA TypeStep == TypeOK /\ [Next]_vars => TypeOK'
<1> SUFFICES ASSUME TypeOK, [Next]_vars
             PROVE  TypeOK'
  OBVIOUS
<1> USE DEF moveTo, order
<1>1. ASSUME NEW key \in Keys, payOrder(key)
      PROVE  TypeOK'
  <2>1. books' \in [Columns -> Int]
    BY <1>1, PaymentPosts DEF TypeOK, payOrder, Posts
  <2>2. QED
    BY <1>1, <2>1 DEF TypeOK, payOrder, OrderStates
<1>2. ASSUME acceptAndSettle, plan' \in [Workers -> Plans]
      PROVE  TypeOK'
  BY <1>2, AcceptEffect DEF TypeOK, OrderStates, Posts
<1>3. ASSUME NEW who, NEW to \in OrderStates, NEW overdue,
             transitionOrder(who, to, overdue)
      PROVE  TypeOK'
  <2>1. CASE to = "ACCEPTED" /\ acceptAndSettle
    BY <2>1, <1>2, <1>3, TransitionEffect DEF TypeOK
  <2>2. CASE to # "ACCEPTED"
    <3>1. books' = booksAfter(books, to)
      BY <1>3, <2>2, TransitionEffect
    <3>2. books' \in [Columns -> Int]
      BY <3>1, TransitionPosts DEF TypeOK, Posts
    <3>3. QED
      BY <1>3, <2>2, <3>2, TransitionEffect DEF TypeOK
  <2>3. QED
    BY <1>3, <2>1, <2>2, TransitionEffect
<1>4. ASSUME createDelivery
      PROVE  TypeOK'
  BY <1>4 DEF TypeOK, createDelivery, OrderStates
<1>5. ASSUME createRevision
      PROVE  TypeOK'
  <2>1. rounds + 1 \in 0..MaxRounds /\ revisions + 1 \in Nat
    BY <1>5, RevisionsAssumption DEF TypeOK, createRevision
  <2>2. QED
    BY <1>5, <2>1 DEF TypeOK, createRevision, OrderStates
<1>6. ASSUME acceptOrder
      PROVE  TypeOK'
  BY <1>6, <1>2 DEF TypeOK, acceptOrder
<1>7. ASSUME createReview
      PROVE  TypeOK'
  BY <1>7 DEF TypeOK, createReview, OrderStates
<1>8. ASSUME submitRequirement
      PROVE  TypeOK'
  BY <1>8 DEF TypeOK, submitRequirement, OrderStates
<1>9. ASSUME openDispute
      PROVE  TypeOK'
  BY <1>9 DEF TypeOK, openDispute, OrderStates, SettlementStates, Live
<1>10. ASSUME NEW refund \in Refunds, NEW rate \in FeeRates, resolveDispute(refund, rate)
       PROVE  TypeOK'
  BY <1>10, DecisionEffect DEF TypeOK, OrderStates, Posts
<1>11. ASSUME holdSettlement \/ releaseSettlement
       PROVE  TypeOK'
  BY <1>11
  DEF TypeOK, holdSettlement, releaseSettlement, SettlementStates, Live, Pending
<1>12. ASSUME completeSettlement
       PROVE  TypeOK'
  <2>1. books' \in [Columns -> Int]
    BY <1>12, PayoutPosts DEF TypeOK, completeSettlement, Posts
  <2>2. QED
    BY <1>12, <2>1 DEF TypeOK, completeSettlement, SettlementStates
<1>13. ASSUME NEW w \in Workers, NEW seen \in Plans, Scanned(w, seen)
       PROVE  TypeOK'
  BY <1>13 DEF TypeOK, Scanned
<1>14. ASSUME NEW w \in Workers, Scan(w)
       PROVE  TypeOK'
  BY <1>13, <1>14
  DEF Scan, expireUnpaidOrders, autoAcceptDeliveries, processDueSettlements, Plans
<1>15. ASSUME NEW w \in Workers, expireOrder(w)
       PROVE  TypeOK'
  <2>1. books' \in [Columns -> Int]
    BY <1>15, TransitionPosts DEF TypeOK, expireOrder, Posts
  <2>2. QED
    BY <1>15, <2>1 DEF TypeOK, expireOrder, Done, OrderStates, Plans
<1>16. ASSUME NEW w \in Workers, autoAccept(w)
       PROVE  TypeOK'
  <2>1. plan' \in [Workers -> Plans]
    BY <1>16 DEF TypeOK, autoAccept, Done, Plans
  <2>2. QED
    BY <1>16, <1>2, <2>1 DEF TypeOK, autoAccept
<1>17. ASSUME NEW w \in Workers, applySettlementDecision(w)
       PROVE  TypeOK'
  BY <1>17
  DEF TypeOK, applySettlementDecision, Done, Plans, SettlementStates, Live, Pending
<1>18. ASSUME NEW w \in Workers, dropPlan(w)
       PROVE  TypeOK'
  BY <1>18 DEF TypeOK, dropPlan, Done, Plans
<1>19. ASSUME agePasses
       PROVE  TypeOK'
  BY <1>19 DEF TypeOK, agePasses
<1>20. CASE UNCHANGED vars
  BY <1>20 DEF TypeOK, vars
<1>21. QED
  BY <1>1, <1>3, <1>4, <1>5, <1>6, <1>7, <1>8, <1>9, <1>10, <1>11, <1>12, <1>14,
     <1>15, <1>16, <1>17, <1>18, <1>19, <1>20
  DEF Next, Request, Act

(* In every reachable state every variable is what its column, row or      *)
(* in-memory list can hold.                                                *)
THEOREM TypeCorrect == Spec => []TypeOK
<1>1. QED
  BY TypeInit, TypeStep, PTL DEF Spec
-----------------------------------------------------------------------------
(* Seen from the money, every step is one of eight kinds.                  *)

Pays == \E key \in Keys : payOrder(key)

Confirms == state = "DELIVERED" /\ acceptAndSettle

(* A transition that settles nothing: an end refunds what escrow holds.    *)
Moves ==
  /\ <<state, state'>> \in orderTransitions
  /\ <<state, state'>> \in WorkflowMoves \cup OperatorMoves
  /\ <<state, state'>> # <<"DISPUTED", "COMPLETED">>
  /\ state' # "ACCEPTED"
  /\ state' \in OrderStates
  /\ books' = booksAfter(books, state')
  /\ UNCHANGED <<terms, settlement, dispute, payments>>

Disputes ==
  /\ <<state, "DISPUTED">> \in orderTransitions
  /\ state' = "DISPUTED"
  /\ dispute' = "open"
  /\ settlement' = IF settlement.state \in Pending
                     THEN [settlement EXCEPT !.state = "hold"] ELSE settlement
  /\ UNCHANGED <<terms, books, payments>>

Decides == \E refund \in Refunds, rate \in FeeRates : resolveDispute(refund, rate)

(* The settlement is held, released or confirmed; nothing is posted.       *)
Adjusts ==
  /\ settlement.state \in Live
  /\ \E to \in Live : settlement' = [settlement EXCEPT !.state = to]
  /\ UNCHANGED <<terms, state, books, dispute, payments>>

Rests == UNCHANGED <<terms, state, books, settlement, dispute, payments>>

(* Every step is one of eight kinds, by what it does to the money (Next, handler by handler). *)
LEMMA StepKinds ==
  ASSUME TypeOK, [Next]_vars
  PROVE  Pays \/ Confirms \/ Moves \/ Disputes \/ Decides \/ Adjusts
           \/ completeSettlement \/ Rests
<1> USE DEF moveTo, order
<1>1. ASSUME NEW who \in {"buyer", "seller", "operator"}, NEW to \in OrderStates,
             NEW overdue \in BOOLEAN, transitionOrder(who, to, overdue)
      PROVE  Confirms \/ Moves
  <2>1. /\ <<state, to>> \in orderTransitions
        /\ <<state, to>> # <<"DISPUTED", "COMPLETED">>
    BY <1>1 DEF transitionOrder
  <2>2. CASE to = "ACCEPTED" /\ acceptAndSettle
    BY <2>1, <2>2 DEF Confirms, orderTransitions
  <2>3. CASE to # "ACCEPTED"
    <3>1. /\ books' = booksAfter(books, to)
          /\ state' = to
          /\ UNCHANGED <<terms, settlement, dispute, payments>>
      BY <1>1, <2>3, TransitionEffect
    <3>2. <<state, to>> \in WorkflowMoves \cup OperatorMoves
      <4>1. CASE who = "buyer"
        BY <1>1, <2>1, <2>3, <4>1
        DEF transitionOrder, canTransition, BuyerTargets, WorkflowMoves, orderTransitions
      <4>2. CASE who = "seller"
        BY <1>1, <2>1, <2>3, <4>2
        DEF transitionOrder, canTransition, SellerTargets, WorkflowMoves, orderTransitions
      <4>3. CASE who = "operator"
        BY <1>1, <4>3 DEF transitionOrder, canTransition
      <4>4. QED
        BY <1>1, <4>1, <4>2, <4>3
    <3>3. QED
      BY <2>1, <2>3, <3>1, <3>2 DEF Moves
  <2>4. QED
    BY <1>1, <2>2, <2>3, TransitionEffect
<1>2. ASSUME createDelivery \/ createRevision
      PROVE  Moves
  BY <1>2 DEF createDelivery, createRevision, Moves, booksAfter, Ended, WorkflowMoves,
              orderTransitions, OrderStates
<1>3. ASSUME createReview
      PROVE  Moves \/ Rests
  BY <1>3 DEF createReview, Moves, Rests, booksAfter, Ended, WorkflowMoves,
              orderTransitions, OrderStates
<1>4. ASSUME submitRequirement
      PROVE  Moves \/ Rests
  BY <1>4 DEF submitRequirement, Moves, Rests, booksAfter, Ended, WorkflowMoves,
              orderTransitions, OrderStates
<1>5. ASSUME NEW w \in Workers, expireOrder(w)
      PROVE  Moves \/ Rests
  BY <1>5 DEF expireOrder, Done, Moves, Rests, WorkflowMoves, orderTransitions, OrderStates
<1>6. ASSUME NEW w \in Workers, autoAccept(w)
      PROVE  Confirms \/ Rests
  BY <1>6 DEF autoAccept, Confirms, Rests
<1>7. ASSUME NEW w \in Workers, applySettlementDecision(w)
      PROVE  Adjusts \/ Rests
  BY <1>7 DEF applySettlementDecision, Adjusts, Rests, Live, Pending
<1>8. ASSUME holdSettlement \/ releaseSettlement
      PROVE  Adjusts
  BY <1>8 DEF holdSettlement, releaseSettlement, Adjusts, Live, Pending
<1>9. ASSUME NEW w \in Workers, Scan(w) \/ dropPlan(w)
      PROVE  Rests
  BY <1>9 DEF Scan, expireUnpaidOrders, autoAcceptDeliveries, processDueSettlements,
              Scanned, dropPlan, Rests
<1>10. ASSUME agePasses \/ UNCHANGED vars
       PROVE  Rests
  BY <1>10 DEF agePasses, Rests, vars
<1>11. ASSUME acceptOrder
       PROVE  Confirms
  BY <1>11 DEF acceptOrder, Confirms
<1>12. ASSUME openDispute
       PROVE  Disputes
  BY <1>12 DEF openDispute, Disputes
<1>13. QED
  BY <1>1, <1>2, <1>3, <1>4, <1>5, <1>6, <1>7, <1>8, <1>9, <1>10, <1>11, <1>12
  DEF Next, Request, Act, Pays, Decides
-----------------------------------------------------------------------------
(* The books, whatever operators request by hand.                          *)

Unpaid == {"CREATED", "PAYMENT_PENDING"}
Standing == Live \cup {"completed"}

(* Before the payment nothing was posted, and at most one key is captured. *)
PaidOnce ==
  /\ \A k, l \in payments : k = l
  /\ state \in Unpaid => payments = {} /\ books["Escrow"] = 0
  /\ books["BuyerPayment"] = IF payments = {} THEN 0 ELSE -ToPay
  /\ books["PromotionExpense"] = IF payments = {} THEN 0 ELSE -terms.discount

(* A settlement exists only once the order was confirmed or disputed, it   *)
(* divides at most the order's amount, and what it divided is no longer in *)
(* escrow: nothing is left there for a later end of the order to refund.   *)
SettledOnce ==
  /\ settlement.state # "none" => state \in Confirmed \cup {"DISPUTED", "REFUNDED"}
  /\ settlement.state \in Standing =>
       settlement.fee + settlement.net <= Amount /\ books["Escrow"] <= 0
  /\ books["Escrow"] <= Amount

(* The inductive invariant of the books.                                   *)
BooksInv == TypeOK /\ LedgerCloses /\ SettlementOnBooks /\ PaidOnce /\ SettledOnce

(* A fresh order satisfies the invariant on the books (createOrder). *)
LEMMA BooksInit == Init => BooksInv
<1> SUFFICES ASSUME Init
             PROVE  BooksInv
  OBVIOUS
<1>1. TypeOK /\ Amount \in Nat
  BY TypeInit, TermsType DEF TypeOK, Amount
<1>2. \A a \in Accounts : books[a] = 0
  BY DEF Init, Columns, Accounts
<1>3. QED
  BY <1>1, <1>2, ColumnNames
  DEF Init, BooksInv, LedgerCloses, Total, SettlementOnBooks, PaidOnce, SettledOnce,
      NoSettlement, Live, Pending, Standing, Accounts

(* Every step keeps the invariant on the books, one case per kind of step. *)
LEMMA BooksStep == BooksInv /\ [Next]_vars => BooksInv'
<1> SUFFICES ASSUME BooksInv, [Next]_vars
             PROVE  BooksInv'
  OBVIOUS
<1> USE DEF moveTo, order
<1>1. TypeOK /\ TypeOK'
  BY TypeStep DEF BooksInv
<1>2. /\ Amount \in Nat /\ terms.discount \in Nat /\ ToPay = Amount - terms.discount
      /\ \A c \in Columns : books[c] \in Int
      /\ settlement.fee \in Nat /\ settlement.net \in Nat
  BY <1>1, TermsType DEF TypeOK, Amount, ToPay, Payable
<1>3. CASE Pays
  <2>1. PICK key \in Keys : payOrder(key)
    BY <1>3 DEF Pays
  <2>2. Posts(books, books', Amount, -ToPay, -terms.discount, 0, 0, 0, 0, 0)
    BY <1>1, <2>1, PaymentPosts DEF payOrder, TypeOK
  <2>3. /\ payments = {} /\ payments' = {key} /\ state' = "READY"
        /\ books["Escrow"] = 0
        /\ settlement.state = "none"
        /\ UNCHANGED <<terms, settlement>>
    BY <2>1 DEF payOrder, BooksInv, PaidOnce, SettledOnce, Unpaid, Confirmed
  <2>4. LedgerCloses'
    BY <1>2, <2>2, ColumnNames DEF Posts, BooksInv, LedgerCloses, Total, ToPay
  <2>7. SettlementOnBooks'
    BY <1>2, <2>2, <2>3, ColumnNames
    DEF Posts, BooksInv, SettlementOnBooks, Live, Pending
  <2>5. PaidOnce' /\ SettledOnce'
    BY <1>2, <2>2, <2>3, ColumnNames
    DEF Posts, BooksInv, PaidOnce, SettledOnce, Amount, ToPay, Unpaid, Standing,
        Live, Pending
  <2>6. QED
    BY <1>1, <2>4, <2>5, <2>7 DEF BooksInv
<1>4. CASE Confirms
  <2>1. /\ state = "DELIVERED" /\ state' = "ACCEPTED"
        /\ settlement.state = "none"
        /\ settlement'.state = "scheduled"
        /\ settlement'.fee \in Nat /\ settlement'.net \in Nat
        /\ settlement'.fee + settlement'.net = Amount
        /\ Posts(books, books', -Amount, 0, 0, 0, 0, settlement'.fee, settlement'.net, 0)
        /\ UNCHANGED <<terms, payments>>
    BY <1>1, <1>4, AcceptEffect DEF Confirms
  <2>2. LedgerCloses'
    <3>1. PICK fee \in Nat, net \in Nat :
            /\ fee + net = Amount
            /\ Posts(books, books', -Amount, 0, 0, 0, 0, fee, net, 0)
      BY <2>1
    <3>2. Total(books') = Total(books) + (fee + net - Amount)
      BY <1>2, <3>1, ColumnNames DEF Posts, Total
    <3>3. Total(books) = 0
      BY DEF BooksInv, LedgerCloses
    <3>4. QED
      BY <1>2, <3>1, <3>2, <3>3 DEF LedgerCloses
  <2>5. SettlementOnBooks'
    BY <1>2, <2>1, ColumnNames DEF Posts, BooksInv, SettlementOnBooks, Live, Pending
  <2>3. PaidOnce' /\ SettledOnce'
    BY <1>2, <2>1, ColumnNames
    DEF Posts, BooksInv, PaidOnce, SettledOnce, Amount, ToPay, Unpaid, Standing,
        Live, Pending, Confirmed
  <2>4. QED
    BY <1>1, <2>2, <2>3, <2>5 DEF BooksInv
<1>5. CASE Moves
  <2>1. PICK held \in Nat, mine \in Nat :
          /\ Posts(books, books', -held, 0, 0, mine, held - mine, 0, 0, 0)
          /\ state' \notin Ended => held = 0
          /\ state' \in Ended => held = IF books["Escrow"] < 0 THEN 0 ELSE books["Escrow"]
    BY <1>1, <1>5, TransitionPosts DEF Moves, TypeOK
  <2>2. /\ UNCHANGED <<terms, settlement, payments>>
        /\ state' \in Unpaid => state \in Unpaid
        /\ state \in Unpaid => books["Escrow"] = 0
        /\ state \in Confirmed \cup {"DISPUTED", "REFUNDED"}
             => state' \in Confirmed \cup {"DISPUTED", "REFUNDED"}
    BY <1>5 DEF Moves, orderTransitions, Unpaid, Confirmed, BooksInv, PaidOnce
  <2>3. LedgerCloses' /\ SettlementOnBooks'
    BY <1>2, <2>1, <2>2, ColumnNames
    DEF Posts, BooksInv, LedgerCloses, Total, SettlementOnBooks
  <2>4. PaidOnce'
    BY <1>2, <2>1, <2>2, ColumnNames
    DEF Posts, BooksInv, PaidOnce, Amount, ToPay, Unpaid, Ended
  <2>5. SettledOnce'
    BY <1>2, <2>1, <2>2, ColumnNames DEF Posts, BooksInv, SettledOnce, Amount
  <2>6. QED
    BY <1>1, <2>3, <2>4, <2>5 DEF BooksInv
<1>6. CASE Decides
  <2>1. PICK refund \in Refunds, rate \in FeeRates : resolveDispute(refund, rate)
    BY <1>6 DEF Decides
  <2>2. /\ state = "DISPUTED"
        /\ settlement.state # "completed"
        /\ UNCHANGED <<terms, payments>>
        /\ state' \in {"COMPLETED", "REFUNDED"}
    BY <1>1, <2>1, DecisionEffect
  <2>3. PICK mine \in 0..refund :
          \/ PartRefunded(refund, mine)
          \/ /\ refund = Amount
             /\ \E held \in Nat : \E extra \in 0..held : AllRefunded(mine, held, extra)
    BY <1>1, <2>1, DecisionEffect
  <2>4. /\ refund \in 0..Amount
        /\ settlement'.fee \in Nat /\ settlement'.net \in Nat
        /\ StandingFee \in Nat /\ StandingNet \in Nat
    BY <1>1, <1>2, <2>1, DecisionEffect DEF StandingFee, StandingNet
  <2>5. CASE PartRefunded(refund, mine)
    <3>1. LedgerCloses'
      <4>1. PICK fee \in Nat, net \in Nat :
              /\ fee + net = Amount - refund
              /\ Posts(books, books', StandingFee + StandingNet - Amount, 0, 0,
                       mine, refund - mine, fee - StandingFee, net - StandingNet, 0)
        BY <2>4, <2>5 DEF PartRefunded
      <4>2. QED
        BY <1>2, <2>4, <4>1, ColumnNames DEF Posts, BooksInv, LedgerCloses, Total
    <3>2. SettlementOnBooks'
      BY <1>2, <2>2, <2>4, <2>5, ColumnNames
      DEF PartRefunded, Posts, BooksInv, SettlementOnBooks, Live, Pending,
          StandingFee, StandingNet
    <3>3. PaidOnce' /\ SettledOnce'
      BY <1>2, <2>2, <2>4, <2>5, ColumnNames
      DEF PartRefunded, Posts, BooksInv, PaidOnce, SettledOnce, Amount, ToPay, Unpaid,
          Standing, Live, Pending, Confirmed, StandingFee, StandingNet
    <3>4. QED
      BY <1>1, <3>1, <3>2, <3>3 DEF BooksInv
  <2>6. ASSUME refund = Amount, NEW held \in Nat, NEW extra \in 0..held,
               AllRefunded(mine, held, extra)
        PROVE  BooksInv'
    <3>1. /\ settlement'.state = IF settlement.state \in Live
                                   THEN "cancelled" ELSE settlement.state
          /\ settlement'.fee = settlement.fee /\ settlement'.net = settlement.net
      BY <1>1, <2>6 DEF TypeOK, AllRefunded
    <3>2. LedgerCloses'
      BY <1>2, <2>4, <2>6, ColumnNames
      DEF AllRefunded, Posts, BooksInv, LedgerCloses, Total
    <3>3. SettlementOnBooks'
      BY <1>2, <2>2, <2>4, <2>6, <3>1, ColumnNames
      DEF AllRefunded, Posts, BooksInv, SettlementOnBooks, Live, Pending,
          StandingFee, StandingNet
    <3>4. PaidOnce' /\ SettledOnce'
      BY <1>2, <2>2, <2>4, <2>6, <3>1, ColumnNames
      DEF AllRefunded, Posts, BooksInv, PaidOnce, SettledOnce, Amount, ToPay, Unpaid,
          Standing, Live, Pending, Confirmed, StandingFee, StandingNet
    <3>5. QED
      BY <1>1, <3>2, <3>3, <3>4 DEF BooksInv
  <2>7. QED
    BY <2>3, <2>5, <2>6
<1>7. CASE Disputes \/ Adjusts
  <2>1. /\ UNCHANGED <<terms, books, payments>>
        /\ settlement'.fee = settlement.fee /\ settlement'.net = settlement.net
        /\ settlement'.state # settlement.state
             => settlement.state \in Live /\ settlement'.state \in Live
        /\ state' # state => state \notin Unpaid /\ state' = "DISPUTED"
    BY <1>1, <1>7
    DEF Disputes, Adjusts, TypeOK, Live, Pending, orderTransitions, Unpaid
  <2>2. LedgerCloses' /\ SettlementOnBooks'
    BY <1>2, <2>1 DEF BooksInv, LedgerCloses, SettlementOnBooks, Live, Pending, Total
  <2>3. PaidOnce' /\ SettledOnce'
    BY <1>2, <2>1
    DEF BooksInv, PaidOnce, SettledOnce, Amount, ToPay, Unpaid, Standing, Live, Pending
  <2>4. QED
    BY <1>1, <2>2, <2>3 DEF BooksInv
<1>8. CASE completeSettlement
  <2>1. /\ settlement.state \in Pending
        /\ settlement' = [settlement EXCEPT !.state = "completed"]
        /\ Posts(books, books', 0, 0, 0, 0, 0, 0, -settlement.net, settlement.net)
        /\ UNCHANGED <<terms, state, payments>>
    BY <1>1, <1>8, PayoutPosts DEF completeSettlement, TypeOK
  <2>2. /\ settlement'.state = "completed"
        /\ settlement'.fee = settlement.fee /\ settlement'.net = settlement.net
    BY <1>1, <2>1 DEF TypeOK
  <2>3. LedgerCloses'
    BY <1>2, <2>1, ColumnNames DEF Posts, BooksInv, LedgerCloses, Total
  <2>6. SettlementOnBooks'
    BY <1>2, <2>1, <2>2, ColumnNames
    DEF Posts, BooksInv, SettlementOnBooks, Live, Pending
  <2>4. PaidOnce' /\ SettledOnce'
    BY <1>2, <2>1, <2>2, ColumnNames
    DEF Posts, BooksInv, PaidOnce, SettledOnce, Amount, ToPay, Standing, Live, Pending
  <2>5. QED
    BY <1>1, <2>3, <2>4, <2>6 DEF BooksInv
<1>9. CASE Rests
  BY <1>1, <1>9
  DEF Rests, BooksInv, LedgerCloses, SettlementOnBooks, PaidOnce, SettledOnce, Amount, ToPay
<1>10. QED
  BY <1>1, <1>3, <1>4, <1>5, <1>6, <1>7, <1>8, <1>9, StepKinds

(* The inductive invariant holds in every reachable state.                 *)
LEMMA BooksCorrect == Spec => []BooksInv
  BY BooksInit, BooksStep, PTL DEF Spec

(* Whatever operators request by hand, an order's ledger sums to zero.     *)
THEOREM LedgerAlwaysCloses == Spec => []LedgerCloses
<1>1. BooksInv => LedgerCloses
  BY DEF BooksInv
<1>2. QED
  BY <1>1, BooksCorrect, PTL

(* Whatever operators request by hand, ledger and settlement row agree.    *)
THEOREM SettlementAlwaysOnBooks == Spec => []SettlementOnBooks
<1>1. BooksInv => SettlementOnBooks
  BY DEF BooksInv
<1>2. QED
  BY <1>1, BooksCorrect, PTL

(* Whatever operators request by hand and however many keys clients send,  *)
(* an order is charged at most once.                                       *)
THEOREM CapturedAtMostOnce == Spec => []CapturedOnce
<1>1. ASSUME BooksInv
      PROVE  Cardinality(payments) <= 1
  <2>1. CASE payments = {}
    BY <2>1, FS_EmptySet
  <2>2. CASE payments # {}
    <3>1. PICK key : payments = {key}
      BY <1>1, <2>2 DEF BooksInv, PaidOnce
    <3>2. Cardinality({key}) = 1
      BY FS_Singleton
    <3>3. QED
      BY <3>1, <3>2
  <2>3. QED
    BY <2>1, <2>2
<1>2. BooksInv => CapturedOnce
  BY <1>1 DEF BooksInv, PaidOnce, CapturedOnce
<1>3. QED
  BY <1>2, BooksCorrect, PTL

(* No step takes the seller's money back once it was paid out: the end of  *)
(* such an order finds nothing in escrow to refund.                        *)
THEOREM PayoutNeverReversed == Spec => PayoutIsFinal
<1>1. ASSUME BooksInv, [Next]_vars, settlement.state = "completed"
      PROVE  settlement' = settlement /\ Cash(books') = Cash(books)
  <2>1. TypeOK /\ books["Escrow"] <= 0 /\ books["Escrow"] \in Int
    BY <1>1, ColumnNames DEF BooksInv, SettledOnce, Standing, TypeOK
  <2>2. state \notin Unpaid
    BY <1>1 DEF BooksInv, SettledOnce, Unpaid, Confirmed
  <2>3. CASE Moves
    <3>1. PICK held \in Nat, mine \in Nat :
            /\ Posts(books, books', -held, 0, 0, mine, held - mine, 0, 0, 0)
            /\ mine <= held
            /\ held = 0
      <4>1. PICK held \in Nat : \E mine \in 0..held :
              /\ Posts(books, books', -held, 0, 0, mine, held - mine, 0, 0, 0)
              /\ state' \notin Ended => held = 0
              /\ state' \in Ended =>
                   held = IF books["Escrow"] < 0 THEN 0 ELSE books["Escrow"]
        BY <2>1, <2>3, TransitionPosts DEF Moves, TypeOK
      <4>2. QED
        BY <2>1, <4>1
    <3>2. \A a \in Accounts : books'[a] = books[a]
      BY <2>1, <3>1, ColumnNames DEF Posts, Accounts, TypeOK
    <3>3. QED
      BY <2>3, <3>2 DEF Cash, Moves
  <2>4. CASE Disputes \/ Adjusts \/ Rests
    BY <1>1, <2>4 DEF Disputes, Adjusts, Rests, Live, Pending, Cash
  <2>5. ~(Pays \/ Confirms \/ completeSettlement \/ Decides)
    BY <1>1, <2>2
    DEF Pays, payOrder, Confirms, acceptAndSettle, completeSettlement, Decides,
        resolveDispute, Unwindable, Pending, Unpaid
  <2>6. QED
    BY <1>1, <2>1, <2>3, <2>4, <2>5, StepKinds
<1>2. BooksInv /\ [Next]_vars
        => [settlement.state = "completed"
              => settlement' = settlement /\ Cash(books') = Cash(books)]_vars
  BY <1>1
<1>3. QED
  BY <1>2, BooksCorrect, PTL DEF Spec, PayoutIsFinal

(* No handler or worker leaves the transition table.                       *)
THEOREM TableIsFollowed == Spec => MovesAreAllowed
<1>1. ASSUME TypeOK, [Next]_vars, state' # state
      PROVE  \/ <<state, state'>> \in orderTransitions
             \/ /\ state \in {"CREATED", "PAYMENT_PENDING"}
                /\ state' = "READY"
                /\ payments' # payments
  <2>1. CASE Pays
    BY <2>1 DEF Pays, payOrder, moveTo
  <2>2. CASE Confirms
    BY <2>2 DEF Confirms, acceptAndSettle, moveTo, orderTransitions
  <2>3. CASE Decides
    BY <1>1, <2>3, DecisionEffect DEF Decides, moveTo, orderTransitions
  <2>4. CASE Moves \/ Disputes
    BY <2>4 DEF Moves, Disputes
  <2>5. CASE Adjusts \/ completeSettlement \/ Rests
    BY <1>1, <2>5 DEF Adjusts, completeSettlement, Rests, order
  <2>6. QED
    BY <1>1, <2>1, <2>2, <2>3, <2>4, <2>5, StepKinds
<1>2. TypeOK /\ [Next]_vars
        => [state' # state => \/ <<state, state'>> \in orderTransitions
                             \/ /\ state \in {"CREATED", "PAYMENT_PENDING"}
                                /\ state' = "READY"
                                /\ payments' # payments]_vars
  BY <1>1
<1>3. QED
  BY <1>2, TypeCorrect, PTL DEF Spec, MovesAreAllowed

\* The payout of a settlement that was still pending, and nothing else.
OnlyThePayout ==
  /\ settlement.state \in Pending /\ settlement' = [settlement EXCEPT !.state = "completed"]
  /\ \A c \in Columns \ {"SellerPayable", "SellerPayout"} : books'[c] = books[c]

(* What is left of "no money moves under review", whatever operators do by *)
(* hand: the payout of a settlement that was released is the one thing     *)
(* that moves money while a dispute is under review; escrow, refunds, the  *)
(* promotion, revenue and the reservation stand still (settlementAction,   *)
(* resolveDispute).                                                        *)
THEOREM ReviewMovesOnlyThePayout ==
  Spec => [][state = "DISPUTED" /\ state' = "DISPUTED" => books' = books \/ OnlyThePayout]_vars
<1>1. ASSUME TypeOK, [Next]_vars, state = "DISPUTED", state' = "DISPUTED"
      PROVE  books' = books \/ OnlyThePayout
  <2>1. CASE Pays
    BY <1>1, <2>1 DEF Pays, payOrder
  <2>2. CASE Confirms
    BY <1>1, <2>2 DEF Confirms, acceptAndSettle, moveTo
  <2>3. CASE Moves \/ Disputes
    BY <1>1, <2>3 DEF Moves, Disputes, orderTransitions
  <2>4. CASE Decides
    BY <1>1, <2>4 DEF Decides, resolveDispute, moveTo
  <2>5. CASE Adjusts \/ Rests
    BY <2>5 DEF Adjusts, Rests
  <2>6. CASE completeSettlement
    <3>1. Posts(books, books', 0, 0, 0, 0, 0, 0, -settlement.net, settlement.net)
      BY <1>1, <2>6, PayoutPosts DEF completeSettlement, TypeOK
    <3>2. books'["budget_consumed"] = books["budget_consumed"]
      BY <1>1, <2>6, ColumnNames DEF completeSettlement, bookPayout, debit, credit, TypeOK
    <3>3. \A c \in Columns : books[c] \in Int
      BY <1>1 DEF TypeOK
    <3>4. \A c \in Columns \ {"SellerPayable", "SellerPayout"} : books'[c] = books[c]
      BY <3>1, <3>2, <3>3, ColumnNames DEF Posts, Columns, Accounts
    <3> QED BY <2>6, <3>4 DEF OnlyThePayout, completeSettlement
  <2> QED BY <1>1, <2>1, <2>2, <2>3, <2>4, <2>5, <2>6, StepKinds
<1>2. TypeOK /\ [Next]_vars
        => [state = "DISPUTED" /\ state' = "DISPUTED" => books' = books \/ OnlyThePayout]_vars
  BY <1>1
<1> QED BY <1>2, TypeCorrect, PTL DEF Spec

\* The revisions that were asked for through their own form.
RevisionRowsWithinLimit ==
  LET limit == RevisionLimit(IncludedRevisions, CeilingRevisions)
  IN  limit > 0 => revisions <= limit

(* What is left of the revision limit: the rows of revisions never exceed  *)
(* it, for any product and policy; what exceeds it are revisions asked for *)
(* by the generic transition, which writes no row (createRevision).        *)
THEOREM RevisionRowsAreLimited == Spec => []RevisionRowsWithinLimit
<1> DEFINE limit == RevisionLimit(IncludedRevisions, CeilingRevisions)
<1>1. limit \in Int
  BY RevisionsAssumption DEF RevisionLimit
<1>2. Init => RevisionRowsWithinLimit
  BY <1>1 DEF Init, RevisionRowsWithinLimit
<1>3. TypeOK /\ RevisionRowsWithinLimit /\ [Next]_vars => RevisionRowsWithinLimit'
  <2> SUFFICES ASSUME TypeOK, RevisionRowsWithinLimit, [Next]_vars
               PROVE  RevisionRowsWithinLimit'
    OBVIOUS
  <2>1. CASE createRevision
    BY <2>1, RevisionsAssumption
    DEF createRevision, RevisionRowsWithinLimit, RevisionLimit, TypeOK
  <2>2. CASE ~ createRevision
    <3>1. revisions' = revisions
      BY <2>2 DEF Next, Request, payOrder, transitionOrder, acceptAndSettle, createDelivery,
         acceptOrder, createReview, submitRequirement, openDispute, resolveDispute,
         holdSettlement, releaseSettlement, completeSettlement, agePasses, Scan, Act, Scanned,
         expireUnpaidOrders, autoAcceptDeliveries, processDueSettlements, expireOrder,
         autoAccept, applySettlementDecision, dropPlan, vars
    <3> QED BY <3>1 DEF RevisionRowsWithinLimit
  <2> QED BY <2>1, <2>2
<1> QED BY <1>2, <1>3, TypeCorrect, PTL DEF Spec
-----------------------------------------------------------------------------
(* Where the money of an order is, whatever operators request by hand.     *)

NothingReturned == books["BuyerRefund"] = 0 /\ books["PromotionRecovery"] = 0
Undivided == settlement.state = "none" /\ (Funded => books["Escrow"] = Amount)
Divided ==
  /\ settlement.state \in Standing
  /\ Funded => books["Escrow"] = 0
  /\ settlement.fee + settlement.net
       = Amount - books["BuyerRefund"] - books["PromotionRecovery"]
Repaid ==
  /\ settlement.state \in {"none", "cancelled"}
  /\ Funded => /\ books["Escrow"] = 0
               /\ books["BuyerRefund"] = ToPay
               /\ books["PromotionRecovery"] = terms.discount

(* A disputed order may come from work, with its escrow whole, or from its *)
(* confirmation, already divided.  One that ended was repaid, except one   *)
(* that was divided, disputed and then refunded by hand: nothing moved.    *)
MoneyByState ==
  /\ state \in Unpaid \cup InWork \cup {"DISPUTED", "ACCEPTED"} => NothingReturned
  /\ state \in Unpaid => settlement.state = "none"
  /\ state \in InWork => Undivided
  /\ state = "DISPUTED" => Undivided \/ Divided
  /\ state \in Confirmed => Divided
  /\ dispute = "resolved" => state \in {"COMPLETED", "REFUNDED"}
  /\ ClosedByHand => NothingReturned /\ Divided
  /\ state \in Ended /\ ~ClosedByHand => Repaid

MoneyInv == BooksInv /\ MoneyByState

(* A fresh order satisfies the invariant that ties its state to its money. *)
LEMMA MoneyInit == Init => MoneyInv
<1> SUFFICES ASSUME Init
             PROVE  MoneyInv
  OBVIOUS
<1>1. \A a \in Accounts : books[a] = 0
  BY DEF Init, Columns, Accounts
<1>2. QED
  BY <1>1, BooksInit
  DEF Init, MoneyInv, MoneyByState, NothingReturned, NoSettlement, Accounts, Unpaid,
      InWork, Confirmed, Ended, ClosedByHand

(* The moves that settle nothing, from the money's point of view.          *)
LEMMA MoveKinds ==
  ASSUME Moves
  PROVE  \/ state \in Unpaid /\ state' \in {"PAYMENT_PENDING", "CANCELLED"}
         \/ state = "PAYMENT_PENDING" /\ state' = "PAID"
         \/ state \in InWork /\ state' \in InWork \cup Ended
         \/ state \in InWork \cup {"ACCEPTED"} /\ state' = "DISPUTED"
         \/ state = "DISPUTED" /\ state' = "REFUNDED"
         \/ state = "ACCEPTED" /\ state' = "COMPLETED"
  BY DEF Moves, orderTransitions, Unpaid, InWork, Ended

(* What escrow and a standing settlement hold together never exceeds the   *)
(* order's amount: a full refund leaves nothing for its end to refund.     *)
LEMMA NothingOver ==
  ASSUME BooksInv
  PROVE  StandingFee + StandingNet + books["Escrow"] <= Amount
<1>1. /\ books["Escrow"] \in Int /\ Amount \in Nat
      /\ settlement.fee \in Nat /\ settlement.net \in Nat
  BY ColumnNames, TermsType DEF BooksInv, TypeOK, Amount
<1>2. CASE settlement.state \in Live
  BY <1>1, <1>2 DEF BooksInv, SettledOnce, Standing, StandingFee, StandingNet
<1>3. CASE settlement.state \notin Live
  BY <1>1, <1>3 DEF BooksInv, SettledOnce, StandingFee, StandingNet
<1> QED BY <1>2, <1>3

(* Every step keeps each order's money where its state says.               *)
LEMMA MoneyStep == MoneyInv /\ [Next]_vars => MoneyInv'
<1> SUFFICES ASSUME MoneyInv, [Next]_vars
             PROVE  MoneyInv'
  OBVIOUS
<1> USE DEF moveTo, order
<1>1. TypeOK /\ TypeOK' /\ BooksInv /\ BooksInv' /\ MoneyByState
  BY TypeStep, BooksStep DEF MoneyInv, BooksInv
<1>2. /\ Amount \in Nat /\ terms.discount \in 0..Amount
      /\ ToPay = Amount - terms.discount
      /\ \A c \in Columns : books[c] \in Int
      /\ settlement.fee \in Nat /\ settlement.net \in Nat
  BY <1>1, TermsType DEF TypeOK, Amount, ToPay, Payable
<1> SUFFICES MoneyByState'
  BY <1>1 DEF MoneyInv
<1>3. CASE Pays
  <2>1. PICK key \in Keys : payOrder(key)
    BY <1>3 DEF Pays
  <2>2. Posts(books, books', Amount, -ToPay, -terms.discount, 0, 0, 0, 0, 0)
    BY <1>1, <2>1, PaymentPosts DEF payOrder, TypeOK
  <2>3. /\ state \in Unpaid /\ state' = "READY"
        /\ UNCHANGED <<terms, settlement, dispute>>
        /\ books["Escrow"] = 0
    BY <1>1, <2>1 DEF payOrder, Unpaid, BooksInv, PaidOnce
  <2>4. QED
    BY <1>1, <1>2, <2>2, <2>3, ColumnNames
    DEF Posts, MoneyByState, NothingReturned, Undivided, Amount, Funded, Unpaid, InWork,
        Confirmed, Ended, ClosedByHand
<1>4. CASE Confirms
  <2>1. /\ state = "DELIVERED" /\ state' = "ACCEPTED"
        /\ settlement'.state = "scheduled"
        /\ settlement'.fee \in Nat /\ settlement'.net \in Nat
        /\ settlement'.fee + settlement'.net = Amount
        /\ Posts(books, books', -Amount, 0, 0, 0, 0, settlement'.fee, settlement'.net, 0)
        /\ UNCHANGED <<terms, payments, dispute>>
    BY <1>1, <1>4, AcceptEffect DEF Confirms
  <2>2. NothingReturned /\ Undivided /\ dispute # "resolved"
    BY <1>1, <2>1 DEF MoneyByState, InWork
  <2>3. QED
    BY <1>2, <2>1, <2>2, ColumnNames
    DEF Posts, MoneyByState, NothingReturned, Undivided, Divided, Amount, Funded,
        Unpaid, InWork, Confirmed, Ended, Standing, Live, Pending, ClosedByHand
<1>5. CASE Moves
  <2>1. PICK held \in Nat : \E mine \in 0..held :
          /\ Posts(books, books', -held, 0, 0, mine, held - mine, 0, 0, 0)
          /\ state' \notin Ended => held = 0
          /\ state' \in Ended =>
               /\ held = IF books["Escrow"] < 0 THEN 0 ELSE books["Escrow"]
               /\ mine = BuyerShare(held, terms.amount, terms.discount)
    BY <1>1, <1>5, TransitionPosts DEF Moves, TypeOK
  <2>2. PICK mine \in 0..held :
          /\ Posts(books, books', -held, 0, 0, mine, held - mine, 0, 0, 0)
          /\ state' \notin Ended => held = 0
          /\ state' \in Ended =>
               /\ held = IF books["Escrow"] < 0 THEN 0 ELSE books["Escrow"]
               /\ mine = BuyerShare(held, terms.amount, terms.discount)
    BY <2>1
  <2>3. UNCHANGED <<terms, settlement, dispute, payments>>
    BY <1>5 DEF Moves
  <2>4. ASSUME held = 0
        PROVE  /\ NothingReturned => NothingReturned'
               /\ Undivided => Undivided'
               /\ Divided => Divided'
               /\ books'["Escrow"] = books["Escrow"]
    <3>1. /\ mine = 0
          /\ books'["Escrow"] = books["Escrow"]
          /\ books'["BuyerRefund"] = books["BuyerRefund"]
          /\ books'["PromotionRecovery"] = books["PromotionRecovery"]
      BY <1>2, <2>2, <2>4, ColumnNames DEF Posts
    <3> QED
      BY <2>3, <3>1 DEF NothingReturned, Undivided, Divided, Amount, Funded
  <2>5. ASSUME NothingReturned, Undivided, state' \in Ended
        PROVE  Repaid'
    <3>1. CASE Funded
      <4>1. books["Escrow"] = Amount /\ held = Amount
        BY <1>2, <2>2, <2>5, <3>1 DEF Undivided
      <4>2. mine = ToPay
        BY <1>2, <2>2, <2>5, <4>1, ShareBounds DEF Amount, ToPay
      <4>3. QED
        BY <1>2, <2>2, <2>3, <2>5, <4>1, <4>2, ColumnNames
        DEF Posts, Repaid, NothingReturned, Undivided, Amount, ToPay, Funded
    <3>2. CASE ~Funded
      BY <2>3, <2>5, <3>2 DEF Repaid, Undivided, Funded
    <3> QED BY <3>1, <3>2
  <2>6. CASE state \in Unpaid /\ state' \in {"PAYMENT_PENDING", "CANCELLED"}
    <3>1. payments = {} /\ books["Escrow"] = 0 /\ held = 0 /\ dispute # "resolved"
      BY <1>1, <2>2, <2>6 DEF BooksInv, PaidOnce, MoneyByState, Unpaid
    <3>2. QED
      BY <1>1, <2>3, <2>4, <2>6, <3>1
      DEF MoneyByState, Repaid, Funded, Unpaid, InWork, Confirmed, Ended, ClosedByHand
  <2>7. CASE state = "PAYMENT_PENDING" /\ state' = "PAID"
    <3>1. payments = {} /\ held = 0 /\ dispute # "resolved"
      BY <1>1, <2>2, <2>7 DEF BooksInv, PaidOnce, MoneyByState, Unpaid, Ended
    <3>2. QED
      BY <1>1, <2>3, <2>4, <2>7, <3>1
      DEF MoneyByState, Undivided, Funded, Unpaid, InWork, Confirmed, Ended, ClosedByHand
  <2>8. CASE state \in InWork /\ state' \in InWork
    <3>1. held = 0
      BY <2>2, <2>8 DEF InWork, Ended
    <3>2. QED
      BY <1>1, <2>3, <2>4, <2>8, <3>1
      DEF MoneyByState, Unpaid, InWork, Confirmed, Ended, ClosedByHand
  <2>9. CASE state \in InWork /\ state' \in Ended
    <3>1. NothingReturned /\ Undivided /\ dispute # "resolved"
      BY <1>1, <2>9 DEF MoneyByState, InWork
    <3>2. QED
      BY <2>3, <2>5, <2>9, <3>1
      DEF MoneyByState, Undivided, Unpaid, InWork, Confirmed, Ended, ClosedByHand
  <2>10. CASE state \in InWork \cup {"ACCEPTED"} /\ state' = "DISPUTED"
    <3>1. held = 0 /\ dispute # "resolved"
      BY <1>1, <2>2, <2>10 DEF MoneyByState, InWork, Ended
    <3>2. NothingReturned /\ (Undivided \/ Divided)
      BY <1>1, <2>10 DEF MoneyByState, Confirmed
    <3>3. QED
      BY <2>3, <2>4, <2>10, <3>1, <3>2
      DEF MoneyByState, Unpaid, InWork, Confirmed, Ended, ClosedByHand
  <2>11. CASE state = "DISPUTED" /\ state' = "REFUNDED"
    <3>1. NothingReturned /\ (Undivided \/ Divided) /\ dispute # "resolved"
      BY <1>1, <2>11 DEF MoneyByState
    <3>2. CASE Undivided
      BY <2>3, <2>5, <2>11, <3>1, <3>2
      DEF MoneyByState, Undivided, Unpaid, InWork, Confirmed, Ended, ClosedByHand
    <3>3. CASE Divided
      <4>1. books["Escrow"] <= 0 /\ books["Escrow"] \in Int
        BY <1>1, <1>2, <3>3, ColumnNames DEF BooksInv, SettledOnce, Divided
      <4>2. held = 0
        BY <2>2, <2>11, <4>1 DEF Ended
      <4>3. settlement'.state # "none"
        BY <2>3, <3>3 DEF Divided, Standing, Live, Pending
      <4>4. QED
        BY <2>3, <2>4, <2>11, <3>1, <3>3, <4>2, <4>3
        DEF MoneyByState, Unpaid, InWork, Confirmed, Ended, ClosedByHand
    <3> QED BY <3>1, <3>2, <3>3
  <2>12. CASE state = "ACCEPTED" /\ state' = "COMPLETED"
    <3>1. held = 0
      BY <2>2, <2>12 DEF Ended
    <3>2. QED
      BY <1>1, <2>3, <2>4, <2>12, <3>1
      DEF MoneyByState, Unpaid, InWork, Confirmed, Ended, ClosedByHand
  <2>13. QED
    BY <1>5, <2>6, <2>7, <2>8, <2>9, <2>10, <2>11, <2>12, MoveKinds
<1>6. CASE Disputes
  <2>1. /\ UNCHANGED <<terms, books, payments>>
        /\ state' = "DISPUTED" /\ dispute' = "open"
        /\ state \in InWork \cup {"ACCEPTED"}
        /\ settlement'.fee = settlement.fee /\ settlement'.net = settlement.net
        /\ \/ settlement'.state = settlement.state
           \/ settlement.state \in Live /\ settlement'.state \in Live
    BY <1>1, <1>6
    DEF Disputes, TypeOK, Live, Pending, orderTransitions, InWork
  <2>2. QED
    BY <1>1, <1>2, <2>1
    DEF MoneyByState, NothingReturned, Undivided, Divided, Amount, Funded,
        Unpaid, InWork, Confirmed, Ended, Standing, Live, Pending, ClosedByHand
<1>7. CASE Decides
  <2>1. PICK refund \in Refunds, rate \in FeeRates : resolveDispute(refund, rate)
    BY <1>7 DEF Decides
  <2>2. /\ state = "DISPUTED"
        /\ dispute' = "resolved"
        /\ settlement.state # "completed"
        /\ UNCHANGED <<terms, payments>>
        /\ refund \in 0..Amount
        /\ settlement'.fee \in Nat /\ settlement'.net \in Nat
    BY <1>1, <2>1, DecisionEffect
  <2>3. PICK mine \in 0..refund :
          /\ mine = BuyerShare(refund, terms.amount, terms.discount)
          /\ \/ PartRefunded(refund, mine)
             \/ /\ refund = Amount
                /\ \E held \in Nat : \E extra \in 0..held : AllRefunded(mine, held, extra)
    BY <1>1, <2>1, DecisionEffect
  <2>4. /\ NothingReturned /\ (Undivided \/ Divided)
        /\ StandingFee \in Nat /\ StandingNet \in Nat
        /\ Funded => StandingFee + StandingNet + books["Escrow"] = Amount
    BY <1>1, <1>2, <2>2, ColumnNames
    DEF MoneyByState, Undivided, Divided, NothingReturned, Standing,
        StandingFee, StandingNet, Live, Pending
  <2>5. CASE PartRefunded(refund, mine)
    BY <1>2, <2>2, <2>4, <2>5, ColumnNames
    DEF PartRefunded, Posts, MoneyByState, NothingReturned, Divided, Amount, Funded,
        Unpaid, InWork, Confirmed, Ended, Standing, Live, Pending, ClosedByHand
  <2>6. ASSUME refund = Amount, NEW held \in Nat, NEW extra \in 0..held,
               AllRefunded(mine, held, extra)
        PROVE  MoneyByState'
    <3>1. settlement'.state \in {"none", "cancelled"}
      BY <1>1, <2>2, <2>6
      DEF AllRefunded, TypeOK, SettlementStates, Live, Pending
    <3>2. held = 0 /\ extra = 0
      BY <1>1, <2>6, NothingOver DEF AllRefunded
    <3>3. mine = ToPay
      BY <1>2, <2>3, <2>6, ShareBounds DEF Amount, ToPay
    <3>4. /\ state' = "REFUNDED"
          /\ books'["BuyerRefund"] = ToPay
          /\ books'["PromotionRecovery"] = terms.discount
          /\ Funded => books'["Escrow"] = 0
      BY <1>2, <2>4, <2>6, <3>2, <3>3, ColumnNames DEF AllRefunded, Posts, NothingReturned
    <3>5. Repaid'
      BY <2>2, <3>1, <3>4 DEF Repaid, Funded, ToPay
    <3>6. QED
      BY <2>2, <3>4, <3>5
      DEF MoneyByState, Unpaid, InWork, Confirmed, Ended, ClosedByHand
  <2>7. QED
    BY <2>3, <2>5, <2>6
<1>8. CASE Adjusts
  <2>1. /\ UNCHANGED <<terms, state, books, dispute, payments>>
        /\ settlement'.fee = settlement.fee /\ settlement'.net = settlement.net
        /\ settlement.state \in Live /\ settlement'.state \in Live
    BY <1>1, <1>8 DEF Adjusts, TypeOK
  <2>2. QED
    BY <1>1, <1>2, <2>1
    DEF MoneyByState, NothingReturned, Undivided, Divided, Repaid, Amount, ToPay, Funded,
        Unpaid, InWork, Confirmed, Ended, Standing, Live, Pending, ClosedByHand
<1>9. CASE completeSettlement
  <2>1. /\ settlement.state \in Pending
        /\ settlement'.state = "completed"
        /\ settlement'.fee = settlement.fee /\ settlement'.net = settlement.net
        /\ Posts(books, books', 0, 0, 0, 0, 0, 0, -settlement.net, settlement.net)
        /\ UNCHANGED <<terms, state, dispute, payments>>
    BY <1>1, <1>9, PayoutPosts DEF completeSettlement, TypeOK
  <2>2. /\ books'["Escrow"] = books["Escrow"]
        /\ books'["BuyerRefund"] = books["BuyerRefund"]
        /\ books'["PromotionRecovery"] = books["PromotionRecovery"]
    BY <1>2, <2>1, ColumnNames DEF Posts
  <2>3. QED
    BY <1>1, <2>1, <2>2
    DEF MoneyByState, NothingReturned, Undivided, Divided, Repaid, Amount,
        ToPay, Funded, Unpaid, InWork, Confirmed, Ended, Standing, Live, Pending, ClosedByHand
<1>10. CASE Rests
  BY <1>1, <1>10
  DEF Rests, MoneyByState, NothingReturned, Undivided, Divided, Repaid, Amount, ToPay,
      Funded, ClosedByHand
<1>11. QED
  BY <1>1, <1>3, <1>4, <1>5, <1>6, <1>7, <1>8, <1>9, <1>10, StepKinds

(* The inductive invariant of the money holds in every reachable state.    *)
LEMMA MoneyCorrect == Spec => []MoneyInv
  BY MoneyInit, MoneyStep, PTL DEF Spec

(* Whatever operators request by hand, escrow covers a funded order in     *)
(* work and holds nothing of it once it is over.                           *)
THEOREM EscrowAlwaysFollowsOrder == Spec => []EscrowFollowsOrder
<1>1. MoneyInv => EscrowFollowsOrder
  BY DEF MoneyInv, MoneyByState, Undivided, Divided, Repaid, EscrowFollowsOrder
<1>2. QED
  BY <1>1, MoneyCorrect, PTL

(* Whatever operators request by hand, whichever way a funded order is     *)
(* ended, buyer and promotion get back what each of them paid, to the won, *)
(* and the seller is owed nothing, unless it was closed by hand after its  *)
(* confirmation.                                                           *)
THEOREM EndedAlwaysRepaid == Spec => []EndedMeansRepaid
<1>1. MoneyInv => EndedMeansRepaid
  BY DEF MoneyInv, MoneyByState, Repaid, EndedMeansRepaid
<1>2. QED
  BY <1>1, MoneyCorrect, PTL

(* Whatever operators request by hand, whichever way an order is           *)
(* confirmed, its settlement divides everything that was not refunded.     *)
THEOREM ConfirmedAlwaysSettled == Spec => []ConfirmedMeansSettled
<1>1. MoneyInv => ConfirmedMeansSettled
  BY DEF MoneyInv, MoneyByState, Divided, ConfirmedMeansSettled, Standing
<1>2. QED
  BY <1>1, MoneyCorrect, PTL

(* Nothing happens to the money of an order that has ended: the workers'   *)
(* old scans, late payments and settlement decisions all find a reason to  *)
(* do nothing, unless it was closed by hand after its confirmation.        *)
THEOREM EndIsFinal == Spec => EndedIsFinal
<1>1. ASSUME MoneyInv, [Next]_vars, ~ClosedByHand, state \in Ended
      PROVE  state' = state /\ books' = books /\ settlement' = settlement
  <2>1. TypeOK /\ settlement.state \in {"none", "cancelled"}
    BY <1>1 DEF MoneyInv, BooksInv, MoneyByState, Repaid
  <2>2. ~(Pays \/ Confirms \/ Moves \/ Disputes \/ Decides)
    BY <1>1
    DEF Ended, Pays, payOrder, Confirms, Moves, Disputes, Decides, resolveDispute,
        orderTransitions
  <2>3. ~(Adjusts \/ completeSettlement)
    BY <2>1 DEF Adjusts, completeSettlement, Live, Pending
  <2>4. Rests
    BY <1>1, <2>1, <2>2, <2>3, StepKinds
  <2>5. QED
    BY <2>4 DEF Rests
<1>2. MoneyInv /\ [Next]_vars
        => [~ClosedByHand /\ state \in Ended
              => state' = state /\ books' = books /\ settlement' = settlement]_vars
  BY <1>1
<1>3. QED
  BY <1>2, MoneyCorrect, PTL DEF Spec, EndedIsFinal

(* An order without a payment, as long as nobody marks one PAID by hand.   *)
UnfundedInv == ~Funded => state \in Unpaid \cup {"CANCELLED"} /\ books["Escrow"] = 0

(* What is left of "Escrow closes at zero" (EscrowAlwaysCloses): the one   *)
(* move by hand that breaks it is PAYMENT_PENDING to PAID; without it no   *)
(* order that is confirmed or ended leaves a balance, whatever other moves *)
(* operators make (canTransition, payOrder).                               *)
THEOREM EscrowCloses ==
  ASSUME <<"PAYMENT_PENDING", "PAID">> \notin OperatorMoves
  PROVE  Spec => []EscrowAlwaysCloses
<1>1. Init => UnfundedInv
  BY DEF Init, UnfundedInv, Unpaid, Columns, Accounts
<1>2. BooksInv /\ UnfundedInv /\ [Next]_vars => UnfundedInv'
  <2> SUFFICES ASSUME BooksInv, UnfundedInv, [Next]_vars, ~Funded'
               PROVE  state' \in Unpaid \cup {"CANCELLED"} /\ books'["Escrow"] = 0
    BY DEF UnfundedInv
  <2> USE DEF moveTo, order
  <2>1. TypeOK /\ books["Escrow"] \in Int
    BY ColumnNames DEF BooksInv, TypeOK
  <2>2. CASE Pays
    BY <2>2 DEF Pays, payOrder, Funded
  <2>3. ASSUME ~Pays
        PROVE  state \in Unpaid \cup {"CANCELLED"} /\ books["Escrow"] = 0
    <3>1. payments' = payments
      BY <2>1, <2>3, StepKinds, DecisionEffect
      DEF Confirms, acceptAndSettle, Moves, Disputes, Decides, Adjusts,
          completeSettlement, Rests
    <3> QED BY <3>1 DEF UnfundedInv, Funded
  <2>4. CASE Moves
    <3>1. state' \in Unpaid \cup {"CANCELLED"}
      BY <2>3, <2>4, MoveKinds
      DEF Moves, WorkflowMoves, Unpaid, InWork, Pays, payOrder, Funded
    <3>2. PICK held \in Nat : \E mine \in 0..held :
            /\ Posts(books, books', -held, 0, 0, mine, held - mine, 0, 0, 0)
            /\ state' \notin Ended => held = 0
            /\ state' \in Ended => held = IF books["Escrow"] < 0 THEN 0 ELSE books["Escrow"]
      BY <2>1, <2>4, TransitionPosts DEF Moves, TypeOK
    <3>3. books["Escrow"] = 0
      BY <2>3, <2>4 DEF Pays, payOrder, Moves, Funded
    <3> QED BY <3>1, <3>2, <3>3 DEF Posts
  <2>5. CASE Confirms \/ Disputes \/ Decides
    BY <2>3, <2>5
    DEF Confirms, acceptAndSettle, Disputes, Decides, resolveDispute, orderTransitions,
        Unpaid, Pays, payOrder
  <2>6. CASE completeSettlement
    <3>1. Posts(books, books', 0, 0, 0, 0, 0, 0, -settlement.net, settlement.net)
      BY <2>1, <2>6, PayoutPosts DEF completeSettlement, TypeOK
    <3>2. ~Pays /\ state' = state
      BY <2>6 DEF completeSettlement, Pays, payOrder
    <3> QED BY <2>1, <2>3, <3>1, <3>2 DEF Posts
  <2>7. CASE Adjusts \/ Rests
    BY <2>7 DEF Adjusts, Rests, UnfundedInv, Funded
  <2> QED BY <2>1, <2>2, <2>4, <2>5, <2>6, <2>7, StepKinds
<1>3. EscrowFollowsOrder /\ UnfundedInv => EscrowAlwaysCloses
  BY DEF EscrowFollowsOrder, EscrowAlwaysCloses, UnfundedInv, Confirmed, Unpaid, Ended
<1>4. QED
  BY <1>1, <1>2, <1>3, BooksCorrect, EscrowAlwaysFollowsOrder, PTL DEF Spec

(* What is left of "the end of a disputed order goes through the dispute"  *)
(* (NoneClosedByHand): DISPUTED to REFUNDED is the one move by hand that   *)
(* ends an order and leaves its settlement standing (canTransition).       *)
THEOREM OnlyHandsLeaveSettlements ==
  ASSUME <<"DISPUTED", "REFUNDED">> \notin OperatorMoves
  PROVE  Spec => []NoneClosedByHand
<1>1. Init => NoneClosedByHand
  BY DEF Init, NoneClosedByHand, ClosedByHand
<1>2. MoneyInv /\ NoneClosedByHand /\ [Next]_vars => NoneClosedByHand'
  <2> SUFFICES ASSUME MoneyInv, ~ClosedByHand, [Next]_vars
               PROVE  ~ClosedByHand'
    BY DEF NoneClosedByHand
  <2> USE DEF moveTo, order
  <2>1. TypeOK /\ MoneyByState
    BY DEF MoneyInv, BooksInv
  <2>2. CASE Pays \/ Disputes
    BY <2>2 DEF Pays, payOrder, Disputes, ClosedByHand
  <2>3. CASE Confirms
    BY <2>3 DEF Confirms, acceptAndSettle, ClosedByHand
  <2>4. CASE Moves
    <3>1. state' = "REFUNDED" => state \in InWork
      BY <2>4, MoveKinds DEF Moves, WorkflowMoves, Unpaid, Ended, InWork
    <3> QED BY <2>1, <2>4, <3>1 DEF Moves, MoneyByState, Undivided, ClosedByHand
  <2>5. CASE Decides
    BY <2>1, <2>5, DecisionEffect DEF Decides, ClosedByHand
  <2>6. CASE Adjusts
    BY <2>6 DEF Adjusts, Live, Pending, ClosedByHand
  <2>7. CASE completeSettlement
    BY <2>7 DEF completeSettlement, Pending, ClosedByHand
  <2>8. CASE Rests
    BY <2>8 DEF Rests, ClosedByHand
  <2> QED BY <2>1, <2>2, <2>3, <2>4, <2>5, <2>6, <2>7, <2>8, StepKinds
<1>3. QED
  BY <1>1, <1>2, MoneyCorrect, PTL DEF Spec
-----------------------------------------------------------------------------
(* The organization's reservation.                                         *)

Budget(b) == b["budget_consumed"]

(* No posting but a refund and an end touches the reservation (releaseBudget *)
(* is called from those two only).                                         *)
LEMMA BudgetUntouched ==
  ASSUME NEW b \in [Columns -> Int], TypeOK, NEW fee, NEW net
  PROVE  /\ Budget(bookPayment(b)) = Budget(b)
         /\ Budget(bookSettlement(b, fee, net)) = Budget(b)
         /\ Budget(unwindSettlement(b)) = Budget(b)
         /\ Budget(bookPayout(b)) = Budget(b)
  BY ColumnNames
  DEF Budget, bookPayment, bookSettlement, unwindSettlement, bookPayout, debit, credit

(* An end leaves nothing reserved.                                         *)
LEMMA BudgetEnds ==
  ASSUME terms \in Terms, NEW b \in [Columns -> Int]
  PROVE  Budget(endOrder(b)) = 0
<1>1. PICK held \in Nat : held = IF b["Escrow"] < 0 THEN 0 ELSE b["Escrow"]
  BY ColumnNames
<1>2. PICK r : r = bookRefund(b, held)
  OBVIOUS
<1>3. r \in [Columns -> Int]
  BY <1>1, <1>2, RefundPosts DEF Posts
<1>4. endOrder(b) = releaseBudget(r, 0)
  BY <1>1, <1>2 DEF endOrder
<1>5. QED
  BY <1>3, <1>4, ColumnNames DEF Budget, releaseBudget, Released, debit

(* A refund releases the buyer's part of it, or all when that part is zero.*)
LEMMA BudgetRefunds ==
  ASSUME terms \in Terms, NEW b \in [Columns -> Int], NEW refund \in Nat,
         NEW mine, mine = BuyerShare(refund, terms.amount, terms.discount)
  PROVE  Budget(bookRefund(b, refund))
           = IF refund = 0 THEN Budget(b) ELSE Budget(b) - Released(Budget(b), mine)
<1>1. mine \in 0..refund
  BY ShareBounds, TermsType
<1>2. QED
  BY <1>1, ColumnNames DEF Budget, bookRefund, releaseBudget, debit, credit

(* The reservation keeps step with every kind of step.                     *)
LEMMA BudgetStep ==
  ASSUME MoneyInv, MoneyInv', BudgetTracksSpend, [Next]_vars
  PROVE  BudgetTracksSpend'
<1> USE DEF moveTo, order
<1> SUFFICES ASSUME terms'.budgeted
             PROVE  BudgetTracksSpend'
  BY DEF BudgetTracksSpend
<1>1. TypeOK /\ TypeOK' /\ BooksInv /\ BooksInv'
  BY DEF MoneyInv, BooksInv
<1>2. /\ Amount \in Nat /\ terms.discount \in 0..Amount
      /\ ToPay = Amount - terms.discount
      /\ \A c \in Columns : books[c] \in Int
  BY <1>1, TermsType DEF TypeOK, Amount, ToPay, Payable
<1>3. CASE Pays
  <2>1. PICK key \in Keys : payOrder(key)
    BY <1>3 DEF Pays
  <2>2. Posts(books, books', Amount, -ToPay, -terms.discount, 0, 0, 0, 0, 0)
    BY <1>1, <2>1, PaymentPosts DEF payOrder, TypeOK
  <2>3. Budget(books') = Budget(books)
    BY <1>1, <2>1, BudgetUntouched DEF payOrder, TypeOK
  <2>4. state \notin Ended /\ state' \notin Ended /\ terms' = terms
    BY <2>1 DEF payOrder, Ended
  <2>5. QED
    BY <1>2, <2>2, <2>3, <2>4, ColumnNames DEF Posts, Budget, BudgetTracksSpend, ToPay
<1>4. CASE Confirms
  <2>1. PICK rate \in FeeRates : books' = bookSettlement(books, settlement'.fee, settlement'.net)
    BY <1>4 DEF Confirms, acceptAndSettle
  <2>2. /\ state = "DELIVERED" /\ state' = "ACCEPTED" /\ terms' = terms
        /\ Posts(books, books', -Amount, 0, 0, 0, 0, settlement'.fee, settlement'.net, 0)
    BY <1>1, <1>4, AcceptEffect DEF Confirms
  <2>3. Budget(books') = Budget(books)
    BY <1>1, <2>1, BudgetUntouched DEF TypeOK
  <2>4. QED
    BY <1>2, <2>2, <2>3, ColumnNames DEF Posts, Budget, BudgetTracksSpend, ToPay, Ended
<1>5. CASE Moves
  <2>1. terms' = terms /\ books' = booksAfter(books, state') /\ state \notin Ended
    BY <1>5 DEF Moves, orderTransitions, Ended
  <2>2. CASE state' \notin Ended
    BY <2>1, <2>2 DEF BudgetTracksSpend, booksAfter, ToPay
  <2>3. CASE state' \in Ended
    <3>1. Budget(books') = 0
      BY <1>1, <2>1, <2>3, BudgetEnds DEF booksAfter, TypeOK
    <3>2. books["BuyerRefund"] = 0 /\ books["Escrow"] <= Amount
      BY <1>1, <1>5, <2>3, MoveKinds
      DEF MoneyInv, MoneyByState, NothingReturned, BooksInv, SettledOnce, Ended
    <3>3. PICK held \in Nat : \E mine \in 0..held :
            /\ Posts(books, books', -held, 0, 0, mine, held - mine, 0, 0, 0)
            /\ held = IF books["Escrow"] < 0 THEN 0 ELSE books["Escrow"]
            /\ mine = BuyerShare(held, terms.amount, terms.discount)
      BY <1>1, <2>1, <2>3, TransitionPosts DEF TypeOK
    <3>4. held <= Amount
      BY <1>2, <3>2, <3>3, ColumnNames
    <3>5. BuyerShare(held, terms.amount, terms.discount) \in 0..ToPay
      <4>1. terms.amount \in Nat /\ terms.discount \in 0..terms.amount /\ held <= terms.amount
        BY <1>2, <3>4 DEF Amount
      <4>2. /\ BuyerShare(held, terms.amount, terms.discount) \in 0..held
            /\ BuyerShare(held, terms.amount, terms.discount)
                 <= Payable(terms.amount, terms.discount)
        BY <4>1, ShareBounds
      <4> QED BY <1>2, <4>2 DEF ToPay
    <3>6. books'["BuyerRefund"] \in 0..ToPay
      BY <3>2, <3>3, <3>5 DEF Posts
    <3>7. QED
      BY <1>2, <2>1, <2>3, <3>1, <3>6 DEF Budget, BudgetTracksSpend, ToPay
  <2>4. QED
    BY <2>2, <2>3
<1>6. CASE Disputes
  BY <1>6 DEF Disputes, BudgetTracksSpend, ToPay, orderTransitions, Ended
<1>7. CASE Decides
  <2>1. PICK refund \in Refunds, rate \in FeeRates : resolveDispute(refund, rate)
    BY <1>7 DEF Decides
  <2>2. PICK mine \in 0..refund :
          /\ mine = BuyerShare(refund, terms.amount, terms.discount)
          /\ \/ PartRefunded(refund, mine)
             \/ /\ refund = Amount
                /\ \E held \in Nat : \E extra \in 0..held : AllRefunded(mine, held, extra)
    BY <1>1, <2>1, DecisionEffect
  <2>3. /\ state = "DISPUTED" /\ terms' = terms
        /\ refund \in 0..Amount /\ NothingReturned
    BY <1>1, <2>1, DecisionEffect DEF MoneyInv, MoneyByState
  <2>4. Budget(books) = ToPay
    BY <2>3 DEF Budget, BudgetTracksSpend, NothingReturned, Ended, ToPay
  <2>5. PICK u : u = unwindSettlement(books)
    OBVIOUS
  <2>6. u \in [Columns -> Int] /\ Budget(u) = ToPay
    <3>1. u \in [Columns -> Int]
      BY <1>1, <2>5, UnwindPosts DEF Posts, TypeOK, unwindSettlement
    <3>2. QED
      BY <1>1, <2>4, <2>5, <3>1, BudgetUntouched DEF TypeOK
  <2>7. PICK r : r = bookRefund(u, refund)
    OBVIOUS
  <2>8. /\ r \in [Columns -> Int]
        /\ Budget(r) = IF refund = 0 THEN ToPay ELSE ToPay - Released(ToPay, mine)
    <3>1. refund \in Nat /\ terms \in Terms
      BY <1>1, <1>2, <2>3 DEF TypeOK
    <3>2. r \in [Columns -> Int]
      BY <2>2, <2>6, <2>7, <3>1, RefundPosts DEF Posts
    <3>3. Budget(r) = IF refund = 0 THEN Budget(u) ELSE Budget(u) - Released(Budget(u), mine)
      BY <2>2, <2>6, <2>7, <3>1, BudgetRefunds
    <3>4. QED
      BY <2>6, <3>2, <3>3
  <2>9. CASE PartRefunded(refund, mine)
    <3>1. mine <= ToPay
      <4>1. /\ terms.amount \in Nat /\ terms.discount \in 0..terms.amount
            /\ refund \in Nat /\ refund <= terms.amount
        BY <1>2, <2>3 DEF Amount
      <4>2. BuyerShare(refund, terms.amount, terms.discount)
              <= Payable(terms.amount, terms.discount)
        BY <4>1, ShareBounds
      <4>3. QED
        BY <2>2, <4>2 DEF ToPay
    <3>2. state' = "COMPLETED" /\ books' = bookSettlement(r, settlement'.fee, settlement'.net)
      BY <1>2, <2>1, <2>3, <2>5, <2>7, <2>9
      DEF PartRefunded, resolveDispute, booksAfter, Ended
    <3>3. Budget(books') = Budget(r)
      BY <1>1, <2>8, <3>2, BudgetUntouched
    <3>4. books'["BuyerRefund"] = mine /\ books'["PromotionRecovery"] = refund - mine
      BY <2>3, <2>9, ColumnNames DEF PartRefunded, Posts, NothingReturned
    <3>5. QED
      BY <1>2, <2>2, <2>3, <2>8, <3>1, <3>2, <3>3, <3>4
      DEF Budget, BudgetTracksSpend, Released, Ended, ToPay
  <2>10. ASSUME refund = Amount, NEW held \in Nat, NEW extra \in 0..held,
                AllRefunded(mine, held, extra)
         PROVE  BudgetTracksSpend'
    <3>1. state' = "REFUNDED" /\ books' = endOrder(r)
      BY <1>2, <2>1, <2>5, <2>7, <2>10
      DEF AllRefunded, resolveDispute, booksAfter, Ended
    <3>2. Budget(books') = 0
      BY <1>1, <2>8, <3>1, BudgetEnds DEF TypeOK
    <3>3. held = 0 /\ extra = 0
      BY <1>1, <2>10, NothingOver DEF AllRefunded
    <3>4. mine = ToPay
      BY <1>2, <2>2, <2>10, ShareBounds DEF Amount, ToPay
    <3>5. books'["BuyerRefund"] = ToPay
      BY <1>2, <2>3, <2>10, <3>3, <3>4, ColumnNames DEF AllRefunded, Posts, NothingReturned
    <3>6. QED
      BY <1>2, <2>3, <3>1, <3>2, <3>5 DEF Budget, BudgetTracksSpend, Ended, ToPay
  <2>11. QED
    BY <2>2, <2>9, <2>10
<1>8. CASE completeSettlement
  <2>1. Posts(books, books', 0, 0, 0, 0, 0, 0, -settlement.net, settlement.net)
    BY <1>1, <1>8, PayoutPosts DEF completeSettlement, TypeOK
  <2>2. Budget(books') = Budget(books) /\ state' = state /\ terms' = terms
    BY <1>1, <1>8, BudgetUntouched DEF completeSettlement, TypeOK
  <2>3. QED
    BY <1>2, <2>1, <2>2, ColumnNames DEF Posts, Budget, BudgetTracksSpend, ToPay
<1>9. CASE Adjusts \/ Rests
  BY <1>9 DEF Adjusts, Rests, BudgetTracksSpend, ToPay
<1>10. QED
  BY <1>1, <1>3, <1>4, <1>5, <1>6, <1>7, <1>8, <1>9, StepKinds

(* The organization's reservation is whole until something is refunded,    *)
(* never counts money the buyer got back, and is gone when the order ends, *)
(* for all amounts, discounts and refunds, whatever operators request by   *)
(* hand.                                                                   *)
THEOREM BudgetFollowsSpend == Spec => []BudgetTracksSpend
<1>1. Init => BudgetTracksSpend
  BY TermsType, ColumnNames
  DEF Init, BudgetTracksSpend, ToPay, Payable, Ended, Columns, Accounts
<1>2. MoneyInv /\ MoneyInv' /\ BudgetTracksSpend /\ [Next]_vars => BudgetTracksSpend'
  BY BudgetStep
<1>3. QED
  BY <1>1, <1>2, MoneyCorrect, PTL DEF Spec
-----------------------------------------------------------------------------
(* The order keeps the promise: refinement of EscrowPromise.               *)

(* A fresh order is an open promise. *)
LEMMA PromiseInit == Init => Promise!Init
<1> SUFFICES ASSUME Init
             PROVE  Promise!Init
  OBVIOUS
<1>1. \A a \in Accounts : books[a] = 0
  BY DEF Init, Columns, Accounts
<1>2. Stage = "open" /\ terms \in Terms /\ ~Funded
  BY DEF Init, Stage, Funded
<1>3. QED
  BY <1>1, <1>2 DEF Promise!Init, Captured

(* The seven values of the abstract state, and when each is left alone.    *)
LEMMA PromiseStutters ==
  ASSUME terms' = terms, payments' = payments, Stage' = Stage,
         Funded => \A a \in Accounts : books'[a] = books[a]
  PROVE  UNCHANGED Promise!pot
<1>1. CASE Funded
  BY <1>1 DEF Promise!pot, Accounts, Captured, Funded
<1>2. CASE ~Funded
  BY <1>2 DEF Promise!pot, Captured, Funded
<1> QED BY <1>1, <1>2

(* Every step of the order is a step of the promise or leaves it alone.    *)
LEMMA PromiseStep ==
  ASSUME MoneyInv, MoneyInv', [Next]_vars
  PROVE  [Promise!Next]_(Promise!pot)
<1> USE DEF moveTo, order
<1>1. TypeOK /\ TypeOK' /\ BooksInv /\ MoneyByState
  BY DEF MoneyInv, BooksInv
<1>2. /\ Amount \in Nat /\ terms.amount = Amount
      /\ \A c \in Columns : books[c] \in Int /\ books'[c] \in Int
      /\ settlement.fee \in Nat /\ settlement.net \in Nat
      /\ settlement'.fee \in Nat /\ settlement'.net \in Nat
  BY <1>1, TermsType DEF TypeOK, Amount
<1>3. CASE Pays
  <2>1. PICK key \in Keys : payOrder(key)
    BY <1>3 DEF Pays
  <2>2. Posts(books, books', Amount, -ToPay, -terms.discount, 0, 0, 0, 0, 0)
    BY <1>1, <2>1, PaymentPosts DEF payOrder, TypeOK
  <2>3. /\ state \in Unpaid /\ state' = "READY" /\ payments' # {}
        /\ UNCHANGED <<terms, settlement>>
        /\ payments = {} /\ books["Escrow"] = 0 /\ settlement.state = "none"
        /\ NothingReturned
    BY <1>1, <2>1 DEF payOrder, Unpaid, BooksInv, PaidOnce, MoneyByState
  <2>4. Stage = "open" /\ Stage' = "held"
    BY <2>3 DEF Stage, InWork, Funded
  <2>7. SettlementOnBooks'
    BY DEF MoneyInv, BooksInv
  <2>5. Promise!Fund
    BY <1>2, <2>2, <2>3, <2>4, <2>7, ColumnNames
    DEF Promise!Fund, Posts, Captured, Funded, NothingReturned, SettlementOnBooks,
        Live, Pending
  <2>6. QED
    BY <2>5 DEF Promise!Next
<1>4. ASSUME state \in InWork \cup {"DISPUTED"}, Funded, payments' = payments,
             Undivided \/ Divided, settlement.state # "completed", NothingReturned,
             ~ClosedByHand',
             terms' = terms, books'["SellerPayout"] = books["SellerPayout"],
             state' \in Confirmed \cup Ended, settlement'.state # "completed",
             books'["BuyerRefund"] + books'["PromotionRecovery"] >= 0
      PROVE  Promise!Divide
  <2>1. Stage \in {"held", "divided"}
    BY <1>4 DEF Stage
  <2>2. Stage' = "divided"
    BY <1>4 DEF Stage, Confirmed, Ended, InWork, Funded
  <2>3. /\ books'["Escrow"] = 0
        /\ books'["BuyerRefund"] + books'["PromotionRecovery"]
             + books'["PlatformRevenue"] + books'["SellerPayable"] = Amount
        /\ books'["PlatformRevenue"] >= 0 /\ books'["SellerPayable"] >= 0
    <3>1. MoneyByState' /\ SettlementOnBooks' /\ terms' = terms /\ Funded'
      BY <1>4 DEF MoneyInv, BooksInv, Funded
    <3>2. CASE state' \in Confirmed
      BY <1>2, <1>4, <3>1, <3>2, ColumnNames
      DEF MoneyByState, Divided, SettlementOnBooks, Standing, Live, Pending, Amount
    <3>3. CASE state' \in Ended
      <4>1. terms.discount \in 0..Amount /\ ToPay = Amount - terms.discount
        BY <1>1, TermsType DEF TypeOK, Amount, ToPay, Payable
      <4>2. QED
        BY <1>2, <1>4, <3>1, <3>3, <4>1, ColumnNames
        DEF MoneyByState, Repaid, SettlementOnBooks, Live, Pending, ToPay
    <3>4. QED
      BY <1>4, <3>2, <3>3
  <2>4. QED
    BY <1>2, <1>4, <2>1, <2>2, <2>3, ColumnNames
    DEF Promise!Divide, NothingReturned, Captured, Funded
<1>0. CASE ~Funded'
  <2>1. payments' = payments /\ terms' = terms
    <3>1. ~Pays
      BY <1>0 DEF Pays, payOrder, Funded
    <3> QED
      BY <1>1, <3>1, StepKinds, DecisionEffect
      DEF Confirms, acceptAndSettle, Moves, Disputes, Decides, Adjusts,
          completeSettlement, Rests
  <2>2. Stage = "open" /\ Stage' = "open" /\ ~Funded
    BY <1>0, <2>1 DEF Stage, Funded
  <2> QED BY <2>1, <2>2, PromiseStutters
<1>5. CASE Confirms /\ Funded'
  <2>1. /\ state = "DELIVERED" /\ state' = "ACCEPTED"
        /\ settlement.state = "none" /\ settlement'.state = "scheduled"
        /\ Posts(books, books', -Amount, 0, 0, 0, 0, settlement'.fee, settlement'.net, 0)
        /\ UNCHANGED <<terms, payments>>
    BY <1>1, <1>5, AcceptEffect DEF Confirms
  <2>4. Funded /\ NothingReturned /\ Undivided /\ ~ClosedByHand'
    BY <1>1, <1>5, <2>1 DEF MoneyByState, InWork, Funded, ClosedByHand
  <2>2. Promise!Divide
    BY <1>2, <1>4, <2>1, <2>4, ColumnNames
    DEF NothingReturned, InWork, Confirmed, Posts
  <2>3. QED
    BY <2>2 DEF Promise!Next
<1>6. CASE Moves /\ Funded'
  <2>1. UNCHANGED <<terms, settlement, dispute, payments>> /\ Funded
    BY <1>6 DEF Moves, Funded
  <2>2. PICK held \in Nat : \E mine \in 0..held :
          /\ Posts(books, books', -held, 0, 0, mine, held - mine, 0, 0, 0)
          /\ state' \notin Ended => held = 0
          /\ state' \in Ended => held = IF books["Escrow"] < 0 THEN 0 ELSE books["Escrow"]
    BY <1>1, <1>6, TransitionPosts DEF Moves, TypeOK
  <2>3. PICK mine \in 0..held :
          /\ Posts(books, books', -held, 0, 0, mine, held - mine, 0, 0, 0)
          /\ state' \notin Ended => held = 0
          /\ state' \in Ended => held = IF books["Escrow"] < 0 THEN 0 ELSE books["Escrow"]
    BY <2>2
  <2>4. CASE held = 0 /\ Stage' = Stage
    <3>1. \A a \in Accounts : books'[a] = books[a]
      BY <1>2, <2>3, <2>4, ColumnNames DEF Posts, Accounts
    <3>2. QED
      BY <2>1, <2>4, <3>1, PromiseStutters
  <2>5. ASSUME state \in InWork \cup {"DISPUTED"}, state' \in Ended, Undivided, NothingReturned
        PROVE  Promise!Divide
    <3>1. ~ClosedByHand' /\ settlement'.state = "none"
      BY <2>1, <2>5 DEF Undivided, ClosedByHand
    <3> QED
      BY <1>2, <1>4, <2>1, <2>3, <2>5, <3>1, ColumnNames
      DEF Posts, NothingReturned, Undivided
  <2>6. CASE state \in Unpaid
    BY <1>1, <2>1, <2>6 DEF BooksInv, PaidOnce, Funded
  <2>7. CASE state \in InWork /\ state' \in InWork
    <3>1. held = 0 /\ Stage' = Stage
      BY <2>1, <2>3, <2>7 DEF Stage, InWork, Ended, Funded
    <3>2. QED
      BY <2>4, <3>1
  <2>8. CASE state \in InWork /\ state' \in Ended
    BY <1>1, <2>5, <2>8 DEF MoneyByState, Promise!Next
  <2>9. CASE state \in InWork \cup {"ACCEPTED"} /\ state' = "DISPUTED"
    <3>1. /\ state \in InWork => settlement.state = "none"
          /\ state = "ACCEPTED" => settlement.state \in Standing
      BY <1>1 DEF MoneyByState, Undivided, Divided, Confirmed
    <3>2. held = 0 /\ Stage' = Stage
      BY <2>1, <2>3, <2>9, <3>1 DEF Stage, InWork, Ended, Funded, Standing, Live, Pending
    <3>3. QED
      BY <2>4, <3>2
  <2>10. CASE state = "DISPUTED" /\ state' = "REFUNDED"
    <3>1. NothingReturned /\ (Undivided \/ Divided)
      BY <1>1, <2>10 DEF MoneyByState
    <3>2. CASE Undivided
      BY <2>5, <2>10, <3>1, <3>2 DEF Ended, Promise!Next
    <3>3. CASE Divided
      <4>1. books["Escrow"] = 0 /\ settlement.state # "none"
        BY <2>1, <3>3 DEF Divided, Standing, Live, Pending
      <4>2. held = 0 /\ Stage' = Stage
        BY <2>1, <2>3, <2>10, <4>1 DEF Stage, InWork, Ended, Funded
      <4>3. QED
        BY <2>4, <4>2
    <3> QED BY <3>1, <3>2, <3>3
  <2>11. CASE state = "ACCEPTED" /\ state' = "COMPLETED"
    <3>1. held = 0 /\ Stage' = Stage
      BY <2>1, <2>3, <2>11 DEF Stage, InWork, Ended, Funded
    <3>2. QED
      BY <2>4, <3>1
  <2>12. QED
    BY <1>6, <2>6, <2>7, <2>8, <2>9, <2>10, <2>11, MoveKinds DEF Unpaid
<1>7. CASE Disputes
  <2>1. /\ UNCHANGED <<terms, books, payments>>
        /\ state' = "DISPUTED"
        /\ state \in InWork \cup {"ACCEPTED"}
        /\ \/ settlement'.state = settlement.state
           \/ settlement.state \in Live /\ settlement'.state \in Live
    BY <1>1, <1>7 DEF Disputes, TypeOK, Live, Pending, orderTransitions, InWork
  <2>2. /\ state \in InWork => settlement.state = "none"
        /\ state = "ACCEPTED" => settlement.state \in Standing
    BY <1>1, <2>1 DEF MoneyByState, Undivided, Divided, Confirmed
  <2>3. Stage' = Stage
    BY <2>1, <2>2 DEF Stage, InWork, Standing, Live, Pending, Funded
  <2>4. QED
    BY <2>1, <2>3, PromiseStutters
<1>8. CASE Decides /\ Funded'
  <2>1. PICK refund \in Refunds, rate \in FeeRates : resolveDispute(refund, rate)
    BY <1>8 DEF Decides
  <2>2. /\ state = "DISPUTED" /\ settlement.state # "completed"
        /\ UNCHANGED <<terms, payments>>
        /\ refund \in 0..Amount
        /\ state' \in Confirmed \cup Ended
        /\ ~ClosedByHand'
    BY <1>1, <2>1, DecisionEffect DEF Confirmed, Ended, ClosedByHand
  <2>3. PICK mine \in 0..refund :
          \/ PartRefunded(refund, mine)
          \/ /\ refund = Amount
             /\ \E held \in Nat : \E extra \in 0..held : AllRefunded(mine, held, extra)
    BY <1>1, <2>1, DecisionEffect
  <2>4. Funded /\ (Undivided \/ Divided) /\ NothingReturned
    BY <1>1, <1>8, <2>2 DEF MoneyByState, Funded
  <2>5. CASE PartRefunded(refund, mine)
    <3>1. /\ settlement'.state # "completed"
          /\ books'["BuyerRefund"] + books'["PromotionRecovery"] >= 0
          /\ books'["SellerPayout"] = books["SellerPayout"]
      BY <1>2, <2>2, <2>4, <2>5, ColumnNames DEF PartRefunded, Posts, NothingReturned
    <3>2. Promise!Divide
      BY <1>4, <2>2, <2>4, <3>1
    <3>3. QED
      BY <3>2 DEF Promise!Next
  <2>6. ASSUME refund = Amount, NEW held \in Nat, NEW extra \in 0..held,
               AllRefunded(mine, held, extra)
        PROVE  [Promise!Next]_(Promise!pot)
    <3>1. settlement'.state # "completed"
      BY <1>1, <2>2, <2>6 DEF AllRefunded, TypeOK
    <3>2. /\ books'["BuyerRefund"] + books'["PromotionRecovery"] >= 0
          /\ books'["SellerPayout"] = books["SellerPayout"]
      BY <1>2, <2>2, <2>4, <2>6, ColumnNames DEF AllRefunded, Posts, NothingReturned
    <3>3. Promise!Divide
      BY <1>4, <2>2, <2>4, <3>1, <3>2
    <3>4. QED
      BY <3>3 DEF Promise!Next
  <2>7. QED
    BY <2>3, <2>5, <2>6
<1>9. CASE Adjusts
  <2>1. /\ UNCHANGED <<terms, state, books, payments>>
        /\ settlement.state \in Live /\ settlement'.state \in Live
    BY <1>1, <1>9 DEF Adjusts, TypeOK
  <2>2. Stage' = Stage
    BY <2>1 DEF Stage, Live, Pending, Funded
  <2>3. QED
    BY <2>1, <2>2, PromiseStutters
<1>10. CASE completeSettlement /\ Funded'
  <2>1. /\ settlement.state \in Pending
        /\ settlement'.state = "completed"
        /\ Posts(books, books', 0, 0, 0, 0, 0, 0, -settlement.net, settlement.net)
        /\ UNCHANGED <<terms, state, payments>>
    BY <1>1, <1>10, PayoutPosts DEF completeSettlement, TypeOK
  <2>2. Funded /\ state \notin InWork
    BY <1>1, <1>10, <2>1
    DEF BooksInv, SettledOnce, Confirmed, InWork, Pending, Funded
  <2>3. Stage = "divided" /\ Stage' = "paid"
    BY <2>1, <2>2 DEF Stage, Pending, Funded
  <2>4. Promise!PayOut
    BY <1>1, <1>2, <1>10, <2>1, <2>2, <2>3, ColumnNames
    DEF Promise!PayOut, Posts, BooksInv, SettlementOnBooks, Live, Pending, Captured, Funded
  <2>5. QED
    BY <2>4 DEF Promise!Next
<1>11. CASE Rests
  <2>1. Stage' = Stage
    BY <1>11 DEF Rests, Stage, Funded
  <2>2. QED
    BY <1>11, <2>1, PromiseStutters DEF Rests
<1>12. QED
  BY <1>0, <1>1, <1>3, <1>5, <1>6, <1>7, <1>8, <1>9, <1>10, <1>11, StepKinds

(* Whatever operators request by hand, every order keeps the promise: the  *)
(* money captured for it is funded once, divided without remainder and     *)
(* paid out at most once.                                                  *)
THEOREM OrderKeepsPromise == Spec => PromiseKept
<1>1. MoneyInv /\ MoneyInv' /\ [Next]_vars => [Promise!Next]_(Promise!pot)
  BY PromiseStep
<1>2. QED
  BY <1>1, PromiseInit, MoneyCorrect, PTL DEF Spec, PromiseKept, Promise!Spec
=============================================================================
