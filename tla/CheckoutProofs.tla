--------------------------- MODULE CheckoutProofs ---------------------------
(***************************************************************************)
(* Theorems about concurrent checkouts, for any number of requests, carts, *)
(* limits and connections.  The argument is the one behind FOR UPDATE: two *)
(* checkouts never hold the same row (Exclusive), a checkout keeps the     *)
(* rows it has read until it ends (RowsKept), so what it concluded from    *)
(* them still holds when it commits (StillFits).                           *)
(***************************************************************************)
EXTENDS Checkout, FiniteInduction, TLAPS

USE OrdersAssumption, CartAssumption, LimitsAssumption

Kinds == {"seller", "coupon", "budget"}

(* How far a request must have come to rely on what it read.               *)
SellerRead == InTransaction \ {"begun"}
RoomSeen == SellerRead \ {"sellerLocked"}
CouponRead == RoomSeen \ {"hasRoom"}
UsesSeen == CouponRead \ {"couponLocked"}

(* Nobody else holds a row that a checkout holds.                          *)
Exclusive ==
  \A o, p \in Orders : \A kind \in Kinds :
    o # p /\ kind \in locks[o] /\ kind \in locks[p] => Cart[o][kind] # Cart[p][kind]

RowsKept ==
  \A o \in Orders :
    /\ step[o] \in SellerRead => "seller" \in locks[o]
    /\ step[o] \in CouponRead /\ Cart[o].coupon # Nothing => "coupon" \in locks[o]
    /\ step[o] = "reserved" /\ Reservation(o) > 0 => "budget" \in locks[o]

(* What a checkout has concluded from its rows still holds.                *)
Fits(o) ==
  /\ step[o] \in RoomSeen => ~ AtCapacity(Cart[o].seller)
  /\ step[o] \in UsesSeen /\ Cart[o].coupon # Nothing
       => ~ UsedUp(Cart[o].coupon, Cart[o].buyer)
  /\ step[o] = "reserved" /\ Reservation(o) > 0 => ~ Exceeds(o)

StillFits == \A o \in Orders : Fits(o)

LockInv == Exclusive /\ RowsKept
LimitInv == StillFits /\ BudgetWithinAmount
CheckoutInv == TypeOK /\ LockInv /\ LimitInv
-----------------------------------------------------------------------------
(* What an order reserves, and what it gives back, are numbers, and it     *)
(* gives back no more than it holds.                                       *)
LEMMA ReservationIsNat ==
  \A o \in Orders : Reservation(o) \in Nat
BY DEF Reservation, Payable

(* What is given back leaves of a total a number between zero and itself.  *)
LEMMA ReleasedBounds ==
  ASSUME NEW total \in Nat, NEW upTo \in Nat
  PROVE  Released(total, upTo) \in 0..total
BY DEF Released

(* What each cart names exists.                                            *)
LEMMA CartRows ==
  \A o \in Orders :
    /\ Cart[o].seller \in Sellers
    /\ Cart[o].coupon # Nothing => Cart[o].coupon \in Coupons
    /\ Cart[o].budget # Nothing => Cart[o].budget \in Budgets
BY DEF Sellers, Coupons, Budgets

(* Nothing is not a row.                                                   *)
LEMMA NothingIsNoRow == Nothing \notin Coupons /\ Nothing \notin Budgets
BY DEF Coupons, Budgets

(* The more orders, the larger their number.                               *)
LEMMA Fewer ==
  ASSUME NEW S \in SUBSET Orders, NEW T \in SUBSET S
  PROVE  /\ Cardinality(S) \in Nat
         /\ Cardinality(T) \in Nat
         /\ Cardinality(T) <= Cardinality(S)
<1>1. IsFiniteSet(S)
  BY FS_Subset
<1>2. IsFiniteSet(T) /\ Cardinality(T) <= Cardinality(S)
  BY <1>1, FS_Subset
<1> QED BY <1>1, <1>2, FS_CardinalityType

(* Adding one new order to a set of orders makes it one larger.            *)
LEMMA OneMore ==
  ASSUME NEW S \in SUBSET Orders, NEW o \in Orders
  PROVE  Cardinality(S \cup {o}) <= Cardinality(S) + 1
<1>1. IsFiniteSet(S)
  BY FS_Subset
<1>2. Cardinality(S) \in Nat
  BY <1>1, FS_CardinalityType
<1>3. Cardinality(S \cup {o}) = IF o \in S THEN Cardinality(S) ELSE Cardinality(S) + 1
  BY <1>1, FS_AddElement
<1> QED BY <1>2, <1>3
-----------------------------------------------------------------------------
(* A statement of a checkout before its commit moves that checkout, locks  *)
(* and unlocks rows of its own, and shows nothing to anybody.              *)
Statement(o) ==
  \/ begin(o) \/ lockSeller(o) \/ countOrders(o) \/ lockCoupon(o) \/ countRedemptions(o)
  \/ featureEnabled(o) \/ queryFeatures(o) \/ featureAnswered(o) \/ reserveBudget(o)
  \/ lookForAnnouncement(o) \/ announceBudgetExhausted(o) \/ abort(o)

Edit ==
  \/ \E s \in Sellers, n \in Capacities : putMySellerProfile(s, n)
  \/ \E c \in Coupons, terms \in CouponTerms \cup {Stopped} : updateCoupon(c, terms)

(* Every step is one of four: a request arrives, a statement of a          *)
(* transaction runs, a table is edited, or nothing happens.                *)
LEMMA StepIsOneOf ==
  ASSUME [Next]_vars
  PROVE  \/ \E o \in Orders : Statement(o)
         \/ \E o \in Orders : commit(o)
         \/ \E o \in Orders : Lifecycle(o)
         \/ Edit
         \/ UNCHANGED vars
BY DEF Next, createOrder, Statement, Edit

(* What a statement of createOrder can touch.                              *)
LEMMA StatementEffect ==
  ASSUME TypeOK, NEW o \in Orders, Statement(o)
  PROVE  /\ step' = [step EXCEPT ![o] = step'[o]]
         /\ step'[o] \in Steps \ {"placed"}
         /\ locks' = [locks EXCEPT ![o] = locks'[o]]
         /\ locks'[o] \in SUBSET Kinds
         /\ UNCHANGED <<placedOrders, limits>>
BY DEF Statement, begin, lockSeller, countOrders, lockCoupon, countRedemptions,
       featureEnabled, queryFeatures, featureAnswered, reserveBudget,
       lookForAnnouncement, announceBudgetExhausted, abort, goto, lock, rollback,
       TypeOK, Steps, InTransaction, Refusing, Kinds, placedOrders, limits

(* What the end of a transaction does to the tables and the locks.         *)
LEMMA CommitEffect ==
  ASSUME TypeOK, NEW o \in Orders, commit(o)
  PROVE  /\ step[o] \in {"priced", "reserved"}
         /\ Reservation(o) > 0 => step[o] = "reserved"
         /\ step' = [step EXCEPT ![o] = "placed"]
         /\ locks' = [locks EXCEPT ![o] = {}]
         /\ live' = [live EXCEPT ![o] = "unpaid"]
         /\ redeemed' \subseteq redeemed \cup {o}
         /\ Cart[o].coupon = Nothing => redeemed' = redeemed
         /\ \A b \in Budgets :
              consumed'[b] = IF b = Cart[o].budget THEN consumed[b] + Reservation(o)
                             ELSE consumed[b]
         /\ UNCHANGED limits
BY CartAssumption DEF commit, goto, rollback, limits, Reservation

(* What became of placed orders frees room, uses and money, and leaves the *)
(* checkouts alone.                                                        *)
LEMMA LifecycleEffect ==
  ASSUME TypeOK, NEW o \in Orders, Lifecycle(o)
  PROVE  /\ UNCHANGED <<step, locks, limits>>
         /\ \A s : ActiveOf(s)' \subseteq ActiveOf(s)
         /\ redeemed' \subseteq redeemed
         /\ \A b \in Budgets : consumed'[b] \in 0..consumed[b]
<1>1. ASSUME UNCHANGED consumed
      PROVE  \A b \in Budgets : consumed'[b] \in 0..consumed[b]
  BY <1>1 DEF TypeOK
<1>2. ASSUME NEW upTo \in Nat, releaseBudget(o, upTo)
      PROVE  \A b \in Budgets : consumed'[b] \in 0..consumed[b]
  <2>1. Released(held[o], upTo) \in Nat
    BY ReleasedBounds DEF TypeOK
  <2> QED BY <1>2, <2>1 DEF releaseBudget, TypeOK
<1>3. ASSUME live[o] # "none", live[o] # "ended",
             \/ live' = [live EXCEPT ![o] = "active"]
             \/ live' = [live EXCEPT ![o] = "ended"]
      PROVE  \A s : ActiveOf(s)' \subseteq ActiveOf(s)
  BY <1>3 DEF ActiveOf, TypeOK
<1>4. CASE payOrder(o)
  BY <1>1, <1>3, <1>4 DEF payOrder, limits
<1>5. CASE completeOrder(o)
  BY <1>1, <1>3, <1>5 DEF completeOrder, limits
<1>6. CASE endOrder(o)
  BY <1>2, <1>3, <1>6 DEF endOrder, limits
<1>7. CASE expireOrder(o)
  BY <1>2, <1>3, <1>7 DEF expireOrder, limits
<1>8. ASSUME NEW returned \in Refunds, refundPart(o, returned)
      PROVE  /\ UNCHANGED <<step, locks, limits>>
             /\ \A s : ActiveOf(s)' \subseteq ActiveOf(s)
             /\ redeemed' \subseteq redeemed
             /\ \A b \in Budgets : consumed'[b] \in 0..consumed[b]
  BY <1>2, <1>3, <1>8 DEF refundPart, limits
<1> QED BY <1>4, <1>5, <1>6, <1>7, <1>8 DEF Lifecycle

(* An edit of a limit changes no row that a checkout holds.                *)
LEMMA EditEffect ==
  ASSUME TypeOK, Edit
  PROVE  /\ UNCHANGED <<step, locks, placedOrders, amount>>
         /\ \A o \in Orders : "seller" \in locks[o] =>
              capacity'[Cart[o].seller] = capacity[Cart[o].seller]
         /\ \A o \in Orders : "coupon" \in locks[o] =>
              coupon'[Cart[o].coupon] = coupon[Cart[o].coupon]
<1>1. ASSUME NEW s \in Sellers, NEW n \in Capacities, putMySellerProfile(s, n)
      PROVE  /\ UNCHANGED <<step, locks, placedOrders, amount, coupon>>
             /\ \A o \in Orders : "seller" \in locks[o] =>
                  capacity'[Cart[o].seller] = capacity[Cart[o].seller]
  BY <1>1 DEF putMySellerProfile, Unlocked, TypeOK
<1>2. ASSUME NEW c \in Coupons, NEW terms \in CouponTerms \cup {Stopped}, updateCoupon(c, terms)
      PROVE  /\ UNCHANGED <<step, locks, placedOrders, amount, capacity>>
             /\ \A o \in Orders : "coupon" \in locks[o] =>
                  coupon'[Cart[o].coupon] = coupon[Cart[o].coupon]
  BY <1>2 DEF updateCoupon, Unlocked, TypeOK
<1> QED BY <1>1, <1>2 DEF Edit
-----------------------------------------------------------------------------
(* The shop opens with nobody inside a transaction.                        *)
LEMMA InitInv == Init => CheckoutInv
<1> SUFFICES ASSUME Init PROVE CheckoutInv
  OBVIOUS
<1>1. TypeOK
  <2>1. /\ capacity \in [Sellers -> Nat]
        /\ coupon \in [Coupons -> [usage : Nat, perUser : Nat]]
        /\ amount \in [Budgets -> Nat]
    BY DEF Init
  <2>2. /\ consumed \in [Budgets -> Nat]
        /\ announced \in [Budgets -> Nat]
        /\ edits \in 0..MaxEdits
    BY DEF Init
  <2>3. /\ step \in [Orders -> Steps]
        /\ locks \in [Orders -> SUBSET {"seller", "coupon", "budget"}]
        /\ live \in [Orders -> {"none", "unpaid", "active", "ended"}]
        /\ held \in [Orders -> Nat]
        /\ redeemed = {}
    BY DEF Init, Steps
  <2> QED BY <2>1, <2>2, <2>3 DEF TypeOK
<1>2. LockInv
  BY DEF Init, LockInv, Exclusive, RowsKept, SellerRead, CouponRead, RoomSeen, InTransaction
<1>3. StillFits
  BY DEF Init, StillFits, Fits, RoomSeen, UsesSeen, CouponRead, SellerRead, InTransaction
<1>4. BudgetWithinAmount
  BY <1>1 DEF Init, BudgetWithinAmount, TypeOK
<1> QED BY <1>1, <1>2, <1>3, <1>4 DEF CheckoutInv, LimitInv

(* The types.  The number that could leave its type is a budget's total;   *)
(* releaseBudget's floor keeps it at zero or above.                        *)
LEMMA TypeStep == TypeOK /\ [Next]_vars => TypeOK'
<1> SUFFICES ASSUME TypeOK, [Next]_vars PROVE TypeOK'
  OBVIOUS
<1>1. ASSUME NEW o \in Orders, begin(o) \/ createOrder(o) \/ abort(o)
      PROVE  TypeOK'
  <2>1. CASE Statement(o)
    <3>1. announced' \in [Budgets -> Nat]
      BY <2>1 DEF Statement, begin, lockSeller, countOrders, lockCoupon, countRedemptions,
        featureEnabled, queryFeatures, featureAnswered, reserveBudget,
        lookForAnnouncement, announceBudgetExhausted, abort, TypeOK
    <3> QED BY <2>1, <3>1, StatementEffect DEF TypeOK, placedOrders, limits, Kinds
  <2>2. CASE commit(o)
    <3>1. consumed' \in [Budgets -> Nat] /\ held' \in [Orders -> Nat]
      BY <2>2, ReservationIsNat DEF commit, TypeOK
    <3>2. redeemed' \subseteq {p \in Orders : Cart[p].coupon # Nothing /\ live'[p] # "none"}
      BY <2>2 DEF commit, TypeOK
    <3> QED BY <2>2, <3>1, <3>2 DEF commit, goto, rollback, limits, TypeOK, Steps
  <2> QED BY <1>1, <2>1, <2>2 DEF createOrder, Statement
<1>2. ASSUME NEW o \in Orders, NEW upTo \in Nat, releaseBudget(o, upTo)
      PROVE  held' \in [Orders -> Nat] /\ consumed' \in [Budgets -> Nat]
  <2>1. Released(held[o], upTo) \in 0..held[o]
    BY ReleasedBounds DEF TypeOK
  <2> QED BY <1>2, <2>1 DEF releaseBudget, TypeOK
<1>3. ASSUME NEW o \in Orders, payOrder(o) \/ completeOrder(o)
      PROVE  TypeOK'
  BY <1>3 DEF payOrder, completeOrder, limits, TypeOK
<1>4. ASSUME NEW o \in Orders, endOrder(o) \/ expireOrder(o)
      PROVE  TypeOK'
  BY <1>2, <1>4 DEF endOrder, expireOrder, limits, TypeOK
<1>5. ASSUME NEW o \in Orders, NEW returned \in Refunds, refundPart(o, returned)
      PROVE  TypeOK'
  BY <1>2, <1>5 DEF refundPart, limits, TypeOK
<1>6. ASSUME NEW s \in Sellers, NEW n \in Capacities, putMySellerProfile(s, n)
      PROVE  TypeOK'
  BY <1>6 DEF putMySellerProfile, placedOrders, TypeOK
<1>7. ASSUME NEW c \in Coupons, NEW terms \in CouponTerms \cup {Stopped}, updateCoupon(c, terms)
      PROVE  TypeOK'
  BY <1>7 DEF updateCoupon, placedOrders, Stopped, TypeOK
<1>8. CASE UNCHANGED vars
  BY <1>8 DEF vars, TypeOK
<1> QED BY <1>1, <1>3, <1>4, <1>5, <1>6, <1>7, <1>8 DEF Next, Lifecycle

(* Rows are taken one checkout at a time, and kept.                        *)
LEMMA LockStep == TypeOK /\ LockInv /\ [Next]_vars => LockInv'
<1> SUFFICES ASSUME TypeOK, LockInv, [Next]_vars PROVE LockInv'
  OBVIOUS
<1>1. ASSUME NEW o \in Orders, Statement(o)
      PROVE  LockInv'
  <2>1. \A kind \in Kinds : kind \in locks'[o] \ locks[o] => Free(o, kind)
    BY <1>1 DEF Statement, begin, lockSeller, countOrders, lockCoupon, countRedemptions,
       featureEnabled, queryFeatures, featureAnswered, reserveBudget,
       lookForAnnouncement, announceBudgetExhausted, abort, goto, lock, rollback, TypeOK
  <2>2. Exclusive'
    BY <1>1, <2>1, StatementEffect DEF LockInv, Exclusive, Free, TypeOK
  <2>3. /\ step'[o] \in SellerRead => "seller" \in locks'[o]
        /\ step'[o] \in CouponRead /\ Cart[o].coupon # Nothing => "coupon" \in locks'[o]
        /\ step'[o] = "reserved" /\ Reservation(o) > 0 => "budget" \in locks'[o]
    BY <1>1 DEF Statement, begin, lockSeller, countOrders, lockCoupon, countRedemptions,
       featureEnabled, queryFeatures, featureAnswered, reserveBudget,
       lookForAnnouncement, announceBudgetExhausted, abort, goto, lock, rollback, TypeOK,
       LockInv, RowsKept, SellerRead, RoomSeen, CouponRead, InTransaction, Refusing
  <2>4. RowsKept'
    BY <1>1, <2>3, StatementEffect DEF LockInv, RowsKept, TypeOK, Reservation
  <2> QED BY <2>2, <2>4 DEF LockInv
<1>2. ASSUME NEW o \in Orders, commit(o)
      PROVE  LockInv'
  <2>1. /\ step'[o] = "placed" /\ locks'[o] = {}
        /\ \A p \in Orders \ {o} : step'[p] = step[p] /\ locks'[p] = locks[p]
    BY <1>2, CommitEffect DEF TypeOK
  <2>2. Exclusive'
    BY <2>1 DEF LockInv, Exclusive
  <2>3. RowsKept'
    BY <2>1 DEF LockInv, RowsKept, Reservation, SellerRead, RoomSeen, CouponRead, InTransaction
  <2> QED BY <2>2, <2>3 DEF LockInv
<1>3. CASE UNCHANGED <<step, locks>>
  BY <1>3 DEF LockInv, Exclusive, RowsKept, Reservation
<1> QED BY <1>1, <1>2, <1>3, StepIsOneOf, LifecycleEffect, EditEffect DEF vars

(* What a checkout saw stays true while others hold, and give back, other  *)
(* things.                                                                 *)
LEMMA RoomStays ==
  ASSUME TypeOK, NEW s \in Sellers, ~ AtCapacity(s),
         capacity'[s] = capacity[s], ActiveOf(s)' \subseteq ActiveOf(s)
  PROVE  ~ AtCapacity(s)'
<1>1. ActiveOf(s) \subseteq Orders
  BY DEF ActiveOf
<1>2. /\ Cardinality(ActiveOf(s)) \in Nat
      /\ Cardinality(ActiveOf(s)') \in Nat
      /\ Cardinality(ActiveOf(s)') <= Cardinality(ActiveOf(s))
  BY <1>1, Fewer
<1> QED BY <1>2 DEF AtCapacity, TypeOK

(* A coupon that is not used up stays so while its uses only become fewer. *)
LEMMA UsesStay ==
  ASSUME TypeOK, NEW c \in Coupons, NEW buyer, ~ UsedUp(c, buyer),
         coupon'[c] = coupon[c], RedeemedOf(c)' \subseteq RedeemedOf(c)
  PROVE  ~ UsedUp(c, buyer)'
<1>1. /\ RedeemedOf(c) \subseteq Orders
      /\ RedeemedBy(c, buyer) \subseteq Orders
      /\ RedeemedBy(c, buyer)' \subseteq RedeemedBy(c, buyer)
  BY DEF RedeemedOf, RedeemedBy, TypeOK
<1>2. /\ Cardinality(RedeemedOf(c)) \in Nat
      /\ Cardinality(RedeemedOf(c)') \in Nat
      /\ Cardinality(RedeemedOf(c)') <= Cardinality(RedeemedOf(c))
  BY <1>1, Fewer
<1>3. /\ Cardinality(RedeemedBy(c, buyer)) \in Nat
      /\ Cardinality(RedeemedBy(c, buyer)') \in Nat
      /\ Cardinality(RedeemedBy(c, buyer)') <= Cardinality(RedeemedBy(c, buyer))
  BY <1>1, Fewer
<1>4. coupon[c].usage \in Nat /\ coupon[c].perUser \in Nat
  BY DEF TypeOK
<1> QED BY <1>2, <1>3, <1>4 DEF UsedUp

(* A step that leaves what Fits is about as it was, or better.             *)
LeavesAlone(o) ==
  /\ step'[o] = step[o]
  /\ step[o] \in RoomSeen =>
       /\ capacity'[Cart[o].seller] = capacity[Cart[o].seller]
       /\ ActiveOf(Cart[o].seller)' \subseteq ActiveOf(Cart[o].seller)
  /\ step[o] \in UsesSeen /\ Cart[o].coupon # Nothing =>
       /\ coupon'[Cart[o].coupon] = coupon[Cart[o].coupon]
       /\ RedeemedOf(Cart[o].coupon)' \subseteq RedeemedOf(Cart[o].coupon)
  /\ step[o] = "reserved" /\ Reservation(o) > 0 =>
       consumed'[Cart[o].budget] \in 0..consumed[Cart[o].budget]

(* What an order has checked holds after a step that leaves it alone.      *)
LEMMA FitsStill ==
  ASSUME TypeOK, NEW o \in Orders, Fits(o), LeavesAlone(o), UNCHANGED amount
  PROVE  Fits(o)'
<1>1. step'[o] \in RoomSeen => ~ AtCapacity(Cart[o].seller)'
  BY RoomStays, CartRows DEF Fits, LeavesAlone
<1>2. step'[o] \in UsesSeen /\ Cart[o].coupon # Nothing
        => ~ UsedUp(Cart[o].coupon, Cart[o].buyer)'
  BY UsesStay, CartRows DEF Fits, LeavesAlone
<1>3. step'[o] = "reserved" /\ Reservation(o) > 0 => ~ Exceeds(o)'
  <2> SUFFICES ASSUME step'[o] = "reserved", Reservation(o) > 0
               PROVE  ~ Exceeds(o)'
    OBVIOUS
  <2>1. Cart[o].budget \in Budgets
    BY CartRows DEF Reservation
  <2>2. /\ consumed[Cart[o].budget] \in Nat
        /\ amount[Cart[o].budget] \in Nat
        /\ Reservation(o) \in Nat
    BY <2>1, ReservationIsNat DEF TypeOK
  <2>3. /\ consumed'[Cart[o].budget] \in 0..consumed[Cart[o].budget]
        /\ ~ (consumed[Cart[o].budget] + Reservation(o) > amount[Cart[o].budget])
    BY DEF Fits, LeavesAlone, Exceeds
  <2>4. ~ (consumed'[Cart[o].budget] + Reservation(o) > amount'[Cart[o].budget])
    BY <2>2, <2>3
  <2> QED BY <2>4 DEF Exceeds, Reservation
<1> QED BY <1>1, <1>2, <1>3 DEF Fits, Reservation

(* A statement of a checkout itself: what it has just read, or read before. *)
LEMMA StatementFits ==
  ASSUME TypeOK, NEW o \in Orders, Fits(o), Statement(o)
  PROVE  Fits(o)'
<1>1. UNCHANGED <<live, redeemed, consumed, capacity, coupon, amount>>
  BY StatementEffect DEF placedOrders, limits
<1>2. /\ AtCapacity(Cart[o].seller)' = AtCapacity(Cart[o].seller)
      /\ UsedUp(Cart[o].coupon, Cart[o].buyer)' = UsedUp(Cart[o].coupon, Cart[o].buyer)
      /\ Exceeds(o)' = Exceeds(o)
      /\ Reservation(o)' = Reservation(o)
  BY <1>1 DEF AtCapacity, ActiveOf, UsedUp, RedeemedOf, RedeemedBy, Exceeds, Reservation
<1>3. step'[o] \in RoomSeen => step[o] \in RoomSeen \/ ~ AtCapacity(Cart[o].seller)
  BY DEF Statement, begin, lockSeller, countOrders, lockCoupon, countRedemptions,
     featureEnabled, queryFeatures, featureAnswered, reserveBudget,
     lookForAnnouncement, announceBudgetExhausted, abort, goto, TypeOK,
     RoomSeen, SellerRead, InTransaction, Refusing
<1>4. step'[o] \in UsesSeen /\ Cart[o].coupon # Nothing
        => step[o] \in UsesSeen \/ ~ UsedUp(Cart[o].coupon, Cart[o].buyer)
  BY DEF Statement, begin, lockSeller, countOrders, lockCoupon, countRedemptions,
     featureEnabled, queryFeatures, featureAnswered, reserveBudget,
     lookForAnnouncement, announceBudgetExhausted, abort, goto, TypeOK,
     UsesSeen, CouponRead, RoomSeen, SellerRead, InTransaction, Refusing
<1>5. step'[o] = "reserved" /\ Reservation(o) > 0 => ~ Exceeds(o)
  BY DEF Statement, begin, lockSeller, countOrders, lockCoupon, countRedemptions,
     featureEnabled, queryFeatures, featureAnswered, reserveBudget,
     lookForAnnouncement, announceBudgetExhausted, abort, goto, TypeOK
<1> QED BY <1>2, <1>3, <1>4, <1>5 DEF Fits

(* A commit takes room, a use and money only of rows it holds, so from     *)
(* nobody else who has looked at them.                                     *)
LEMMA CommitLeavesAlone ==
  ASSUME TypeOK, LockInv, NEW o \in Orders, NEW p \in Orders \ {o}, commit(o)
  PROVE  LeavesAlone(p)
<1>0. /\ step[o] \in {"priced", "reserved"}
      /\ Reservation(o) > 0 => step[o] = "reserved"
      /\ step'[p] = step[p]
      /\ live' = [live EXCEPT ![o] = "unpaid"]
      /\ redeemed' \subseteq redeemed \cup {o}
      /\ Cart[o].coupon = Nothing => redeemed' = redeemed
      /\ UNCHANGED limits
  BY CommitEffect DEF TypeOK
<1>1. step[p] \in RoomSeen =>
        /\ Cart[o].seller # Cart[p].seller
        /\ ActiveOf(Cart[p].seller)' \subseteq ActiveOf(Cart[p].seller)
  <2> SUFFICES ASSUME step[p] \in RoomSeen
               PROVE  /\ Cart[o].seller # Cart[p].seller
                      /\ ActiveOf(Cart[p].seller)' \subseteq ActiveOf(Cart[p].seller)
    OBVIOUS
  <2>1. "seller" \in locks[o] /\ "seller" \in locks[p]
    BY <1>0 DEF LockInv, RowsKept, RoomSeen, SellerRead, InTransaction
  <2>2. Cart[o].seller # Cart[p].seller
    BY <2>1 DEF LockInv, Exclusive, Kinds
  <2> QED BY <1>0, <2>2 DEF ActiveOf, TypeOK
<1>2. step[p] \in UsesSeen /\ Cart[p].coupon # Nothing =>
        RedeemedOf(Cart[p].coupon)' \subseteq RedeemedOf(Cart[p].coupon)
  <2> SUFFICES ASSUME step[p] \in UsesSeen, Cart[p].coupon # Nothing
               PROVE  RedeemedOf(Cart[p].coupon)' \subseteq RedeemedOf(Cart[p].coupon)
    OBVIOUS
  <2>1. CASE Cart[o].coupon = Nothing
    BY <1>0, <2>1 DEF RedeemedOf
  <2>2. CASE Cart[o].coupon # Nothing
    <3>1. "coupon" \in locks[o] /\ "coupon" \in locks[p]
      BY <1>0, <2>2 DEF LockInv, RowsKept, UsesSeen, CouponRead, RoomSeen, SellerRead,
         InTransaction
    <3>2. Cart[o].coupon # Cart[p].coupon
      BY <3>1 DEF LockInv, Exclusive, Kinds
    <3> QED BY <1>0, <3>2 DEF RedeemedOf
  <2> QED BY <2>1, <2>2
<1>3. step[p] = "reserved" /\ Reservation(p) > 0 =>
        consumed'[Cart[p].budget] \in 0..consumed[Cart[p].budget]
  <2> SUFFICES ASSUME step[p] = "reserved", Reservation(p) > 0
               PROVE  consumed'[Cart[p].budget] \in 0..consumed[Cart[p].budget]
    OBVIOUS
  <2>1. Cart[p].budget \in Budgets
    BY CartRows DEF Reservation
  <2>2. /\ consumed[Cart[p].budget] \in Nat
        /\ Reservation(o) \in Nat
    BY <2>1, ReservationIsNat DEF TypeOK
  <2>3. consumed'[Cart[p].budget] = IF Cart[p].budget = Cart[o].budget
                                      THEN consumed[Cart[p].budget] + Reservation(o)
                                      ELSE consumed[Cart[p].budget]
    BY <2>1, CommitEffect
  <2>4. Reservation(o) > 0 => Cart[p].budget # Cart[o].budget
    BY <1>0 DEF LockInv, RowsKept, Exclusive, Kinds
  <2> QED BY <2>2, <2>3, <2>4
<1> QED BY <1>0, <1>1, <1>2, <1>3 DEF LeavesAlone, limits

(* What was seen to fit still fits.                                        *)
LEMMA FitsStep == TypeOK /\ LockInv /\ StillFits /\ [Next]_vars => StillFits'
<1> SUFFICES ASSUME TypeOK, LockInv, StillFits, [Next]_vars,
                    NEW p \in Orders
             PROVE  Fits(p)'
  BY DEF StillFits
<1>0. Fits(p)
  BY DEF StillFits
<1>1. ASSUME NEW o \in Orders, Statement(o)
      PROVE  Fits(p)'
  <2>1. CASE p = o
    BY <1>0, <1>1, <2>1, StatementFits
  <2>2. CASE p # o
    <3>1. /\ step'[p] = step[p]
          /\ UNCHANGED <<live, redeemed, consumed, capacity, coupon, amount>>
      BY <1>1, <2>2, StatementEffect DEF placedOrders, limits, TypeOK
    <3>2. Reservation(p) > 0 => Cart[p].budget \in Budgets
      BY CartRows DEF Reservation
    <3>3. LeavesAlone(p)
      BY <3>1, <3>2 DEF LeavesAlone, ActiveOf, RedeemedOf, TypeOK
    <3> QED BY <1>0, <3>1, <3>3, FitsStill
  <2> QED BY <2>1, <2>2
<1>2. ASSUME NEW o \in Orders, commit(o)
      PROVE  Fits(p)'
  <2>1. CASE p = o
    BY <1>2, <2>1, CommitEffect DEF Fits, TypeOK, RoomSeen, UsesSeen, CouponRead,
       SellerRead, InTransaction
  <2>2. CASE p # o
    BY <1>0, <1>2, <2>2, CommitLeavesAlone, CommitEffect, FitsStill DEF limits
  <2> QED BY <2>1, <2>2
<1>3. ASSUME NEW o \in Orders, Lifecycle(o)
      PROVE  Fits(p)'
  <2>1. Reservation(p) > 0 => Cart[p].budget \in Budgets
    BY CartRows DEF Reservation
  <2>2. LeavesAlone(p) /\ UNCHANGED amount
    BY <1>3, <2>1, LifecycleEffect DEF LeavesAlone, limits, RedeemedOf
  <2> QED BY <1>0, <2>2, FitsStill
<1>4. CASE Edit
  <2>1. Reservation(p) > 0 => Cart[p].budget \in Budgets
    BY CartRows DEF Reservation
  <2>2. /\ step[p] \in RoomSeen => "seller" \in locks[p]
        /\ step[p] \in UsesSeen /\ Cart[p].coupon # Nothing => "coupon" \in locks[p]
    BY DEF LockInv, RowsKept, UsesSeen, CouponRead, RoomSeen
  <2>3. LeavesAlone(p) /\ UNCHANGED amount
    BY <1>4, <2>1, <2>2, EditEffect DEF LeavesAlone, placedOrders, ActiveOf, RedeemedOf, TypeOK
  <2> QED BY <1>0, <2>3, FitsStill
<1>5. CASE UNCHANGED vars
  BY <1>0, <1>5 DEF vars, Fits, AtCapacity, ActiveOf, UsedUp, RedeemedOf, RedeemedBy,
     Exceeds, Reservation
<1> QED BY <1>1, <1>2, <1>3, <1>4, <1>5, StepIsOneOf

(* The budget's total: a commit adds no more than was seen to fit, nothing *)
(* else adds to it.                                                        *)
LEMMA BudgetStep ==
  TypeOK /\ StillFits /\ BudgetWithinAmount /\ [Next]_vars => BudgetWithinAmount'
<1> SUFFICES ASSUME TypeOK, StillFits, BudgetWithinAmount, [Next]_vars, NEW b \in Budgets
             PROVE  consumed'[b] <= amount'[b]
  BY DEF BudgetWithinAmount
<1>0. /\ consumed[b] \in Nat /\ amount[b] \in Nat
      /\ consumed[b] <= amount[b]
  BY DEF TypeOK, BudgetWithinAmount
<1>1. ASSUME NEW o \in Orders, Statement(o)
      PROVE  consumed'[b] <= amount'[b]
  BY <1>0, <1>1, StatementEffect DEF placedOrders, limits
<1>2. ASSUME NEW o \in Orders, commit(o)
      PROVE  consumed'[b] <= amount'[b]
  <2>1. /\ Reservation(o) > 0 => step[o] = "reserved"
        /\ consumed'[b] = IF b = Cart[o].budget THEN consumed[b] + Reservation(o)
                          ELSE consumed[b]
        /\ amount' = amount
    BY <1>2, CommitEffect DEF limits
  <2>2. Reservation(o) \in Nat
    BY ReservationIsNat
  <2>3. b = Cart[o].budget /\ Reservation(o) > 0
          => ~ (consumed[b] + Reservation(o) > amount[b])
    BY <2>1 DEF StillFits, Fits, Exceeds
  <2> QED BY <1>0, <2>1, <2>2, <2>3
<1>3. ASSUME NEW o \in Orders, Lifecycle(o)
      PROVE  consumed'[b] <= amount'[b]
  <2>1. consumed'[b] \in 0..consumed[b] /\ amount' = amount
    BY <1>3, LifecycleEffect DEF limits
  <2> QED BY <1>0, <2>1
<1>4. CASE Edit
  BY <1>0, <1>4, EditEffect DEF placedOrders
<1>5. CASE UNCHANGED vars
  BY <1>0, <1>5 DEF vars
<1> QED BY <1>1, <1>2, <1>3, <1>4, <1>5, StepIsOneOf

(* The whole invariant is inductive.                                       *)
LEMMA InvStep == CheckoutInv /\ [Next]_vars => CheckoutInv'
BY TypeStep, LockStep, FitsStep, BudgetStep DEF CheckoutInv, LimitInv

(* So it holds in every state the server reaches.                          *)
LEMMA InvHolds == Spec => []CheckoutInv
BY InitInv, InvStep, PTL DEF Spec
-----------------------------------------------------------------------------
(* Every variable of the checkouts keeps its type, whatever happens to     *)
(* them; in particular no budget's total falls below zero.                 *)
THEOREM TypeCorrect == Spec => []TypeOK
<1>1. CheckoutInv => TypeOK
  BY DEF CheckoutInv
<1> QED BY <1>1, InvHolds, PTL

(* However many company orders are checked out at once, they never reserve *)
(* more than the budget (reserveBudget).                                   *)
THEOREM BudgetNeverOverrun == Spec => []BudgetWithinAmount
<1>1. CheckoutInv => BudgetWithinAmount
  BY DEF CheckoutInv, LimitInv
<1> QED BY <1>1, InvHolds, PTL

(* Only its commit places a checkout.                                      *)
LEMMA PlacedByCommit ==
  ASSUME TypeOK, [Next]_vars, NEW o \in Orders, PlacedNow(o)
  PROVE  commit(o)
<1>1. ASSUME NEW p \in Orders, Statement(p)
      PROVE  FALSE
  BY <1>1, StatementEffect DEF PlacedNow, TypeOK
<1>2. ASSUME NEW p \in Orders, commit(p), p # o
      PROVE  FALSE
  BY <1>2, CommitEffect DEF PlacedNow, TypeOK
<1>3. ASSUME UNCHANGED step
      PROVE  FALSE
  BY <1>3 DEF PlacedNow
<1> QED BY <1>1, <1>2, <1>3, StepIsOneOf, LifecycleEffect, EditEffect DEF vars

(* No checkout takes a seller beyond its declared capacity, for any number *)
(* of concurrent buyers (sellerAtCapacityTx).                              *)
THEOREM CapacityIsRespected == Spec => CapacityHolds
<1>1. ASSUME CheckoutInv, [Next]_vars, NEW o \in Orders,
             PlacedNow(o), capacity[Cart[o].seller] > 0
      PROVE  Cardinality(ActiveOf(Cart[o].seller)') <= capacity[Cart[o].seller]
  <2>1. commit(o)
    BY <1>1, PlacedByCommit DEF CheckoutInv
  <2>2. /\ ~ AtCapacity(Cart[o].seller)
        /\ live' = [live EXCEPT ![o] = "unpaid"]
    BY <1>1, <2>1, CommitEffect DEF CheckoutInv, LimitInv, StillFits, Fits, RoomSeen,
       SellerRead, InTransaction
  <2>3. /\ ActiveOf(Cart[o].seller) \subseteq Orders
        /\ ActiveOf(Cart[o].seller)' \subseteq ActiveOf(Cart[o].seller) \cup {o}
    BY <1>1, <2>2 DEF ActiveOf, CheckoutInv, TypeOK
  <2>4. /\ Cardinality(ActiveOf(Cart[o].seller)') \in Nat
        /\ Cardinality(ActiveOf(Cart[o].seller)')
              <= Cardinality(ActiveOf(Cart[o].seller) \cup {o})
        /\ Cardinality(ActiveOf(Cart[o].seller) \cup {o}) \in Nat
    BY <2>3, Fewer
  <2>5. Cardinality(ActiveOf(Cart[o].seller) \cup {o})
          <= Cardinality(ActiveOf(Cart[o].seller)) + 1
    BY <2>3, OneMore
  <2>6. Cardinality(ActiveOf(Cart[o].seller)) \in Nat
    BY <2>3, Fewer
  <2>7. capacity[Cart[o].seller] \in Nat
    BY <1>1, CartRows DEF CheckoutInv, TypeOK
  <2> QED BY <1>1, <2>2, <2>4, <2>5, <2>6, <2>7 DEF AtCapacity
<1>2. CheckoutInv /\ [Next]_vars
        => [\A o \in Orders :
              PlacedNow(o) /\ capacity[Cart[o].seller] > 0
                => Cardinality(ActiveOf(Cart[o].seller)') <= capacity[Cart[o].seller]]_vars
  BY <1>1
<1> QED BY <1>2, InvHolds, PTL DEF Spec, CapacityHolds

(* No checkout uses a coupon, or lets one buyer use it, more often than    *)
(* its limits say at that moment (resolveCoupon).                          *)
THEOREM CouponIsRespected == Spec => CouponHolds
<1>1. ASSUME CheckoutInv, [Next]_vars, NEW o \in Orders,
             PlacedNow(o), Cart[o].coupon # Nothing
      PROVE  /\ Cardinality(RedeemedOf(Cart[o].coupon)') <= coupon[Cart[o].coupon].usage
             /\ coupon[Cart[o].coupon].perUser > 0 =>
                  Cardinality(RedeemedBy(Cart[o].coupon, Cart[o].buyer)')
                    <= coupon[Cart[o].coupon].perUser
  <2> DEFINE c == Cart[o].coupon
             all == RedeemedOf(c)
             own == RedeemedBy(c, Cart[o].buyer)
  <2>1. commit(o)
    BY <1>1, PlacedByCommit DEF CheckoutInv
  <2>2. /\ ~ UsedUp(c, Cart[o].buyer)
        /\ redeemed' \subseteq redeemed \cup {o}
    BY <1>1, <2>1, CommitEffect DEF CheckoutInv, LimitInv, StillFits, Fits, UsesSeen,
       CouponRead, RoomSeen, SellerRead, InTransaction
  <2>3. /\ all \subseteq Orders
        /\ RedeemedOf(c)' \subseteq all \cup {o}
        /\ own \subseteq Orders
        /\ RedeemedBy(c, Cart[o].buyer)' \subseteq own \cup {o}
    BY <1>1, <2>2 DEF RedeemedOf, RedeemedBy, CheckoutInv, TypeOK
  <2>4. /\ Cardinality(RedeemedOf(c)') \in Nat
        /\ Cardinality(all \cup {o}) \in Nat
        /\ Cardinality(RedeemedOf(c)') <= Cardinality(all \cup {o})
        /\ Cardinality(all) \in Nat
    BY <2>3, Fewer
  <2>5. /\ Cardinality(RedeemedBy(c, Cart[o].buyer)') \in Nat
        /\ Cardinality(own \cup {o}) \in Nat
        /\ Cardinality(RedeemedBy(c, Cart[o].buyer)') <= Cardinality(own \cup {o})
        /\ Cardinality(own) \in Nat
    BY <2>3, Fewer
  <2>6. /\ Cardinality(all \cup {o}) <= Cardinality(all) + 1
        /\ Cardinality(own \cup {o}) <= Cardinality(own) + 1
    BY <2>3, OneMore
  <2>7. coupon[c].usage \in Nat /\ coupon[c].perUser \in Nat
    BY <1>1, CartRows DEF CheckoutInv, TypeOK
  <2> QED BY <2>2, <2>4, <2>5, <2>6, <2>7 DEF UsedUp
<1>2. CheckoutInv /\ [Next]_vars
        => [\A o \in Orders :
              PlacedNow(o) /\ Cart[o].coupon # Nothing
                => LET c == Cart[o].coupon
                   IN  /\ Cardinality(RedeemedOf(c)') <= coupon[c].usage
                       /\ coupon[c].perUser > 0 =>
                            Cardinality(RedeemedBy(c, Cart[o].buyer)')
                              <= coupon[c].perUser]_vars
  BY <1>1
<1> QED BY <1>2, InvHolds, PTL DEF Spec, CouponHolds
-----------------------------------------------------------------------------
(* The orders of a budget, and what is said of their reservations: only an *)
(* order that was placed holds anything, and the budget's total is the sum *)
(* of what its orders hold.                                                *)
OrdersOf(b) == {o \in Orders : Cart[o].budget = b}

HeldInv ==
  /\ \A o \in Orders : step[o] # "placed" => live[o] = "none" /\ held[o] = 0
  /\ \A b \in Budgets : consumed[b] = Total(held, OrdersOf(b))

(* Holdings are numbers, so a budget's total covers each of them.          *)
LEMMA HoldingsAdd ==
  ASSUME TypeOK, NEW b \in Budgets
  PROVE  /\ IsFiniteSet(OrdersOf(b))
         /\ \A o \in OrdersOf(b) : held[o] \in Nat /\ held[o] <= Total(held, OrdersOf(b))
         /\ Total(held, OrdersOf(b)) \in Nat
<1>1. IsFiniteSet(OrdersOf(b))
  <2>1. OrdersOf(b) \in SUBSET Orders
    BY DEF OrdersOf
  <2> QED BY <2>1, FS_Subset
<1>2. \A o \in OrdersOf(b) : held[o] \in Nat
  BY DEF OrdersOf, TypeOK
<1> QED BY <1>1, <1>2, TotalAtLeast

(* A step that changes what one order holds, and its budget's total by as  *)
(* much, keeps them equal.                                                 *)
LEMMA OneHolding ==
  ASSUME TypeOK, TypeOK', NEW o \in Orders, HeldInv,
         \A p \in Orders \ {o} : held'[p] = held[p],
         \A b \in Budgets : consumed'[b] = IF b = Cart[o].budget
                                             THEN consumed[b] - held[o] + held'[o]
                                             ELSE consumed[b]
  PROVE  \A b \in Budgets : consumed'[b] = Total(held', OrdersOf(b))
<1> TAKE b \in Budgets
<1>1. /\ IsFiniteSet(OrdersOf(b))
      /\ \A p \in OrdersOf(b) : held[p] \in Int /\ held'[p] \in Int
      /\ consumed[b] = Total(held, OrdersOf(b))
  BY HoldingsAdd DEF HeldInv, TypeOK, OrdersOf
<1>2. CASE b = Cart[o].budget
  <2>1. o \in OrdersOf(b)
    BY <1>2 DEF OrdersOf
  <2>2. \A p \in OrdersOf(b) \ {o} : held'[p] = held[p]
    BY DEF OrdersOf
  <2>3. Total(held', OrdersOf(b)) = Total(held, OrdersOf(b)) - held[o] + held'[o]
    BY <1>1, <2>1, <2>2, TotalChange
  <2> QED BY <1>1, <1>2, <2>3
<1>3. CASE b # Cart[o].budget
  <2>1. \A p \in OrdersOf(b) : held'[p] = held[p]
    BY <1>3 DEF OrdersOf
  <2>2. Total(held', OrdersOf(b)) = Total(held, OrdersOf(b))
    BY <1>1, <2>1, TotalSame
  <2> QED BY <1>1, <1>3, <2>2
<1> QED BY <1>2, <1>3

(* A release takes from the budget exactly what it takes from the order:   *)
(* the floor at zero cuts nothing off (releaseBudget).                     *)
LEMMA ReleaseEffect ==
  ASSUME TypeOK, HeldInv, NEW o \in Orders, NEW upTo \in Nat, releaseBudget(o, upTo)
  PROVE  /\ \A p \in Orders \ {o} : held'[p] = held[p]
         /\ \A b \in Budgets : consumed'[b] = IF b = Cart[o].budget
                                                THEN consumed[b] - held[o] + held'[o]
                                                ELSE consumed[b]
<1> DEFINE released == Released(held[o], upTo)
<1>1. held[o] \in Nat /\ released \in 0..held[o]
  BY ReleasedBounds DEF TypeOK
<1>2. /\ held' = [held EXCEPT ![o] = @ - released]
      /\ consumed' = [c \in Budgets |->
           IF c # Cart[o].budget THEN consumed[c]
           ELSE IF consumed[c] < released THEN 0 ELSE consumed[c] - released]
  BY DEF releaseBudget
<1>3. /\ held'[o] = held[o] - released
      /\ \A p \in Orders \ {o} : held'[p] = held[p]
  BY <1>2 DEF TypeOK
<1>4. ASSUME NEW b \in Budgets, b = Cart[o].budget
      PROVE  consumed[b] \in Nat /\ held[o] <= consumed[b]
  <2>1. o \in OrdersOf(b)
    BY <1>4 DEF OrdersOf
  <2> QED BY <2>1, HoldingsAdd DEF HeldInv
<1> HIDE DEF released
<1>5. ASSUME NEW b \in Budgets
      PROVE  consumed'[b] = IF b = Cart[o].budget THEN consumed[b] - held[o] + held'[o]
                            ELSE consumed[b]
  BY <1>1, <1>2, <1>3, <1>4
<1> QED BY <1>3, <1>5

(* Every step moves what a budget counts and what its orders hold by the   *)
(* same amount.                                                            *)
LEMMA HeldStep == TypeOK /\ TypeOK' /\ HeldInv /\ [Next]_vars => HeldInv'
<1> SUFFICES ASSUME TypeOK, TypeOK', HeldInv, [Next]_vars PROVE HeldInv'
  OBVIOUS
<1> DEFINE Unplaced == \A o \in Orders : step[o] # "placed" => live[o] = "none" /\ held[o] = 0
           Sums == \A b \in Budgets : consumed[b] = Total(held, OrdersOf(b))
<1>0. Unplaced /\ Sums
  BY DEF HeldInv
<1>1. ASSUME NEW o \in Orders, Statement(o)
      PROVE  HeldInv'
  <2>1. /\ UNCHANGED <<live, held, consumed>>
        /\ step' = [step EXCEPT ![o] = step'[o]]
    BY <1>1, StatementEffect DEF placedOrders
  <2>2. step[o] # "placed"
    BY <1>1 DEF Statement, begin, lockSeller, countOrders, lockCoupon, countRedemptions,
       featureEnabled, queryFeatures, featureAnswered, reserveBudget,
       lookForAnnouncement, announceBudgetExhausted, abort, InTransaction, Refusing
  <2>3. Unplaced'
    BY <1>0, <2>1, <2>2 DEF TypeOK
  <2>4. Sums'
    BY <1>0, <2>1 DEF OrdersOf
  <2> QED BY <2>3, <2>4 DEF HeldInv
<1>2. ASSUME NEW o \in Orders, commit(o)
      PROVE  HeldInv'
  <2>1. /\ step[o] # "placed" /\ held[o] = 0
        /\ held' = [held EXCEPT ![o] = Reservation(o)]
        /\ live' = [live EXCEPT ![o] = "unpaid"]
        /\ step' = [step EXCEPT ![o] = "placed"]
    BY <1>0, <1>2 DEF commit, goto
  <2>2. Unplaced'
    BY <1>0, <2>1 DEF TypeOK
  <2>3. Reservation(o) \in Nat
    BY ReservationIsNat
  <2>4. held'[o] = Reservation(o) /\ \A p \in Orders \ {o} : held'[p] = held[p]
    BY <2>1 DEF TypeOK
  <2>5. \A b \in Budgets : consumed'[b] = IF b = Cart[o].budget
                                            THEN consumed[b] - held[o] + held'[o]
                                            ELSE consumed[b]
    <3> TAKE b \in Budgets
    <3>1. consumed'[b] = IF b = Cart[o].budget THEN consumed[b] + Reservation(o)
                         ELSE consumed[b]
      BY <1>2, CommitEffect
    <3>2. consumed[b] \in Nat
      BY DEF TypeOK
    <3> QED BY <2>1, <2>3, <2>4, <3>1, <3>2
  <2>6. Sums'
    BY <2>4, <2>5, OneHolding
  <2> QED BY <2>2, <2>6 DEF HeldInv
<1>3. ASSUME NEW o \in Orders, NEW upTo \in Nat, releaseBudget(o, upTo), step' = step,
             live' = [live EXCEPT ![o] = "ended"], live[o] # "none"
      PROVE  HeldInv'
  <2>1. /\ \A p \in Orders \ {o} : held'[p] = held[p]
        /\ \A b \in Budgets : consumed'[b] = IF b = Cart[o].budget
                                               THEN consumed[b] - held[o] + held'[o]
                                               ELSE consumed[b]
    BY <1>3, ReleaseEffect
  <2>2. Unplaced'
    BY <1>0, <1>3, <2>1 DEF TypeOK
  <2>3. Sums'
    BY <2>1, OneHolding
  <2> QED BY <2>2, <2>3 DEF HeldInv
<1>4. ASSUME NEW o \in Orders, payOrder(o) \/ completeOrder(o)
      PROVE  HeldInv'
  <2>1. UNCHANGED <<step, held, consumed>> /\ live[o] # "none"
    BY <1>4 DEF payOrder, completeOrder
  <2>2. \A p \in Orders \ {o} : live'[p] = live[p]
    BY <1>4 DEF payOrder, completeOrder, TypeOK
  <2>3. Unplaced'
    BY <1>0, <2>1, <2>2
  <2>4. Sums'
    BY <1>0, <2>1 DEF OrdersOf
  <2> QED BY <2>3, <2>4 DEF HeldInv
<1>5. ASSUME NEW o \in Orders, Lifecycle(o)
      PROVE  HeldInv'
  <2>1. CASE endOrder(o) \/ expireOrder(o)
    <3>1. /\ releaseBudget(o, 0) /\ step' = step /\ 0 \in Nat
          /\ live' = [live EXCEPT ![o] = "ended"] /\ live[o] # "none"
      BY <2>1 DEF endOrder, expireOrder
    <3> QED BY <1>3, <3>1
  <2>2. ASSUME NEW returned \in Refunds, refundPart(o, returned)
        PROVE  HeldInv'
    <3>1. /\ releaseBudget(o, returned) /\ step' = step /\ returned \in Nat
          /\ live' = [live EXCEPT ![o] = "ended"] /\ live[o] # "none"
      BY <2>2 DEF refundPart
    <3> QED BY <1>3, <3>1
  <2> QED BY <1>4, <1>5, <2>1, <2>2 DEF Lifecycle
<1>6. CASE UNCHANGED <<step, live, held, consumed>>
  <2>1. Unplaced'
    BY <1>0, <1>6
  <2>2. Sums'
    BY <1>0, <1>6 DEF OrdersOf
  <2> QED BY <2>1, <2>2 DEF HeldInv
<1>7. CASE Edit
  BY <1>6, <1>7, EditEffect DEF placedOrders
<1>8. CASE UNCHANGED vars
  BY <1>6, <1>8 DEF vars
<1> QED BY <1>1, <1>2, <1>5, <1>7, <1>8, StepIsOneOf

(* Nothing is held of anything before the first order.                     *)
LEMMA HeldInit == Init => HeldInv
<1> SUFFICES ASSUME Init, NEW b \in Budgets PROVE Total(held, OrdersOf(b)) = 0
  BY DEF Init, HeldInv
<1>1. OrdersOf(b) \in SUBSET Orders
  BY DEF OrdersOf
<1>2. /\ OrdersOf(b) \in SUBSET Orders /\ IsFiniteSet(OrdersOf(b))
  BY <1>1, FS_Subset
<1>3. \A o \in OrdersOf(b) : held[o] = 0
  BY <1>1 DEF Init
<1> QED BY <1>2, <1>3, TotalZero

(* The budget's total is what its orders hold, for any number of them: in  *)
(* whatever order cancellations, expiries and refunds come, they give back *)
(* no more and no less than was reserved (releaseBudget).                  *)
THEOREM BudgetIsHeld == Spec => []ConsumedIsHeld
<1>1. Init => CheckoutInv /\ HeldInv
  BY InitInv, HeldInit
<1>2. CheckoutInv /\ HeldInv /\ [Next]_vars => (CheckoutInv /\ HeldInv)'
  BY InvStep, HeldStep DEF CheckoutInv
<1>3. HeldInv => ConsumedIsHeld
  <2> SUFFICES ASSUME HeldInv, NEW b \in Budgets
               PROVE  consumed[b] = MapThenSumSet(LAMBDA o : held[o], {o \in Orders : Cart[o].budget = b})
    BY DEF ConsumedIsHeld
  <2> QED BY DEF HeldInv, Total, OrdersOf
<1> QED BY <1>1, <1>2, <1>3, PTL DEF Spec
-----------------------------------------------------------------------------
(* Who waits for whom.                                                     *)

Busy(o) == step[o] \in InTransaction \cup Refusing

\* The statement o has reached waits for a row or for a connection.
Waits(o) ==
  \/ step[o] = "begun" /\ ~ Free(o, "seller")
  \/ step[o] = "hasRoom" /\ Cart[o].coupon # Nothing /\ ~ Free(o, "coupon")
  \/ step[o] = "allowed" /\ Reservation(o) > 0 /\ ~ Free(o, "budget")
  \/ step[o] \in {"outdated", "rejected"} /\ ~ FreeConnection

\* Requests are under way and every one of them waits.
Stuck == (\E o \in Orders : Busy(o)) /\ \A o \in Orders : Busy(o) => Waits(o)

\* A row is held only after the statement that locks it: seller, coupon, budget.
LocksInOrder ==
  \A o \in Orders :
    /\ "seller" \in locks[o] => step[o] \in SellerRead
    /\ "coupon" \in locks[o] => step[o] \in CouponRead
    /\ "budget" \in locks[o] => step[o] = "reserved"

(* Every statement locks its row in the same order, and whoever leaves the *)
(* transaction lets go of all rows (createOrder).                          *)
LEMMA LocksInOrderStep == TypeOK /\ LocksInOrder /\ [Next]_vars => LocksInOrder'
<1> SUFFICES ASSUME TypeOK, LocksInOrder, [Next]_vars PROVE LocksInOrder'
  OBVIOUS
<1>1. ASSUME NEW o \in Orders, Statement(o)
      PROVE  LocksInOrder'
  <2>1. /\ "seller" \in locks'[o] => step'[o] \in SellerRead
        /\ "coupon" \in locks'[o] => step'[o] \in CouponRead
        /\ "budget" \in locks'[o] => step'[o] = "reserved"
    BY <1>1 DEF Statement, begin, lockSeller, countOrders, lockCoupon, countRedemptions,
       featureEnabled, queryFeatures, featureAnswered, reserveBudget,
       lookForAnnouncement, announceBudgetExhausted, abort, goto, lock, rollback, TypeOK,
       LocksInOrder, SellerRead, RoomSeen, CouponRead, InTransaction, Refusing
  <2> QED BY <1>1, <2>1, StatementEffect DEF LocksInOrder, TypeOK
<1>2. ASSUME NEW o \in Orders, commit(o)
      PROVE  LocksInOrder'
  <2>1. /\ locks'[o] = {}
        /\ \A p \in Orders \ {o} : step'[p] = step[p] /\ locks'[p] = locks[p]
    BY <1>2, CommitEffect DEF TypeOK
  <2> QED BY <2>1 DEF LocksInOrder
<1>3. CASE UNCHANGED <<step, locks>>
  BY <1>3 DEF LocksInOrder
<1> QED BY <1>1, <1>2, <1>3, StepIsOneOf, LifecycleEffect, EditEffect DEF vars

(* Rows are locked in one order as long as the program runs.               *)
LEMMA LocksInOrderHolds == Spec => [](TypeOK /\ LocksInOrder)
<1>1. Init => LocksInOrder
  BY DEF Init, LocksInOrder
<1> QED BY <1>1, LocksInOrderStep, TypeCorrect, PTL DEF Spec

(* Whoever waits for a row waits for a checkout that is further on; so     *)
(* when all wait, the waiting ends with one that asks for the features.    *)
LEMMA WaitingEnds ==
  ASSUME LocksInOrder, Stuck, NEW o \in Orders, step[o] \in InTransaction
  PROVE  ~ FreeConnection /\ \E p \in Orders : step[p] = "outdated"
<1> SUFFICES ASSUME \A p \in Orders : step[p] # "outdated" \/ FreeConnection
             PROVE  FALSE
  OBVIOUS
<1>1. ASSUME NEW p \in Orders, step[p] \in InTransaction
      PROVE  /\ step[p] \in {"begun", "hasRoom", "allowed"}
             /\ step[p] = "begun" => ~ Free(p, "seller")
             /\ step[p] = "hasRoom" => ~ Free(p, "coupon")
             /\ step[p] = "allowed" => ~ Free(p, "budget")
  BY <1>1 DEF Stuck, Busy, Waits, InTransaction
<1>2. ASSUME NEW p \in Orders, step[p] = "allowed" PROVE FALSE
  <2>1. PICK r \in Orders : "budget" \in locks[r]
    BY <1>1, <1>2 DEF InTransaction, Free
  <2>2. step[r] = "reserved"
    BY <2>1 DEF LocksInOrder
  <2> QED BY <1>1, <2>2 DEF InTransaction
<1>3. ASSUME NEW p \in Orders, step[p] = "hasRoom" PROVE FALSE
  <2>1. PICK r \in Orders : "coupon" \in locks[r]
    BY <1>1, <1>3 DEF InTransaction, Free
  <2>2. step[r] \in CouponRead
    BY <2>1 DEF LocksInOrder
  <2> QED BY <1>1, <1>2, <2>2 DEF CouponRead, RoomSeen, SellerRead, InTransaction
<1>4. ASSUME NEW p \in Orders, step[p] = "begun" PROVE FALSE
  <2>1. PICK r \in Orders : "seller" \in locks[r]
    BY <1>1, <1>4 DEF InTransaction, Free
  <2>2. step[r] \in SellerRead
    BY <2>1 DEF LocksInOrder
  <2> QED BY <1>1, <1>2, <1>3, <2>2 DEF SellerRead, InTransaction
<1> QED BY <1>1, <1>2, <1>3, <1>4

(* When all wait, no connection is free.                                   *)
LEMMA AllWaitForThePool == LocksInOrder /\ Stuck => ~ FreeConnection
<1> SUFFICES ASSUME LocksInOrder, Stuck PROVE ~ FreeConnection
  OBVIOUS
<1>1. PICK o \in Orders : Busy(o) /\ Waits(o)
  BY DEF Stuck
<1>2. CASE step[o] \in InTransaction
  BY <1>2, WaitingEnds
<1>3. CASE step[o] = "rejected"
  BY <1>1, <1>3 DEF Waits
<1>4. CASE step[o] = "looked"
  BY <1>1, <1>4 DEF Waits
<1> QED BY <1>1, <1>2, <1>3, <1>4 DEF Busy, Refusing

(* While all wait nobody is asking for the features or announcing, so only *)
(* open transactions have connections.                                     *)
LEMMA OnePerTransaction ==
  ASSUME Stuck
  PROVE  /\ InUse = Cardinality({o \in Orders : step[o] \in InTransaction})
         /\ InUse \in Nat /\ InUse <= Cardinality(Orders)
<1> DEFINE A == {o \in Orders : step[o] \in InTransaction \cup {"looked"}}
           B == {o \in Orders : step[o] = "asking"}
           T == {o \in Orders : step[o] \in InTransaction}
<1>1. \A o \in Orders : step[o] \notin {"looked", "asking"}
  BY DEF Stuck, Busy, Waits, InTransaction, Refusing
<1>2. A = T /\ B = {}
  BY <1>1
<1>3. InUse = Cardinality(A) + Cardinality(B)
  BY DEF InUse
<1>4. T \in SUBSET Orders /\ Orders \in SUBSET Orders
  OBVIOUS
<1> HIDE DEF A, B, T
<1>5. Cardinality(T) \in Nat /\ Cardinality(T) <= Cardinality(Orders)
  BY <1>4, Fewer
<1>6. Cardinality(B) = 0
  BY <1>2, FS_EmptySet
<1>7. InUse = Cardinality(T)
  BY <1>2, <1>3, <1>5, <1>6
<1> QED BY <1>5, <1>7 DEF T

(* Checkouts never wait for each other's rows in a circle: if all that are *)
(* under way wait, every connection is taken and one of those that hold    *)
(* one asks for a second (featureEnabled inside the transaction of         *)
(* createOrder).                                                           *)
THEOREM OnlyThePoolBlocks ==
  ASSUME PoolSize > 0
  PROVE  Spec => [](Stuck => ~ FreeConnection /\ \E o \in Orders : step[o] = "outdated")
<1>1. ASSUME LocksInOrder, Stuck
      PROVE  ~ FreeConnection /\ \E o \in Orders : step[o] = "outdated"
  <2> DEFINE T == {o \in Orders : step[o] \in InTransaction}
  <2>1. ~ (InUse < PoolSize)
    BY <1>1, AllWaitForThePool DEF FreeConnection
  <2>2. InUse = Cardinality(T) /\ InUse \in Nat
    BY <1>1, OnePerTransaction
  <2>3. Cardinality(T) # 0
    BY <2>1, <2>2
  <2>4. T # {}
    BY <2>3, FS_EmptySet
  <2> QED BY <1>1, <2>4, WaitingEnds
<1>2. TypeOK /\ LocksInOrder => (Stuck => ~ FreeConnection /\ \E o \in Orders : step[o] = "outdated")
  BY <1>1
<1> QED BY <1>2, LocksInOrderHolds, PTL

(* With a connection more than there are requests no state is a deadlock:  *)
(* of the checkouts under way one can always go on.                        *)
THEOREM RoomyPoolNeverBlocks ==
  ASSUME PoolSize > Cardinality(Orders)
  PROVE  Spec => []~ Stuck
<1>1. LocksInOrder => ~ Stuck
  <2> SUFFICES ASSUME LocksInOrder, Stuck PROVE FALSE
    OBVIOUS
  <2>1. Cardinality(Orders) \in Nat
    BY FS_CardinalityType
  <2>2. ~ (InUse < PoolSize)
    BY AllWaitForThePool DEF FreeConnection
  <2> QED BY <2>1, <2>2, OnePerTransaction
<1> QED BY <1>1, LocksInOrderHolds, PTL
-----------------------------------------------------------------------------
(* The announcement of an exhausted budget.                                *)

\* Refused requests that found no announcement of b.
Lookers(b) == {o \in Orders : step[o] = "looked" /\ Cart[o].budget = b}

\* Each further announcement is made by one of those, and takes it away.
OnePerLooker(b) ==
  /\ Lookers(b)' \subseteq Lookers(b)
  /\ announced'[b] # announced[b] =>
       \E o \in Lookers(b) : announced'[b] = announced[b] + 1 /\ o \notin Lookers(b)'

(* Once a budget's exhaustion has been announced, it is announced again    *)
(* only by requests that had looked before that and seen nothing, each of  *)
(* them once: nobody who looks afterwards adds to them                     *)
(* (announceBudgetExhausted).                                              *)
THEOREM RepeatsOverlap ==
  Spec => [][\A b \in Budgets : announced[b] > 0 => OnePerLooker(b)]_vars
<1>1. TypeOK /\ [Next]_vars => [\A b \in Budgets : announced[b] > 0 => OnePerLooker(b)]_vars
  <2> SUFFICES ASSUME TypeOK, Next, NEW b \in Budgets, announced[b] > 0
               PROVE  OnePerLooker(b)
    BY DEF vars
  <2>1. ASSUME NEW o \in Orders, Statement(o)
        PROVE  OnePerLooker(b)
    <3>1. /\ \A p \in Orders \ {o} : step'[p] = step[p]
          /\ step' = [step EXCEPT ![o] = step'[o]] /\ step \in [Orders -> Steps]
      BY <2>1, StatementEffect DEF TypeOK
    <3>2. CASE announceBudgetExhausted(o)
      <4>1. step[o] = "looked" /\ step'[o] = "refused"
        BY <3>2 DEF announceBudgetExhausted, goto, TypeOK
      <4>2. announced'[b] = IF b = Cart[o].budget THEN announced[b] + 1 ELSE announced[b]
        BY <3>2 DEF announceBudgetExhausted, TypeOK
      <4> QED BY <3>1, <4>1, <4>2 DEF OnePerLooker, Lookers
    <3>3. CASE ~ announceBudgetExhausted(o)
      <4>1. announced' = announced
        BY <2>1, <3>3 DEF Statement, begin, lockSeller, countOrders, lockCoupon,
           countRedemptions, featureEnabled, queryFeatures, featureAnswered, reserveBudget,
           lookForAnnouncement, abort
      <4>2. step'[o] = "looked" => Cart[o].budget # b
        BY <2>1, <3>3 DEF Statement, begin, lockSeller, countOrders, lockCoupon,
           countRedemptions, featureEnabled, queryFeatures, featureAnswered, reserveBudget,
           lookForAnnouncement, abort, goto, TypeOK
      <4> QED BY <3>1, <4>1, <4>2 DEF OnePerLooker, Lookers
    <3> QED BY <3>2, <3>3
  <2>2. ASSUME NEW o \in Orders, commit(o)
        PROVE  OnePerLooker(b)
    <3>1. /\ step' = [step EXCEPT ![o] = "placed"] /\ step \in [Orders -> Steps]
          /\ announced' = announced
      BY <2>2, CommitEffect DEF TypeOK, commit
    <3> QED BY <3>1 DEF OnePerLooker, Lookers
  <2>3. CASE UNCHANGED <<step, announced>>
    BY <2>3 DEF OnePerLooker, Lookers
  <2>4. (\E o \in Orders : Lifecycle(o)) \/ Edit => UNCHANGED <<step, announced>>
    BY DEF Lifecycle, payOrder, completeOrder, endOrder, expireOrder, refundPart, Edit,
       putMySellerProfile, updateCoupon, limits
  <2> QED BY <2>1, <2>2, <2>3, <2>4, StepIsOneOf DEF vars
<1> QED BY <1>1, TypeCorrect, PTL DEF Spec
=============================================================================
