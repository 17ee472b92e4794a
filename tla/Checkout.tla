------------------------------ MODULE Checkout ------------------------------
(***************************************************************************)
(* Concurrent checkouts against what they share: a seller's declared       *)
(* capacity, a coupon's uses, a company's budget, and the process's pool   *)
(* of database connections.  createOrder and acceptQuote run the same      *)
(* sequence inside one READ COMMITTED transaction: each statement sees     *)
(* what was committed before it, and only SELECT ... FOR UPDATE makes two  *)
(* checkouts take turns on a row.  Orders placed before give back what     *)
(* they hold while others are checked out.                                 *)
(***************************************************************************)
EXTENDS Money, FiniteSets, FiniteSetsExt

CONSTANTS
  Orders,         \* checkout requests, each the order it may become
  Cart,           \* what each request buys, and whether for a company: buyer, seller,
                  \* coupon, company, budget, price, discount
  Nothing,        \* no coupon; no active budget
  Capacities,     \* values a seller declares; whoever offers a talent has a profile
  CouponTerms,    \* usage_limit and per_user_limit (0 is none) of a coupon
  BudgetAmounts,  \* values of budgets.amount
  Refunds,        \* what a buyer may get back when a dispute is decided
  PoolSize,       \* MaxConns of the connection pool
  MaxEdits        \* bound on edits of capacities and coupons

Sellers == {Cart[o].seller : o \in Orders}
Coupons == {Cart[o].coupon : o \in Orders} \ {Nothing}
Budgets == {Cart[o].budget : o \in Orders} \ {Nothing}

ASSUME OrdersAssumption == IsFiniteSet(Orders)
ASSUME CartAssumption ==
  \A o \in Orders : /\ {Cart[o].price, Cart[o].discount} \subseteq Nat
                    /\ Cart[o].discount <= Cart[o].price
                    /\ Cart[o].coupon = Nothing => Cart[o].discount = 0
                    /\ Cart[o].company \in BOOLEAN
                    /\ Cart[o].budget # Nothing => Cart[o].company
ASSUME LimitsAssumption ==
  /\ CouponTerms \subseteq [usage : Nat, perUser : Nat]
  /\ Capacities \subseteq Nat /\ BudgetAmounts \subseteq Nat
  /\ Refunds \subseteq Nat
  /\ PoolSize \in Nat /\ MaxEdits \in Nat

VARIABLES
  step,       \* how far each request has come
  locks,      \* which of its rows it has locked: "seller", "coupon", "budget"
  live,       \* orders.state of the order, as far as this module tells states apart
  held,       \* orders.budget_consumed
  redeemed,   \* orders with a coupon_redemptions row
  capacity,   \* seller_profiles.capacity
  coupon,     \* the coupon's limits now
  amount,     \* budgets.amount, which no handler changes
  consumed,   \* budgets.consumed_amount
  announced,  \* number of BudgetExhausted events of each budget
  edits

vars == <<step, locks, live, held, redeemed, capacity, coupon, amount, consumed,
          announced, edits>>

placedOrders == <<live, held, redeemed, consumed>>
limits == <<capacity, coupon, amount, edits>>

InTransaction ==
  {"begun", "sellerLocked", "hasRoom", "couponLocked", "priced", "outdated",
   "asking", "allowed", "reserved"}
Refusing == {"rejected", "looked"}
Steps == InTransaction \cup Refusing \cup {"new", "placed", "refused"}

TypeOK ==
  /\ step \in [Orders -> Steps]
  /\ locks \in [Orders -> SUBSET {"seller", "coupon", "budget"}]
  /\ live \in [Orders -> {"none", "unpaid", "active", "ended"}]
  /\ held \in [Orders -> Nat]
  /\ redeemed \subseteq {o \in Orders : Cart[o].coupon # Nothing /\ live[o] # "none"}
  /\ capacity \in [Sellers -> Nat]
  /\ coupon \in [Coupons -> [usage : Nat, perUser : Nat]]
  /\ amount \in [Budgets -> Nat]
  /\ consumed \in [Budgets -> Nat]
  /\ announced \in [Budgets -> Nat]
  /\ edits \in 0..MaxEdits
-----------------------------------------------------------------------------
Init ==
  /\ step = [o \in Orders |-> "new"]
  /\ locks = [o \in Orders |-> {}]
  /\ live = [o \in Orders |-> "none"]
  /\ held = [o \in Orders |-> 0]
  /\ redeemed = {}
  /\ capacity \in [Sellers -> Capacities]
  /\ coupon \in [Coupons -> CouponTerms]
  /\ amount \in [Budgets -> BudgetAmounts]
  /\ consumed = [b \in Budgets |-> 0]
  /\ announced = [b \in Budgets |-> 0]
  /\ edits = 0

(* Connections in use: one for each open transaction, a second one while   *)
(* a request asks for the feature flags outside its own transaction.       *)
InUse == Cardinality({o \in Orders : step[o] \in InTransaction \cup {"looked"}})
           + Cardinality({o \in Orders : step[o] = "asking"})

FreeConnection == InUse < PoolSize

(* Nobody else has the row of this kind that o works on.                   *)
Free(o, kind) ==
  \A p \in Orders \ {o} : kind \in locks[p] => Cart[p][kind] # Cart[o][kind]

(* Nobody at all has this row.                                             *)
Unlocked(kind, row) == \A p \in Orders : kind \in locks[p] => Cart[p][kind] # row

goto(o, next) == step' = [step EXCEPT ![o] = next]
lock(o, kind) == locks' = [locks EXCEPT ![o] = @ \cup {kind}]

(* Mutant: a refused request returns without a rollback.                   *)
MutRollback(o) == locks' = locks
rollback(o) == locks' = [locks EXCEPT ![o] = {}]

begin(o) ==
  /\ step[o] = "new"
  /\ FreeConnection
  /\ goto(o, "begun")
  /\ UNCHANGED <<locks, placedOrders, limits, announced>>

(* Mutant: the capacity is read without FOR UPDATE.                        *)
MutLockSeller(o) ==
  /\ step[o] = "begun"
  /\ goto(o, "sellerLocked")
  /\ UNCHANGED <<locks, placedOrders, limits, announced>>

(* sellerAtCapacityTx: FOR UPDATE on the profile, then a count.            *)
lockSeller(o) ==
  /\ step[o] = "begun"
  /\ Free(o, "seller")
  /\ lock(o, "seller")
  /\ goto(o, "sellerLocked")
  /\ UNCHANGED <<placedOrders, limits, announced>>

ActiveOf(s) == {o \in Orders : Cart[o].seller = s /\ live[o] \in {"unpaid", "active"}}

AtCapacity(s) == capacity[s] > 0 /\ Cardinality(ActiveOf(s)) >= capacity[s]

countOrders(o) ==
  /\ step[o] = "sellerLocked"
  /\ IF AtCapacity(Cart[o].seller)
       THEN goto(o, "refused") /\ rollback(o)
       ELSE goto(o, "hasRoom") /\ UNCHANGED locks
  /\ UNCHANGED <<placedOrders, limits, announced>>

(* Mutant: the coupon is read without FOR UPDATE.                          *)
MutLockCoupon(o) ==
  /\ step[o] = "hasRoom"
  /\ goto(o, IF Cart[o].coupon = Nothing THEN "priced" ELSE "couponLocked")
  /\ UNCHANGED <<locks, placedOrders, limits, announced>>

(* resolveCoupon, likewise; without a code it returns at once.             *)
lockCoupon(o) ==
  /\ step[o] = "hasRoom"
  /\ \/ Cart[o].coupon = Nothing /\ goto(o, "priced") /\ UNCHANGED locks
     \/ /\ Cart[o].coupon # Nothing
        /\ Free(o, "coupon")
        /\ lock(o, "coupon")
        /\ goto(o, "couponLocked")
  /\ UNCHANGED <<placedOrders, limits, announced>>

RedeemedOf(c) == {o \in redeemed : Cart[o].coupon = c}
RedeemedBy(c, buyer) == {o \in RedeemedOf(c) : Cart[o].buyer = buyer}

UsedUp(c, buyer) ==
  \/ Cardinality(RedeemedOf(c)) >= coupon[c].usage
  \/ coupon[c].perUser > 0 /\ Cardinality(RedeemedBy(c, buyer)) >= coupon[c].perUser

countRedemptions(o) ==
  /\ step[o] = "couponLocked"
  /\ IF UsedUp(Cart[o].coupon, Cart[o].buyer)
       THEN goto(o, "refused") /\ rollback(o)
       ELSE goto(o, "priced") /\ UNCHANGED locks
  /\ UNCHANGED <<placedOrders, limits, announced>>

(* featureEnabled, for a request that names a company, with a budget or    *)
(* not: from the cache, or, when that is too old, on another connection    *)
(* while the transaction keeps its own.  Someone who is no member of the   *)
(* company, and a switched off feature, are aborts.                        *)
featureEnabled(o) ==
  /\ step[o] = "priced"
  /\ Cart[o].company
  /\ goto(o, "allowed") \/ goto(o, "outdated")
  /\ UNCHANGED <<locks, placedOrders, limits, announced>>

queryFeatures(o) ==
  /\ step[o] = "outdated"
  /\ FreeConnection
  /\ goto(o, "asking")
  /\ UNCHANGED <<locks, placedOrders, limits, announced>>

featureAnswered(o) ==
  /\ step[o] = "asking"
  /\ goto(o, "allowed")
  /\ UNCHANGED <<locks, placedOrders, limits, announced>>

Reservation(o) ==
  IF Cart[o].budget = Nothing THEN 0 ELSE Payable(Cart[o].price, Cart[o].discount)

Exceeds(o) == consumed[Cart[o].budget] + Reservation(o) > amount[Cart[o].budget]

(* Mutant: the budget is read without FOR UPDATE.                          *)
MutReserveBudget(o) ==
  /\ step[o] = "allowed"
  /\ IF Exceeds(o) THEN goto(o, "rejected") /\ rollback(o)
                   ELSE goto(o, "reserved") /\ UNCHANGED locks
  /\ UNCHANGED <<placedOrders, limits, announced>>

(* reserveBudget: FOR UPDATE, the test, and the update that the commit     *)
(* will show.  Nothing to pay needs no budget.                             *)
reserveBudget(o) ==
  /\ step[o] = "allowed"
  /\ \/ Reservation(o) = 0 /\ goto(o, "reserved") /\ UNCHANGED locks
     \/ /\ Reservation(o) > 0
        /\ Free(o, "budget")
        /\ IF Exceeds(o)
             THEN goto(o, "rejected") /\ rollback(o)
             ELSE goto(o, "reserved") /\ lock(o, "budget")
  /\ UNCHANGED <<placedOrders, limits, announced>>

(* The order, its redemption and its reservation become visible at once.   *)
commit(o) ==
  /\ step[o] = "reserved" \/ (step[o] = "priced" /\ ~Cart[o].company)
  /\ goto(o, "placed")
  /\ rollback(o)
  /\ live' = [live EXCEPT ![o] = "unpaid"]
  /\ held' = [held EXCEPT ![o] = Reservation(o)]
  /\ redeemed' = IF Cart[o].coupon = Nothing THEN redeemed ELSE redeemed \cup {o}
  /\ consumed' = [b \in Budgets |-> IF b = Cart[o].budget THEN consumed[b] + Reservation(o)
                                    ELSE consumed[b]]
  /\ UNCHANGED <<limits, announced>>

(* announceBudgetExhausted, after the rollback: one read, one insert.      *)
lookForAnnouncement(o) ==
  /\ step[o] = "rejected"
  /\ FreeConnection
  /\ goto(o, IF announced[Cart[o].budget] = 0 THEN "looked" ELSE "refused")
  /\ UNCHANGED <<locks, placedOrders, limits, announced>>

announceBudgetExhausted(o) ==
  /\ step[o] = "looked"
  /\ goto(o, "refused")
  /\ announced' = [announced EXCEPT ![Cart[o].budget] = @ + 1]
  /\ UNCHANGED <<locks, placedOrders, limits>>

(* A statement fails, the buyer is no member of the company, the feature   *)
(* is off, or the client goes away.                                        *)
abort(o) ==
  /\ step[o] \in InTransaction \cup Refusing
  /\ goto(o, "refused")
  /\ rollback(o)
  /\ UNCHANGED <<placedOrders, limits, announced>>
-----------------------------------------------------------------------------
(* Orders already placed.  Each transaction below waits for the budget row *)
(* it updates; it never waits for a row of which a checkout waits for it.  *)

(* Mutants: an order gives back what it cost, not what it still holds; and *)
(* without the floor at zero.                                              *)
MutReleasePrice(o, upTo) ==
  LET b == Cart[o].budget
  IN  /\ b # Nothing => Unlocked("budget", b)
      /\ held' = [held EXCEPT ![o] = 0]
      /\ consumed' = [c \in Budgets |->
           IF c # b THEN consumed[c]
           ELSE IF consumed[c] < Cart[o].price THEN 0 ELSE consumed[c] - Cart[o].price]

(* consumed_amount never goes below zero: GREATEST(0, ...).                *)
releaseBudget(o, upTo) ==
  LET b == Cart[o].budget
      released == Released(held[o], upTo)
  IN  /\ b # Nothing /\ held[o] > 0 => Unlocked("budget", b)
      /\ held' = [held EXCEPT ![o] = @ - released]
      /\ consumed' = [c \in Budgets |->
           IF c # b THEN consumed[c]
           ELSE IF consumed[c] < released THEN 0 ELSE consumed[c] - released]

payOrder(o) ==
  /\ live[o] = "unpaid"
  /\ live' = [live EXCEPT ![o] = "active"]
  /\ UNCHANGED <<step, locks, held, redeemed, consumed, limits, announced>>

completeOrder(o) ==
  /\ live[o] = "active"
  /\ live' = [live EXCEPT ![o] = "ended"]
  /\ UNCHANGED <<step, locks, held, redeemed, consumed, limits, announced>>

(* A dispute decided with a partial refund completes the order.            *)
refundPart(o, returned) ==
  /\ live[o] = "active"
  /\ live' = [live EXCEPT ![o] = "ended"]
  /\ releaseBudget(o, returned)
  /\ UNCHANGED <<step, locks, redeemed, limits, announced>>

(* Cancellation and refund give back the whole reservation.                *)
endOrder(o) ==
  /\ live[o] \in {"unpaid", "active"}
  /\ live' = [live EXCEPT ![o] = "ended"]
  /\ releaseBudget(o, 0)
  /\ UNCHANGED <<step, locks, redeemed, limits, announced>>

(* The expiry gives the coupon back as well.                               *)
expireOrder(o) ==
  /\ live[o] = "unpaid"
  /\ live' = [live EXCEPT ![o] = "ended"]
  /\ redeemed' = redeemed \ {o}
  /\ releaseBudget(o, 0)
  /\ UNCHANGED <<step, locks, limits, announced>>

(* A seller declares another capacity; a coupon's limits are changed, or   *)
(* the coupon stopped, which no use fits.  Both updates wait for the row.  *)
putMySellerProfile(s, n) ==
  /\ edits < MaxEdits
  /\ Unlocked("seller", s)
  /\ capacity' = [capacity EXCEPT ![s] = n]
  /\ edits' = edits + 1
  /\ UNCHANGED <<step, locks, placedOrders, coupon, amount, announced>>

Stopped == [usage |-> 0, perUser |-> 0]

updateCoupon(c, terms) ==
  /\ edits < MaxEdits
  /\ Unlocked("coupon", c)
  /\ coupon' = [coupon EXCEPT ![c] = terms]
  /\ edits' = edits + 1
  /\ UNCHANGED <<step, locks, placedOrders, capacity, amount, announced>>
-----------------------------------------------------------------------------
createOrder(o) ==
  \/ lockSeller(o) \/ countOrders(o)
  \/ lockCoupon(o) \/ countRedemptions(o)
  \/ featureEnabled(o) \/ queryFeatures(o) \/ featureAnswered(o) \/ reserveBudget(o)
  \/ commit(o)
  \/ lookForAnnouncement(o) \/ announceBudgetExhausted(o)

Lifecycle(o) ==
  \/ payOrder(o) \/ completeOrder(o) \/ endOrder(o) \/ expireOrder(o)
  \/ \E returned \in Refunds : refundPart(o, returned)

Next ==
  \/ \E o \in Orders : begin(o) \/ createOrder(o) \/ abort(o) \/ Lifecycle(o)
  \/ \E s \in Sellers, n \in Capacities : putMySellerProfile(s, n)
  \/ \E c \in Coupons, terms \in CouponTerms \cup {Stopped} : updateCoupon(c, terms)

Spec == Init /\ [][Next]_vars

(* A request that was begun goes on.  Row locks and connections are queues *)
(* (PostgreSQL's lock table, pgxpool), so whoever waits for something that *)
(* becomes free again and again gets it.  Nothing is assumed of clients    *)
(* giving up, nor of what happens to placed orders.                        *)
FairSpec == Spec /\ \A o \in Orders : SF_vars(createOrder(o))
-----------------------------------------------------------------------------
PlacedNow(o) == step[o] # "placed" /\ step'[o] = "placed"

(* No checkout takes a seller beyond the capacity declared at that moment, *)
(* however many buyers come at once (sellerAtCapacityTx).                  *)
CapacityHolds ==
  [][\A o \in Orders :
       PlacedNow(o) /\ capacity[Cart[o].seller] > 0
         => Cardinality(ActiveOf(Cart[o].seller)') <= capacity[Cart[o].seller]]_vars

(* No checkout uses a coupon more often than its limits say at that        *)
(* moment: two orders cannot both take the last use (resolveCoupon).       *)
CouponHolds ==
  [][\A o \in Orders :
       PlacedNow(o) /\ Cart[o].coupon # Nothing
         => LET c == Cart[o].coupon
            IN  /\ Cardinality(RedeemedOf(c)') <= coupon[c].usage
                /\ coupon[c].perUser > 0 =>
                     Cardinality(RedeemedBy(c, Cart[o].buyer)') <= coupon[c].perUser]_vars

(* Company orders never reserve more than the budget (reserveBudget).      *)
BudgetWithinAmount == \A b \in Budgets : consumed[b] <= amount[b]

(* The budget's total is what its orders hold: cancellations, expiries and *)
(* refunds in any order give back no more and no less than was reserved    *)
(* (releaseBudget; GREATEST never has anything to cut off).                *)
ConsumedIsHeld ==
  \A b \in Budgets :
    consumed[b] = MapThenSumSet(LAMBDA o : held[o], {o \in Orders : Cart[o].budget = b})

(* Every checkout gets an answer although checkouts wait for each other's  *)
(* rows and connections: the locks are taken in one order, the transaction *)
(* is rolled back before the announcement, and there is a connection more  *)
(* than there are requests (PoolSize).                                     *)
CheckoutsEnd ==
  \A o \in Orders :
    step[o] \in InTransaction \cup Refusing ~> step[o] \in {"placed", "refused"}

(* "알림은 예산당 한 번만 보내고": one announcement for each budget.             *)
AnnouncedOnce == \A b \in Budgets : announced[b] <= 1
=============================================================================
