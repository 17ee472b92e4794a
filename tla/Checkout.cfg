\* Three checkouts that share a seller, a coupon and a budget.
CONSTANTS
  o1 = o1
  o2 = o2
  o3 = o3
  s1 = s1
  s2 = s2
  c1 = c1
  b1 = b1
  u1 = u1
  u2 = u2
  nothing = nothing
  Nothing = nothing
  Orders <- ThreeOrders
  Cart <- ThreeCarts
  BudgetAmounts = {4, 5}
  Capacities = {1, 2}
  CouponTerms <- Terms
  Refunds = {0, 1}
  PoolSize = 4
  MaxEdits = 1
SPECIFICATION FairSpec
INVARIANTS
  BudgetWithinAmount
  ConsumedIsHeld
PROPERTIES
  CapacityHolds
  CouponHolds
  CheckoutsEnd
\* Every request has been answered and every order has ended.
CHECK_DEADLOCK FALSE
