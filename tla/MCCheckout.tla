----------------------------- MODULE MCCheckout -----------------------------
(* Values for the constants of Checkout.                                   *)
EXTENDS Checkout

CONSTANTS o1, o2, o3, s1, s2, c1, b1, u1, u2, nothing

(* Two orders share a coupon, two a seller, two a budget, and no pair      *)
(* shares two of them, so no lock hides what another is needed for.  With  *)
(* a budget of 5 both company orders fit, with 4 only one does.            *)
ThreeOrders == {o1, o2, o3}
ThreeCarts ==
  [o \in ThreeOrders |->
     CASE o = o1 -> [buyer |-> u1, seller |-> s1, coupon |-> c1, company |-> FALSE,
                     budget |-> nothing, price |-> 3, discount |-> 1]
       [] o = o2 -> [buyer |-> u1, seller |-> s2, coupon |-> c1, company |-> TRUE,
                     budget |-> b1, price |-> 3, discount |-> 1]
       [] o = o3 -> [buyer |-> u2, seller |-> s1, coupon |-> nothing, company |-> TRUE,
                     budget |-> b1, price |-> 3, discount |-> 0]]

(* One use; one for each buyer; two.                                       *)
Terms == {[usage |-> 1, perUser |-> 0], [usage |-> 2, perUser |-> 1],
          [usage |-> 2, perUser |-> 2]}
=============================================================================
