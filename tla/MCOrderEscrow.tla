---------------------------- MODULE MCOrderEscrow ----------------------------
(* Values for the constants of OrderEscrow.                                *)
EXTENDS OrderEscrow

(* A plain order, one with a coupon on an organization's budget, one the   *)
(* coupon pays for entirely, and a free one.                               *)
MCTerms ==
  {[amount |-> 5, discount |-> 0, budgeted |-> FALSE],
   [amount |-> 5, discount |-> 2, budgeted |-> TRUE],
   [amount |-> 3, discount |-> 3, budgeted |-> FALSE],
   [amount |-> 0, discount |-> 0, budgeted |-> TRUE]}

(* One order with a coupon on a budget.                                    *)
MCOneOrder == {[amount |-> 5, discount |-> 2, budgeted |-> TRUE]}

MCFeeRates == {0, 20, 100}
MCPartialRefunds == {1, 3, 4}

(* Holders of orders.manage may request every move of the table.           *)
AnyMove == orderTransitions
=============================================================================
