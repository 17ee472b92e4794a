---------------------------- MODULE EscrowPromise ----------------------------
(***************************************************************************)
(* What the marketplace promises about one order's money, with no order    *)
(* state, dispute or worker in sight: the full amount enters escrow once,  *)
(* leaves it in one piece, divided between the buyer's side, the fee and   *)
(* the seller; the division may be revised until something was returned;   *)
(* and the seller's part is paid once, after which nothing moves.          *)
(***************************************************************************)
EXTENDS Integers

CONSTANT Amounts

VARIABLES amount, stage, escrow, returned, fee, due, paid

pot == <<amount, stage, escrow, returned, fee, due, paid>>

Init ==
  /\ amount \in Amounts
  /\ stage = "open"
  /\ <<escrow, returned, fee, due, paid>> = <<0, 0, 0, 0, 0>>

(* The order's full value is put in escrow.                                *)
Fund ==
  /\ stage = "open"
  /\ stage' = "held"
  /\ escrow' = amount
  /\ UNCHANGED <<amount, returned, fee, due, paid>>

(* Nothing stays in escrow, nobody gets a negative part, and what was      *)
(* returned stays returned.                                                *)
Divide ==
  /\ stage \in {"held", "divided"}
  /\ returned = 0
  /\ stage' = "divided"
  /\ escrow' = 0
  /\ returned' >= 0 /\ fee' >= 0 /\ due' >= 0
  /\ returned' + fee' + due' = amount
  /\ UNCHANGED <<amount, paid>>

PayOut ==
  /\ stage = "divided"
  /\ stage' = "paid"
  /\ paid' = due
  /\ due' = 0
  /\ UNCHANGED <<amount, escrow, returned, fee>>

Next == Fund \/ Divide \/ PayOut

Spec == Init /\ [][Next]_pot
=============================================================================
