-------------------------------- MODULE Money --------------------------------
(***************************************************************************)
(* The integer arithmetic the order handlers apply to an order's money.    *)
(* Amounts are whole won (docs/architecture.md, "금융 원장"), division is   *)
(* Go's int64 division, which on the non-negative values used here is the  *)
(* integer quotient.  The operators are exact as long as the products stay *)
(* below 2^63.                                                             *)
(***************************************************************************)
EXTENDS Integers

(* What the buyer actually pays: the platform funds the discount.          *)
Payable(amount, discount) == amount - discount

(* platform_fee_rate percent of a gross amount, rounded down.  The code    *)
(* goes through float64; for whole-percent rates and products below 2^53   *)
(* the result is the integer quotient.                                     *)
PlatformFee(gross, rate) == (gross * rate) \div 100

(* Mutant: the buyer gets the promotion's part as well.                    *)
MutWholeShare(refund, amount, discount) == refund

(* The buyer's part of a refund: proportional to what the buyer funded,    *)
(* the remainder of the division going to the promotion.                   *)
BuyerShare(refund, amount, discount) ==
  IF discount > 0 /\ amount > 0
    THEN (refund * Payable(amount, discount)) \div amount
    ELSE refund

(* How much of a budget reservation a release gives back.  A non-positive  *)
(* upTo asks for everything the order still holds.                         *)
Released(held, upTo) == IF upTo > 0 /\ upTo < held THEN upTo ELSE held

(* writeLedger's gate: no negative entry, and equal sides.  entries is the *)
(* set of the amounts written, debits and credits the two column sums.     *)
Postable(entries, debits, credits) ==
  /\ \A e \in entries : e >= 0
  /\ debits = credits

(* The revision allowance createRevision enforces: the product's included  *)
(* count capped by the platform's ceiling.  Zero or less is "no limit".    *)
RevisionLimit(included, ceiling) ==
  IF included <= 0 \/ ceiling < included THEN ceiling ELSE included
=============================================================================
