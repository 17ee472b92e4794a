----------------------------- MODULE Storefront -----------------------------
(***************************************************************************)
(* The order form of a listing: a package, options, a coupon code, and a   *)
(* coupon the server previewed for one shape of the order.                 *)
(*                                                                         *)
(* A preview is asked for and answered later; nothing is disabled in the   *)
(* meantime, so the buyer may change the shape or the code, and ask again, *)
(* before the answer comes.  Answers arrive in any order, or as errors.    *)
(*                                                                         *)
(* Touches bounds the changes of the form, Asks the previews and Tries the *)
(* orders sent from it.                                                    *)
(***************************************************************************)
EXTENDS Integers

CONSTANTS Packages, Extras, Codes, Touches, Asks, Tries

ASSUME StorefrontAssumption ==
  /\ {Touches, Asks, Tries} \subseteq Nat
  /\ "" \notin Codes

Shapes   == [package : Packages, extras : SUBSET Extras]
NoCoupon == [code |-> ""]

VARIABLES
  shape,      \* selectedPackage and chosenOptions
  couponCode, \* what the code field holds
  coupon,     \* NoCoupon, or a preview: its code, the shape the form tagged
              \* it with, and the shape the server priced
  previews,   \* previews asked for: code and shape
  sales,      \* orders sent: shape, the coupon on it, and sent, made or over
  submitting,
  gone,       \* the order was made and the browser went to its page
  touches, asks, tried

shop == <<shape, couponCode, coupon, previews, sales, submitting, gone,
          touches, asks, tried>>

\* Same package and the same set of options, however they were ticked.
couponMatchesSelection(c, s) == c.shape.package = s.package /\ c.shape.extras = s.extras

activeCoupon(c, s) ==
  IF c # NoCoupon /\ couponMatchesSelection(c, s) THEN c ELSE NoCoupon

shownCoupon == activeCoupon(coupon, shape)

\* The listing loads with its first package selected.
ShopInit ==
  /\ shape \in [package : Packages, extras : {{}}]
  /\ couponCode = "" /\ coupon = NoCoupon
  /\ previews = {} /\ sales = {}
  /\ submitting = FALSE /\ gone = FALSE
  /\ touches = 0 /\ asks = 0 /\ tried = 0

Touch == ~gone /\ touches < Touches /\ touches' = touches + 1

\* The one control that leaves the coupon alone.
setSelectedPackage(p) ==
  /\ Touch
  /\ shape' = [shape EXCEPT !.package = p]
  /\ UNCHANGED <<couponCode, coupon, previews, sales, submitting, gone, asks, tried>>

setChosenOptions(x) ==
  /\ Touch
  /\ coupon' = NoCoupon
  /\ shape' = [shape EXCEPT !.extras = IF x \in @ THEN @ \ {x} ELSE @ \cup {x}]
  /\ UNCHANGED <<couponCode, previews, sales, submitting, gone, asks, tried>>

\* Typing a code, or closing the box that shows the coupon (an empty code).
setCouponCode(c) ==
  /\ Touch
  /\ c = "" => shownCoupon # NoCoupon
  /\ couponCode' = c
  /\ coupon' = NoCoupon
  /\ UNCHANGED <<shape, previews, sales, submitting, gone, asks, tried>>

applyCoupon ==
  /\ ~gone /\ couponCode # ""
  /\ asks < Asks /\ asks' = asks + 1
  /\ previews' = previews \cup {[code |-> couponCode, shape |-> shape]}
  /\ UNCHANGED <<shape, couponCode, coupon, sales, submitting, gone, touches, tried>>

\* A plausible bug: the answer is tagged with the shape of the form by then.
MutPreviewAnswered(p) ==
  /\ p \in previews
  /\ previews' = previews \ {p}
  /\ coupon' = [code |-> p.code, shape |-> shape, priced |-> p.shape]
  /\ UNCHANGED <<shape, couponCode, sales, submitting, gone, touches, asks, tried>>

\* The answer is tagged with the shape that was asked about.
PreviewAnswered(p) ==
  /\ p \in previews
  /\ previews' = previews \ {p}
  /\ coupon' = [code |-> p.code, shape |-> p.shape, priced |-> p.shape]
  /\ UNCHANGED <<shape, couponCode, sales, submitting, gone, touches, asks, tried>>

PreviewRefused(p) ==
  /\ p \in previews
  /\ previews' = previews \ {p}
  /\ coupon' = NoCoupon
  /\ UNCHANGED <<shape, couponCode, sales, submitting, gone, touches, asks, tried>>

placeOrder ==
  /\ ~gone /\ ~submitting
  /\ tried < Tries /\ tried' = tried + 1
  /\ submitting' = TRUE
  /\ sales' = sales \cup {[shape |-> shape, coupon |-> shownCoupon, stage |-> "sent"]}
  /\ UNCHANGED <<shape, couponCode, coupon, previews, gone, touches, asks>>

\* The server makes the order, or does not.
SaleMade(s) ==
  /\ s.stage = "sent"
  /\ sales' = (sales \ {s}) \cup {[s EXCEPT !.stage = "made"]}
  /\ UNCHANGED <<shape, couponCode, coupon, previews, submitting, gone, touches, asks, tried>>

\* An answer that is lost reads as a refusal, and the button is there again.
SaleAnswered(s) ==
  /\ s.stage \in {"sent", "made"}
  /\ sales' = (sales \ {s}) \cup {[s EXCEPT !.stage = "over"]}
  /\ submitting' = FALSE
  /\ gone' \in {s.stage = "made", FALSE}
  /\ UNCHANGED <<shape, couponCode, coupon, previews, touches, asks, tried>>

ShopNext ==
  \/ \E p \in Packages : setSelectedPackage(p)
  \/ \E x \in Extras : setChosenOptions(x)
  \/ \E c \in Codes \cup {""} : setCouponCode(c)
  \/ applyCoupon \/ placeOrder
  \/ \E p \in previews : PreviewAnswered(p) \/ PreviewRefused(p)
  \/ \E s \in sales : SaleMade(s) \/ SaleAnswered(s)

Shop == ShopInit /\ [][ShopNext]_shop

-----------------------------------------------------------------------------
(* A coupon that does not describe the order on screen is neither shown    *)
(* nor charged (couponSelection.ts): whichever control moved and whichever *)
(* preview answers last, the amount beside the button and the coupon sent  *)
(* with the order were priced by the server for exactly that package and   *)
(* those options.                                                          *)
ShownCouponFits ==
  /\ shownCoupon # NoCoupon => shownCoupon.priced = shape
  /\ \A s \in sales : s.coupon # NoCoupon => s.coupon.priced = s.shape
=============================================================================
