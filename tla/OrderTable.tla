----------------------------- MODULE OrderTable -----------------------------
(***************************************************************************)
(* The states of an order and the moves between them, as the handlers of   *)
(* the server and the buttons of the order page know them.                 *)
(***************************************************************************)
OrderStates ==
  {"CREATED", "PAYMENT_PENDING", "PAID", "REQUIREMENT_PENDING", "READY",
   "IN_PROGRESS", "DELIVERED", "REVISION_REQUESTED", "ACCEPTED", "COMPLETED",
   "CANCEL_REQUESTED", "CANCELLED", "DISPUTED", "REFUNDED"}

(* orderTransitions: the only moves the generic endpoint allows.           *)
orderTransitions ==
  {<<"CREATED", "PAYMENT_PENDING">>, <<"CREATED", "CANCELLED">>,
   <<"PAYMENT_PENDING", "PAID">>, <<"PAYMENT_PENDING", "CANCELLED">>,
   <<"PAID", "REQUIREMENT_PENDING">>, <<"PAID", "READY">>, <<"PAID", "REFUNDED">>,
   <<"REQUIREMENT_PENDING", "READY">>, <<"REQUIREMENT_PENDING", "CANCEL_REQUESTED">>,
   <<"READY", "IN_PROGRESS">>, <<"READY", "CANCEL_REQUESTED">>,
   <<"IN_PROGRESS", "DELIVERED">>, <<"IN_PROGRESS", "CANCEL_REQUESTED">>,
   <<"IN_PROGRESS", "DISPUTED">>,
   <<"DELIVERED", "REVISION_REQUESTED">>, <<"DELIVERED", "ACCEPTED">>,
   <<"DELIVERED", "DISPUTED">>,
   <<"REVISION_REQUESTED", "IN_PROGRESS">>, <<"REVISION_REQUESTED", "DELIVERED">>,
   <<"REVISION_REQUESTED", "DISPUTED">>,
   <<"ACCEPTED", "COMPLETED">>, <<"ACCEPTED", "DISPUTED">>,
   <<"CANCEL_REQUESTED", "CANCELLED">>, <<"CANCEL_REQUESTED", "IN_PROGRESS">>,
   <<"DISPUTED", "REFUNDED">>, <<"DISPUTED", "COMPLETED">>}
=============================================================================
