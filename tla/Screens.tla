------------------------------ MODULE Screens ------------------------------
(***************************************************************************)
(* The screens that keep themselves up to date, one at a time: the bell of *)
(* the header and an order.  They share the server and the principal but   *)
(* no state of the client, so a behaviour is one screen's behaviour while  *)
(* the other stays as it was before it was opened.                         *)
(***************************************************************************)
EXTENDS NotificationBell, OrderPage

VARIABLE scene

screens == <<scene, bell, page>>

\* The parties, the company's manager, an operator and a super administrator,
\* with the permissions the installation gives their roles.
SeededPeople ==
  {[party |-> "buyer",   rights |-> {"orders.buy"}],
   [party |-> "seller",  rights |-> {"orders.buy", "orders.sell"}],
   [party |-> "company", rights |-> {"orders.buy"}],
   [party |-> "none",    rights |-> {"orders.manage", "risk.manage"}],
   [party |-> "none",    rights |-> Permissions]}

Scenes == {"bell", "order"}

\* An order page that shows its error asks for nothing any more.
OrderIdle ==
  /\ person = (CHOOSE p \in People : TRUE) /\ order = [state |-> "CREATED", late |-> 0]
  /\ talk = 0 /\ steps = 0 /\ clicks = 0
  /\ shown = Nowhere /\ shownTalk = -1 /\ broken = TRUE
  /\ reloads = 0 /\ orders = {} /\ talkAsked = 0 /\ talks = {}
  /\ acts = {} /\ busy = FALSE /\ reviewOpen = FALSE

Init ==
  /\ scene \in Scenes
  /\ BellInit /\ (scene = "bell" \/ ~upgrades)
  /\ IF scene = "order" THEN PageInit ELSE OrderIdle

Next ==
  /\ UNCHANGED scene
  /\ \/ scene = "bell" /\ BellNext /\ UNCHANGED page
     \/ scene = "order" /\ PageNext /\ UNCHANGED bell

Spec == Init /\ [][Next]_screens /\ BellFairness /\ PageFairness
=============================================================================
