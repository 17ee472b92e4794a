------------------------------ MODULE MCOutbox ------------------------------
(* Values for the constants of Outbox.                                     *)
EXTENDS Outbox, TLC

CONSTANTS e1, e2, u1, u2, h1, h2, w1, w2

(* An event with two recipients and a webhook.                             *)
OneEvent == {e1}
OneEventUsers == [e \in OneEvent |-> {u1, u2}]
OneEventHooks == [e \in OneEvent |-> {h1}]

(* An ordinary event and a webhook test, which notifies nobody.            *)
TwoEvents == {e1, e2}
TwoEventsUsers == [e \in TwoEvents |-> IF e = e1 THEN {u1} ELSE {}]
TwoEventsHooks == [e \in TwoEvents |-> IF e = e1 THEN {h1, h2} ELSE {h1}]

(* The processes are interchangeable.                                      *)
WorkerSymmetry == Permutations({w1, w2})
=============================================================================
