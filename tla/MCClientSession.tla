--------------------------- MODULE MCClientSession ---------------------------
(* Bounds for TLC: the person loads or follows three addresses, and the    *)
(* sessions outside the tab change twice.                                  *)
EXTENDS ClientSession
==============================================================================
