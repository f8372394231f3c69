--------------------------- MODULE MCSubscriptions ---------------------------
(***************************************************************************)
(* Subscriptions with two listeners that two threads construct.            *)
(***************************************************************************)
EXTENDS Subscriptions
=============================================================================
