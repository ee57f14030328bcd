-------------------------- MODULE MCSubscriptions --------------------------
(***************************************************************************)
(* Subscriptions for TLC: two resources, so that unsubscribing from one    *)
(* leaves the item in the table, each view changing twice, three requests   *)
(* in any order and one outage or session error.                           *)
(***************************************************************************)
EXTENDS Subscriptions
=============================================================================
