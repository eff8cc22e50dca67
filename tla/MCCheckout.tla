----------------------------- MODULE MCCheckout -----------------------------
(***************************************************************************)
(* Checkout for TLC.                                                       *)
(***************************************************************************)
EXTENDS Checkout

CONSTANTS d1, d2

=============================================================================
