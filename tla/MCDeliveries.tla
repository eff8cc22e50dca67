---------------------------- MODULE MCDeliveries ----------------------------
(***************************************************************************)
(* Deliveries for TLC.                                                     *)
(***************************************************************************)
EXTENDS Deliveries, TLC

CONSTANTS s1, pr1, h1, h2, w1

\* Requests that name issue 1, or by an edit no longer do.
OneOrNone == {{1}, {}}

\* The handlers differ in nothing but their names.
HandlerSymmetry == Permutations(Handlers)

=============================================================================
