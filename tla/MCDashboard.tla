----------------------------- MODULE MCDashboard ----------------------------
(***************************************************************************)
(* Dashboard for TLC; the bounds are in dashboard.cfg.                     *)
(***************************************************************************)
EXTENDS Dashboard

=============================================================================
