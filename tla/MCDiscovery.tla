---------------------------- MODULE MCDiscovery ----------------------------
(***************************************************************************)
(* Discovery for TLC: two findings, one of them reported twice, and pages  *)
(* of two issues.                                                          *)
(***************************************************************************)
EXTENDS Discovery

CONSTANTS f1, f2, p1, p2

SomeReports == {<<f1, f1, f2>>, <<f1, f2>>, <<>>}

OneReport == {<<f1, f1, f2>>}

=============================================================================
