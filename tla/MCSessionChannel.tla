--------------------------- MODULE MCSessionChannel ---------------------------
(***************************************************************************)
(* Small instances of SessionChannel: model values for tabs, dashboards    *)
(* and calls.                                                              *)
(***************************************************************************)
EXTENDS SessionChannel

CONSTANTS t1, t2, a1, a2, c1, c2

OneTab == {t1}
TwoTabs == {t1, t2}
OneApp == {a1}
TwoApps == {a1, a2}
OneCall == {c1}
TwoCalls == {c1, c2}
=============================================================================
