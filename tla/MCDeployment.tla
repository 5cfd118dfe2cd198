----------------------------- MODULE MCDeployment -----------------------------
(***************************************************************************)
(* Small instances of Deployment.  Apps, routes, policies and threads are  *)
(* model values; which app's manifest asks for which route is fixed here.  *)
(***************************************************************************)
EXTENDS Deployment

CONSTANTS demo, sales, r1, r2, open, t1, t2

OneApp == {demo}
TwoApps == {demo, sales}
TwoRoutes == {r1, r2}
OwnRoute == [a \in Apps |-> IF a = demo THEN r1 ELSE r2]
OneThread == {t1}
TwoThreads == {t1, t2}

SequentialOps == RequestOps \ {"policy", "restart"}
ConcurrentOps == {"build", "promote", "enable", "policy", "reconcile", "restart"}
=============================================================================
