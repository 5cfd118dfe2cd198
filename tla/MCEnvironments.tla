---------------------------- MODULE MCEnvironments ----------------------------
(***************************************************************************)
(* A small instance of Environments: steps on two environments meet        *)
(* nowhere but in a pass of the collector, steps of threads on one do.     *)
(***************************************************************************)
EXTENDS Environments

CONSTANTS e1, c1, c2

OneEnvironment == {e1}
TwoClients == {c1, c2}
=============================================================================
