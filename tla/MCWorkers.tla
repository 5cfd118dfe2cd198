------------------------------ MODULE MCWorkers ------------------------------
(***************************************************************************)
(* A small instance of Workers: the live path of one app, two revisions of *)
(* it, and one thread of each kind.                                        *)
(***************************************************************************)
EXTENDS Workers

CONSTANTS live, r1, r2, c1, keeper, sweeper

OneMount == {live}
TwoRevs == {r1, r2}
OneClient == {c1}
Anywhere == [r \in Revs |-> Mounts]
=============================================================================
