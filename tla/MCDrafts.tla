------------------------------- MODULE MCDrafts -------------------------------
(***************************************************************************)
(* A small instance of Drafts: two sources that pass every check and one   *)
(* with credentials in it, with and without a package.                     *)
(***************************************************************************)
EXTENDS Drafts, TLC

CONSTANTS s1, s2, bad, r1, c1, c2

TwoClients == {c1, c2}
ThreeSources == {s1, s2, bad}
OnePackage == {r1}
BadCredentials == [x \in ThreeSources \cup OnePackage |-> IF x = bad THEN {"credential_safety"} ELSE {}]
ThreeOffers == {[source |-> s1, requirements |-> None], [source |-> s2, requirements |-> r1], [source |-> bad, requirements |-> r1]}

Symmetries == Permutations(TwoClients)
=============================================================================
