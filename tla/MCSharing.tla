------------------------------ MODULE MCSharing ------------------------------
(***************************************************************************)
(* Small instances of Sharing.                                             *)
(***************************************************************************)
EXTENDS Sharing, TLC

CONSTANTS l1, i1, u1, c1, c2, rev1

OneLink == {l1}
OneInvitation == {i1}
OneUser == {u1}
TwoClients == {c1, c2}
OneRev == {rev1}
Edit == {<<"editor", "all">>}

Symmetries == Permutations(TwoClients)
=============================================================================
