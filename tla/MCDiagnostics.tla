---------------------------- MODULE MCDiagnostics ----------------------------
(***************************************************************************)
(* A small instance of Diagnostics: the threads of one server process.     *)
(***************************************************************************)
EXTENDS Diagnostics, TLC

CONSTANTS t1, t2, f1, f2, server

TwoThreads == {t1, t2}
TwoFiles == {f1, f2}
TwoRevisions == {1, 2}
ThreeKeys == {<<1, f1>>, <<2, f1>>, <<2, f2>>}
OneProcess == {server}
InServer == [t \in TwoThreads |-> server]
Symmetry == Permutations(TwoThreads)
=============================================================================
