----------------------------- MODULE MCExportJobs -----------------------------
(***************************************************************************)
(* Small instances of ExportJobs: model values, and which process each     *)
(* thread belongs to.                                                      *)
(***************************************************************************)
EXTENDS ExportJobs, TLC

CONSTANTS j1, j2, j3, k1, i1, t1, t2, w1

OneJob == {j1}
TwoJobs == {j1, j2}
ThreeJobs == {j1, j2, j3}
Alike == Permutations(Jobs) \cup Permutations(Threads)
OneKey == {k1}
NoKeys == {}
OneInstance == {i1}
OneThread == {t1}
TwoThreads == {t1, t2}
OneWorker == {w1}
OneHost == [x \in Instances \cup Threads \cup Workers |-> i1]
=============================================================================
