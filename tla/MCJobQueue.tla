----------------------------- MODULE MCJobQueue -----------------------------
(***************************************************************************)
(* Instances of JobQueue for TLC: rows, workers and callers are model      *)
(* values, interchangeable in the runs that check only safety.             *)
(***************************************************************************)
EXTENDS JobQueue, TLC

CONSTANTS j1, j2, j3, w1, w2, c1, c2, k1, n1, n2, noKey, none

TwoJobs == {j1, j2}
ThreeJobs == {j1, j2, j3}
OneJob == {j1}
OneWorker == {w1}
TwoWorkers == {w1, w2}
OneCaller == {c1}
TwoCallers == {c1, c2}
NoKeys == {}
OneKey == {k1}
OneName == {n1}
TwoNames == {n1, n2}
\* Below and above the clamp.
Requested == {0, 9}
RequestedOne == {1}
RequestedTwo == {2}

Symmetry == Permutations(Jobs) \cup Permutations(Workers) \cup Permutations(Callers)

=============================================================================
