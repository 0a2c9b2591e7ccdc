-------------------------- MODULE MCReleaseDelete --------------------------
(* Instances of ReleaseDelete for TLC.                                      *)
EXTENDS ReleaseDelete, TLC

CONSTANTS relA, relB, relC, w1, w2

ThreeReleases == {relA, relB, relC}
TwoWorkers == {w1, w2}
\* Two workers with the mutex, one without.
SafeCalls == {<<TRUE, {w1, w2}>>, <<FALSE, {w1}>>}
DeleteSymmetry == Permutations(ThreeReleases)
=============================================================================
