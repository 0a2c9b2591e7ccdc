--------------------------- MODULE MCReleaseSync ---------------------------
(* Instances of ReleaseSync for TLC: releases relA and relB share a remote chart, *)
(* release relC has a local chart.                                             *)
EXTENDS ReleaseSync, TLC

CONSTANTS relA, relB, relC, w1, w2, shared

ThreeReleases == {relA, relB, relC}
TwoReleases == {relA, relB}
OnlyA == {relA}
AB == {relA, relB}
Nobody == {}
ChartsABC == relA :> shared @@ relB :> shared @@ relC :> NoLock
ChartsAB == relA :> shared @@ relB :> shared
TwoWorkers == {w1, w2}
=============================================================================
