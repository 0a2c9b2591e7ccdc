---------------------------- MODULE MCChartCache ----------------------------
(* Instances of ChartCache for TLC: two workers of one process and one of   *)
(* another that pull one OCI chart into the shared cache, and three workers *)
(* of one process that fetch one chart to two directories.                  *)
EXTENDS ChartCache, TLC

CONSTANTS w1, w2, w3, dirA, dirB, relA, here, there

ThreeWorkers == {w1, w2, w3}
TwoProcesses == {here, there}
Dirs == {dirA, dirB}
OneKey == {relA}
Apart == w1 :> here @@ w2 :> here @@ w3 :> there
Together == [w \in ThreeWorkers |-> here]
Chart == [w \in ThreeWorkers |-> relA]
Of(homes, paths, inCache) ==
    {[proc |-> homes, path |-> paths, key |-> Chart, shared |-> inCache, refresh |-> r] :
        r \in SUBSET {homes[w] : w \in ThreeWorkers}}
SharedOrOwn == Of(Apart, [w \in ThreeWorkers |-> dirA], {dirA})
               \cup Of(Together, w1 :> dirA @@ w2 :> dirA @@ w3 :> dirB, {})
=============================================================================
