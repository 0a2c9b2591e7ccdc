----------------------------- MODULE MCConverge -----------------------------
(* Instances of Converge for TLC: the six shapes of an acyclic graph of     *)
(* three releases, every plan, every cluster.                               *)
EXTENDS Converge, TLC

CONSTANTS relA, relB, relC

Three == {relA, relB, relC}
AB == {relA, relB}
Graph3(a, b, c) == relA :> a @@ relB :> b @@ relC :> c
Shapes == {Graph3({}, {}, {}),
           Graph3({}, {relA}, {}),
           Graph3({}, {relA}, {relB}),
           Graph3({}, {relA}, {relA}),
           Graph3({}, {}, {relA, relB}),
           Graph3({}, {relA}, {relA, relB})}
=============================================================================
