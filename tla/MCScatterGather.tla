-------------------------- MODULE MCScatterGather --------------------------
(* Instances of ScatterGather for TLC: the three kinds of caller of         *)
(* HelmState.scatterGather.                                                 *)
EXTENDS ScatterGather

\* iterateOnReleases; SyncReleases, DiffReleases and the other buffered callers;
\* PrepareCharts.
AllWirings == {<<0, 0, FALSE>>, <<Inputs, Inputs, FALSE>>, <<Inputs, Inputs, TRUE>>}
=============================================================================
