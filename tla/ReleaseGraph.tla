---------------------------- MODULE ReleaseGraph ----------------------------
(***************************************************************************)
(* The dependency graph of releases and the plan computed from it.         *)
(* GroupReleasesByDependency (pkg/state/state_run.go) adds one node per    *)
(* release ID to a graph of github.com/variantdev/dag, asks that library   *)
(* for a plan and turns it into groups of releases.  The library is not    *)
(* part of the repository: its operators here say what the code and its    *)
(* tests rely on.                                                          *)
(*                                                                         *)
(* R is the set of nodes, needs the function from a node to the IDs it     *)
(* needs, only the IDs the caller selected.                                *)
(***************************************************************************)
EXTENDS Naturals, FiniteSets, Sequences

\* A need that is not a node of the graph.
Undefined(R, needs) == \E r \in R : ~(needs[r] \subseteq R)

\* lv gives every node the length of its longest chain of needs.
Levelled(R, needs, lv) ==
    \A r \in R : /\ \A n \in needs[r] : lv[n] < lv[r]
                 /\ lv[r] > 0 => \E n \in needs[r] : lv[n] + 1 = lv[r]

LevelMaps(R) == [R -> 0..(Cardinality(R) - 1)]
Acyclic(R, needs) == \E lv \in LevelMaps(R) : Levelled(R, needs, lv)
Levels(R, needs) == CHOOSE lv \in LevelMaps(R) : Levelled(R, needs, lv)

\* SelectedReleases left a need out and nobody said what to do about it.
Unhandled(needs, only, include, skip) ==
    ~include /\ ~skip /\ \E r \in only : ~(needs[r] \subseteq only)

PlanFails(R, needs, only, include, skip) ==
    Undefined(R, needs) \/ ~Acyclic(R, needs) \/ Unhandled(needs, only, include, skip)

\* WithDependencies adds the direct needs of the selected nodes.
PlannedIds(needs, only, include) ==
    only \cup IF include THEN UNION {needs[r] : r \in only} ELSE {}

\* A bug: the levels are those of the planned nodes alone.
GroupsOfPlanned(R, needs, planned, reverse) ==
    LET inside == [r \in planned |-> needs[r] \cap planned]
        lv == Levels(planned, inside)
        used == {lv[r] : r \in planned}
        Place(r) == LET below == Cardinality({l \in used : l < lv[r]}) IN
                    IF reverse THEN Cardinality(used) - below ELSE below + 1
    IN  [g \in 1..Cardinality(used) |-> {r \in planned : Place(r) = g}]

\* The plan: the non-empty levels of the whole graph, of the planned nodes only, and
\* reversed for a deletion (SortedReleaseGroups).
Groups(R, needs, planned, reverse) ==
    LET lv == Levels(R, needs)
        used == {lv[r] : r \in planned}
        Place(r) == LET below == Cardinality({l \in used : l < lv[r]}) IN
                    IF reverse THEN Cardinality(used) - below ELSE below + 1
    IN  [g \in 1..Cardinality(used) |-> {r \in planned : Place(r) = g}]

----------------------------------------------------------------------------
(* Reference definitions, for properties.                                   *)

\* All needs of a node, through any number of other nodes.
Reaches(R, needs, r) ==
    {i \in R : \A S \in SUBSET R :
        (/\ needs[r] \subseteq S
         /\ \A s \in S : needs[s] \subseteq S) => i \in S}
=============================================================================
