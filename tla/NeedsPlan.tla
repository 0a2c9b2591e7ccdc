----------------------------- MODULE NeedsPlan -----------------------------
(***************************************************************************)
(* Which releases a command works on, and in which order (pkg/app/app.go,  *)
(* pkg/state/state.go, pkg/state/state_run.go): getSelectedReleases picks  *)
(* the releases of the state that the selectors and conditions match and   *)
(* resolves duplicate IDs, then                                            *)
(*   GetPlannedAndSelectedReleasesWithNeeds (apply, sync) plans once, and  *)
(*   withNeeds (diff, template, lint, unittest) plans, splits the releases *)
(*     into desired ones and ones to uninstall, plans the desired ones     *)
(*     again and checks --enforce-needs-are-installed.                     *)
(* A release definition has an ID (kube context, namespace and name); two  *)
(* definitions may share one.                                              *)
(***************************************************************************)
EXTENDS ReleaseGraph

CONSTANTS Defs,       \* release definitions
          Ids, IdOf,  \* release IDs, and the ID of each definition
          NameOf,     \* ID -> release name
          Plain,      \* the IDs that are just a name: no namespace, no kube context
          NeedsOf,    \* the states to consider: functions from the definitions of a state
                      \* to the sets of IDs they need
          Commands    \* "apply" for GetPlannedAndSelectedReleasesWithNeeds (apply, sync),
                      \* "diff" for withNeeds with includeDisabled, "template" for withNeeds
                      \* without it (template, lint, unittest)

ASSUME NeedsPlanAssumption ==
    /\ IsFiniteSet(Defs) /\ IdOf \in [Defs -> Ids] /\ DOMAIN NameOf = Ids /\ Plain \subseteq Ids
    /\ \A f \in NeedsOf : DOMAIN f \subseteq Defs /\ \A d \in DOMAIN f : f[d] \subseteq Ids
    /\ Commands \subseteq {"apply", "diff", "template"}

Options == {"none", "skip", "include", "transitive"}

VARIABLES command,   \* the kind of command
          needs,     \* the IDs each definition of the state needs, after ApplyOverrides
          match,     \* definitions the selectors and the condition match
          desired,   \* definitions without installed: false
          option,    \* how needs outside the selection are treated
          enforce,   \* --enforce-needs-are-installed
          stage, failed,
          selected,  \* definitions that are selected
          pool,      \* definitions left after duplicates are resolved
          planned,   \* IDs in the plan
          groups,    \* their groups, in order
          shown      \* IDs withNeeds hands to the command

inputs == <<command, needs, match, desired, option, enforce>>
State == DOMAIN needs
rendering == command # "apply"
vars == <<inputs, stage, failed, selected, pool, planned, groups, shown>>

TypeOK ==
    /\ command \in Commands /\ needs \in NeedsOf
    /\ match \subseteq State /\ desired \subseteq State
    /\ option \in Options /\ enforce \in BOOLEAN /\ failed \in BOOLEAN
    /\ stage \in {"select", "plan", "split", "check", "done"}
    /\ selected \subseteq pool /\ pool \subseteq State
    /\ \A d, e \in pool : IdOf[d] = IdOf[e] => d = e
    /\ {planned, shown} \subseteq SUBSET Ids
    /\ groups \in Seq(SUBSET Ids)

Init == /\ command \in Commands /\ needs \in NeedsOf
        /\ match \in SUBSET State
        /\ desired \in (IF rendering THEN SUBSET State ELSE {State})
        /\ option \in Options /\ enforce \in (IF rendering THEN BOOLEAN ELSE {FALSE})
        /\ stage = "select" /\ failed = FALSE
        /\ selected = {} /\ pool = {} /\ planned = {} /\ groups = <<>> /\ shown = {}

IdsIn(defs) == {IdOf[d] : d \in defs}
Include == option \in {"include", "transitive"}
Skip == option = "skip"

\* The graph of the definitions left, and the needs of an ID in it.
Nodes == IdsIn(pool)
Graph == [i \in Nodes |-> UNION {needs[d] : d \in {e \in pool : IdOf[e] = i}}]

Fail == failed' = TRUE /\ stage' = "done"

----------------------------------------------------------------------------
(* getSelectedReleases.                                                     *)

\* A bug: only needs of the matching releases are collected.
CollectedDirect(start) == UNION {needs[d] : d \in start}

\* collectNeedsWithTransitives: the IDs needed by the definitions in start, and by every
\* definition that has the NAME of a collected ID, whatever its namespace and kube context.
Collected(start) ==
    {i \in Ids : \A S \in SUBSET Ids :
        (/\ \A d \in start : needs[d] \subseteq S
         /\ \A s \in S : \A d \in State :
                NameOf[IdOf[d]] = NameOf[s] => needs[d] \subseteq S) => i \in S}

\* markExcludedReleases: needs are unmarked for apply and sync only.
Marked == IF option = "transitive" /\ ~rendering
          THEN match \cup {d \in State : IdOf[d] \in Collected(match)}
          ELSE match

Twins(d) == {e \in State : IdOf[e] = IdOf[d]}

\* Two selected definitions with one ID are an error; of several definitions with one ID
\* only the selected one is kept, so that the graph has one node per ID.
Select ==
    /\ stage = "select"
    /\ IF \E d, e \in Marked : d # e /\ IdOf[d] = IdOf[e]
       THEN Fail /\ UNCHANGED <<selected, pool>>
       ELSE /\ selected' = Marked
            /\ pool' = {d \in State : Twins(d) = {d} \/ d \in Marked}
            /\ stage' = IF Marked = {} THEN "done" ELSE "plan"
            /\ UNCHANGED failed
    /\ UNCHANGED <<inputs, planned, groups, shown>>

----------------------------------------------------------------------------
(* Planning.                                                                *)

\* PlanReleases on the releases left after duplicates are resolved.
Plan ==
    /\ stage = "plan"
    /\ LET only == IdsIn(selected) IN
       IF PlanFails(Nodes, Graph, only, Include, Skip)
       THEN Fail /\ UNCHANGED <<planned, groups>>
       ELSE /\ planned' = PlannedIds(Graph, only, Include)
            /\ groups' = Groups(Nodes, Graph, planned', FALSE)
            /\ stage' = IF rendering THEN "split" ELSE "done"
            /\ UNCHANGED failed
    /\ UNCHANGED <<inputs, selected, pool, shown>>

DesiredIds == IdsIn(desired \cap pool)

\* A bug: the releases to uninstall are dropped for diff too.
NoneToUninstall == {}

\* What the second plan has, and what includeDisabled adds to it.
Rendered == PlannedIds(Graph, planned \cap DesiredIds, Include)
ToUninstall == IF command = "diff" THEN planned \ DesiredIds ELSE {}

\* withNeeds plans the desired releases of the plan once more, with the needs it was asked
\* to include.
Split ==
    /\ stage = "split"
    /\ LET render == planned \cap DesiredIds IN
       IF render # {} /\ PlanFails(Nodes, Graph, render, Include, Skip)
       THEN Fail /\ UNCHANGED <<groups, shown>>
       ELSE /\ shown' = Rendered \cup ToUninstall
            /\ groups' = Groups(Nodes, Graph, Rendered, FALSE)
            /\ stage' = "check"
            /\ UNCHANGED failed
    /\ UNCHANGED <<inputs, selected, pool, planned>>

\* HasTransitiveDependencyWithInstalledFalse: a need finds the releases whose NAME is
\* equal to it, which only a plain ID can be.
Found(n) == {i \in Nodes : n \in Plain /\ NameOf[n] = NameOf[i]}
FoundGraph == [i \in Nodes |-> UNION {Found(n) : n \in Graph[i]}]

\* A bug: a walk ends at the first release it finds.
WalkDirect(first, i) == [j \in Nodes |-> IF j = i THEN FoundGraph[j] ELSE {}]

\* The walk from a release visits each NAME once, and follows the needs of the first
\* release of that name in the state only; of its own name, those of the release itself.
Names == {NameOf[i] : i \in Nodes}
Firsts == {first \in [Names -> Nodes] : \A n \in Names : NameOf[first[n]] = n}
Walk(first, i) ==
    [j \in Nodes |->
        IF j = i \/ (first[NameOf[j]] = j /\ NameOf[j] # NameOf[i]) THEN FoundGraph[j] ELSE {}]

\* --enforce-needs-are-installed, for the releases to render.
Check ==
    /\ stage = "check"
    /\ \E first \in Firsts :
          IF /\ enforce
             /\ \E i \in planned \cap DesiredIds :
                   Reaches(Nodes, Walk(first, i), i) \ DesiredIds # {}
          THEN Fail
          ELSE stage' = "done" /\ UNCHANGED failed
    /\ UNCHANGED <<inputs, selected, pool, planned, groups, shown>>

Done == stage = "done" /\ UNCHANGED vars

Next == Select \/ Plan \/ Split \/ Check \/ Done

Spec == Init /\ [][Next]_vars

----------------------------------------------------------------------------
(* Properties.                                                              *)

Succeeded == stage = "done" /\ ~failed /\ selected # {}
InGroup(i) == CHOOSE g \in DOMAIN groups : i \in groups[g]
Grouped == UNION {groups[g] : g \in DOMAIN groups}

\* Every planned release is in exactly one group, and comes after all the planned releases
\* it needs, also when it needs them only through releases that are not planned: "All the
\* releases listed under needs are installed before(or deleted after) the release itself".
NeedsComeFirst ==
    Succeeded =>
        /\ \A g, h \in DOMAIN groups : g # h => groups[g] \cap groups[h] = {}
        /\ \A i \in Grouped : \A n \in Reaches(Nodes, Graph, i) \cap Grouped :
              InGroup(n) < InGroup(i)

\* No two releases of the state share a name.
OwnNames == \A d, e \in State : NameOf[IdOf[d]] = NameOf[IdOf[e]] => IdOf[d] = IdOf[e]

\* apply and sync plan what was selected and what was asked for with it, whatever selectors
\* and conditions say of the needs: with --include-needs at least the direct needs, with
\* --include-transitive-needs all of them ("The direct and transitive needs of the selected
\* release(s) will be included"), with --skip-needs none.  With no option a plan that leaves
\* a need out fails.  And nothing else is planned, unless transitive needs, which are
\* collected by name, are looked for among releases that share one.
PlanExact ==
    LET Needed(i) == Reaches(Nodes, Graph, i)
        chosen == IdsIn(match) IN
    Succeeded /\ ~rendering =>
        /\ planned = Grouped /\ chosen \subseteq planned
        /\ option # "transitive" \/ OwnNames =>
              planned \subseteq UNION {Needed(i) \cup {i} : i \in chosen}
        /\ option = "include" => UNION {Graph[i] : i \in chosen} \subseteq planned
        /\ option = "transitive" => UNION {Needed(i) : i \in chosen} \subseteq planned
        /\ option = "none" => \A i \in planned : Graph[i] \subseteq planned
        /\ option = "skip" => planned = IdsIn(selected)

\* withNeeds loses nothing between its two plans and lets little in: every desired release
\* of the first plan is handed to the command, in its group; diff is handed the releases to
\* uninstall too, template, lint and unittest are not; and nothing else comes in but, where
\* needs are included, direct needs of the releases that are rendered, planned or not.
NothingHidden ==
    LET render == planned \cap DesiredIds
        more == IF Include THEN UNION {Graph[i] : i \in render} ELSE {} IN
    Succeeded /\ rendering =>
        /\ IdsIn(selected) \subseteq planned
        /\ render \subseteq shown \cap Grouped
        /\ command = "diff" => planned \subseteq shown /\ shown \subseteq planned \cup more
        /\ command = "template" => shown \subseteq render \cup more

\* --enforce-needs-are-installed: "enforce that all 'needs' dependencies are installable
\* before applying changes".  A command that goes on renders no release with a direct need,
\* given by its plain name, that is not installed; and where no two releases share a name,
\* none that needs such a release through any number of plain names.
PlainGraph == [i \in Nodes |-> Graph[i] \cap Plain]
NeedsEnforced ==
    Succeeded /\ enforce =>
        \A i \in planned \cap DesiredIds :
            /\ PlainGraph[i] \subseteq DesiredIds
            /\ OwnNames => Reaches(Nodes, PlainGraph, i) \subseteq DesiredIds
=============================================================================
