-------------------------- MODULE Converge_proofs --------------------------
(***************************************************************************)
(* Proofs about Converge, for every finite set of releases, every acyclic  *)
(* graph of needs and every plan.                                          *)
(***************************************************************************)
EXTENDS Converge, FiniteSetTheorems, TLAPS

----------------------------------------------------------------------------
(* The groups of the graph (ReleaseGraph).                                  *)

\* A level is smaller than that of everything that needs the release, through any number of
\* other releases.
LEMMA ReachesLower ==
    ASSUME NEW R, NEW nd \in [R -> SUBSET R], NEW lv \in [R -> Int], Levelled(R, nd, lv),
           NEW r \in R, NEW n \in Reaches(R, nd, r)
    PROVE  n \in R /\ lv[n] < lv[r]
<1> DEFINE S == {i \in R : lv[i] < lv[r]}
<1>1. S \in SUBSET R
  OBVIOUS
<1>2. nd[r] \subseteq S
  BY DEF Levelled
<1>3. \A s \in S : nd[s] \subseteq S
  <2> SUFFICES ASSUME NEW s \in S, NEW i \in nd[s]
               PROVE  i \in S
    OBVIOUS
  <2>1. i \in R /\ lv[i] < lv[s] /\ lv[s] < lv[r]
    BY DEF Levelled
  <2>2. lv[i] \in Int /\ lv[s] \in Int /\ lv[r] \in Int
    BY <2>1
  <2> QED BY <2>1, <2>2
<1>4. n \in S
  BY <1>1, <1>2, <1>3 DEF Reaches
<1> QED BY <1>4

\* The levels of an acyclic graph are bounded natural numbers that grow along its needs.
LEMMA LevelsLevelled ==
    ASSUME NEW R, IsFiniteSet(R), NEW nd \in [R -> SUBSET R], Acyclic(R, nd)
    PROVE  /\ Levels(R, nd) \in [R -> 0..(Cardinality(R) - 1)]
           /\ Levelled(R, nd, Levels(R, nd))
           /\ Cardinality(R) \in Nat
<1>1. Levels(R, nd) \in LevelMaps(R) /\ Levelled(R, nd, Levels(R, nd))
  BY DEF Acyclic, Levels
<1>2. Cardinality(R) \in Nat
  BY FS_CardinalityType
<1> QED BY <1>1, <1>2 DEF LevelMaps

\* The groups of a plan: each is part of the plan, together they are all of it, no two share
\* a release, and what a release needs is in an earlier group, or in a later one for a
\* deletion.
LEMMA GroupsFacts ==
    ASSUME NEW R, IsFiniteSet(R), NEW nd \in [R -> SUBSET R], Acyclic(R, nd),
           NEW P \in SUBSET R, NEW rev \in BOOLEAN
    PROVE  LET G == Groups(R, nd, P, rev) IN
           /\ Len(G) \in Nat
           /\ \A i \in 1..Len(G) : G[i] \subseteq P
           /\ \A r \in P : \E i \in 1..Len(G) : r \in G[i]
           /\ \A i \in 1..Len(G), j \in 1..Len(G) : i # j => G[i] \cap G[j] = {}
           /\ \A i \in 1..Len(G), j \in 1..Len(G) : \A r \in G[i], n \in G[j] :
                 n \in Reaches(R, nd, r) => IF rev THEN i < j ELSE j < i
<1> DEFINE lv == Levels(R, nd)
           used == {lv[r] : r \in P}
           under(r) == {l \in used : l < lv[r]}
           below(r) == Cardinality(under(r))
           place(r) == IF rev THEN Cardinality(used) - below(r) ELSE below(r) + 1
           G == Groups(R, nd, P, rev)
<1>1. lv \in [R -> 0..(Cardinality(R) - 1)] /\ Levelled(R, nd, lv) /\ Cardinality(R) \in Nat
  BY LevelsLevelled
<1>2. IsFiniteSet(used) /\ Cardinality(used) \in Nat
  <2>1. IsFiniteSet(0..(Cardinality(R) - 1))
    BY <1>1, FS_Interval
  <2>2. used \in SUBSET (0..(Cardinality(R) - 1))
    BY <1>1
  <2> HIDE DEF used
  <2> QED BY <2>1, <2>2, FS_Subset, FS_CardinalityType
<1>3. G = [i \in 1..Cardinality(used) |-> {r \in P : place(r) = i}]
  BY DEF Groups
<1>4. Len(G) = Cardinality(used)
  <2> HIDE DEF used, place, G
  <2> QED BY <1>2, <1>3
<1>5. \A r \in P : IsFiniteSet(under(r)) /\ below(r) \in Nat /\ below(r) < Cardinality(used)
  <2> SUFFICES ASSUME NEW r \in P
               PROVE  IsFiniteSet(under(r)) /\ below(r) \in Nat /\ below(r) < Cardinality(used)
    OBVIOUS
  <2>1. under(r) \in SUBSET used
    OBVIOUS
  <2>2. lv[r] \in used /\ lv[r] \notin under(r)
    BY <1>1
  <2> HIDE DEF used, under
  <2>3. IsFiniteSet(under(r)) /\ below(r) \in Nat /\ below(r) <= Cardinality(used)
    BY <1>2, <2>1, FS_Subset, FS_CardinalityType
  <2>4. below(r) # Cardinality(used)
    BY <1>2, <2>1, <2>2, FS_Subset
  <2> QED BY <1>2, <2>3, <2>4
<1>6. \A r \in P : place(r) \in 1..Cardinality(used)
  <2> SUFFICES ASSUME NEW r \in P
               PROVE  place(r) \in 1..Cardinality(used)
    OBVIOUS
  <2>1. below(r) \in Nat /\ below(r) < Cardinality(used)
    BY <1>5
  <2> QED BY <1>2, <2>1
<1>7. ASSUME NEW r \in P, NEW n \in P, n \in Reaches(R, nd, r)
      PROVE  below(n) < below(r)
  <2>1. lv[n] < lv[r]
    BY <1>1, <1>7, ReachesLower
  <2>2. lv[n] \in Int /\ lv[r] \in Int /\ \A l \in used : l \in Int
    BY <1>1
  <2>3. under(n) \in SUBSET under(r)
    BY <2>1, <2>2
  <2>4. lv[n] \in under(r) /\ lv[n] \notin under(n)
    BY <2>1, <2>2
  <2>5. below(n) <= below(r) /\ below(n) # below(r)
    <3> HIDE DEF under
    <3> QED BY <1>5, <2>3, <2>4, FS_Subset
  <2>6. below(n) \in Nat /\ below(r) \in Nat
    BY <1>5
  <2> QED BY <2>5, <2>6
<1>8. \A i \in 1..Len(G) : G[i] = {r \in P : place(r) = i}
  <2> HIDE DEF used, place, G
  <2> QED BY <1>3, <1>4
<1>9. \A r \in P, n \in P : n \in Reaches(R, nd, r) =>
         IF rev THEN place(r) < place(n) ELSE place(n) < place(r)
  <2> SUFFICES ASSUME NEW r \in P, NEW n \in P, n \in Reaches(R, nd, r)
               PROVE  IF rev THEN place(r) < place(n) ELSE place(n) < place(r)
    OBVIOUS
  <2>1. below(n) < below(r)
    BY <1>7
  <2>2. below(n) \in Nat /\ below(r) \in Nat
    BY <1>5
  <2> QED BY <1>2, <2>1, <2>2
<1> HIDE DEF used, place, G
<1>10. \A r \in P : \E i \in 1..Len(G) : r \in G[i]
  BY <1>4, <1>6, <1>8
<1>11. \A i \in 1..Len(G), j \in 1..Len(G) : \A r \in G[i], n \in G[j] :
          n \in Reaches(R, nd, r) => IF rev THEN i < j ELSE j < i
  BY <1>8, <1>9
<1>12. Len(G) \in Nat /\ \A i \in 1..Len(G) : G[i] \subseteq P
  BY <1>2, <1>4, <1>8
<1>13. \A i \in 1..Len(G), j \in 1..Len(G) : i # j => G[i] \cap G[j] = {}
  BY <1>8
<1> QED BY <1>10, <1>11, <1>12, <1>13 DEF G

----------------------------------------------------------------------------
(* The inductive invariant.                                                 *)

\* What the traversal of a phase was planned for.
Targets == CASE phase = "preapply" -> planned
             [] phase = "delete" -> toDelete
             [] OTHER -> PlannedIds(needs, toUpdate, transitive)

\* What was found to do fits the command and the state file.
Detected ==
    /\ transitive => \A r \in planned : needs[r] \subseteq planned
    /\ command = "destroy" => toUpdate = {}
    /\ command # "destroy" => toDelete \cap desired = {}
    /\ presumed \cap toDelete = {}

Control ==
    /\ phase = "preapply" => command = "apply"
    /\ phase = "update" => command # "destroy"
    /\ phase \in {"prepare", "detect", "confirm"} => ~confirmed
    /\ phase \in Rounds => confirmed
    /\ phase \notin {"global cleanup", "done"} => ~broken
    /\ phase \in Rounds /\ stuck => failed # {}
    /\ phase = "preapply" => ~stuck

\* The groups are those of the plan; left is what is left of group g.
InGroups ==
    phase \in Rounds =>
        /\ groups = Groups(Releases, needs, Targets, phase # "update")
        /\ g <= Len(groups)
        /\ left \subseteq Work
        /\ g = 0 => left = {}

\* A release is worked on once: what was touched is in a group that was started, or was
\* uninstalled before the upgrades.
Fresh ==
    /\ phase \in {"prepare", "detect", "confirm", "preapply"} => Touched = {} /\ cluster = start
    /\ phase \in {"delete", "update"} =>
          /\ left \cap Touched = {}
          /\ \A r \in Touched : \/ phase = "update" /\ r \in toDelete
                                \/ \E i \in 1..g : r \in groups[i]
    /\ Touched # {} => toDelete \cup toUpdate # {}

\* Every group before g has succeeded, and of g itself what has ended unless it is stuck.
Progress ==
    /\ phase = "preapply" => \A i \in 1..g : groups[i] \subseteq hooked \cup left
    /\ phase \in {"delete", "update"} =>
          \A i \in 1..g : /\ i < g => groups[i] \cap Work \subseteq Passed
                          /\ ~stuck => groups[i] \cap Work \subseteq Passed \cup left

Gate == /\ NothingUnconfirmed
        /\ hooked \subseteq planned
        /\ phase \in {"delete", "update"} /\ command = "apply" => hooked = planned

AtTarget ==
    /\ \A r \in applied : cluster[r] = Target(r)
    /\ phase \notin {"prepare", "detect"} /\ ~broken =>
          \A r \in planned \ (toDelete \cup toUpdate \cup failed \cup presumed) :
              cluster[r] = Target(r)

Worked ==
    /\ phase = "update" /\ failed = {} => toDelete \subseteq Passed
    /\ phase \in {"cleanup", "global cleanup", "done"} /\ confirmed /\ ~Errors =>
          toDelete \cup toUpdate \subseteq Passed

Reported ==
    /\ phase \in {"global cleanup", "done"} /\ command # "destroy" /\ ~Errors /\ Touched # {} => updated
    /\ phase = "done" => /\ code = 1 <=> Errors
                         /\ code = 0 => ~updated

IInv == /\ TypeOK /\ Detected /\ Control /\ InGroups /\ Fresh /\ Progress
        /\ Gate /\ AtTarget /\ Worked /\ Reported /\ GroupOrder

----------------------------------------------------------------------------
(* Facts about a traversal.                                                 *)

\* What is assumed of the constants, for the inputs of a command.
LEMMA InputsTyped ==
    ASSUME TypeOK
    PROVE  /\ IsFiniteSet(Releases) /\ needs \in [Releases -> SUBSET Releases]
           /\ Acyclic(Releases, needs)
           /\ command \in {"apply", "sync", "destroy"}
BY ConvergeAssumption DEF TypeOK

\* What a traversal is planned for is part of the plan: of its releases without selector, and
\* with --include-transitive-needs of what they need.
LEMMA TargetsPlanned ==
    ASSUME TypeOK, Detected
    PROVE  /\ PlannedIds(needs, planned, FALSE) = planned
           /\ PlannedIds(needs, toDelete, FALSE) = toDelete
           /\ PlannedIds(needs, toUpdate, transitive) \in SUBSET planned
           /\ toUpdate \subseteq PlannedIds(needs, toUpdate, transitive)
           /\ toUpdate = {} => PlannedIds(needs, toUpdate, transitive) = {}
           /\ Targets \in SUBSET planned /\ planned \in SUBSET Releases
<1>1. PlannedIds(needs, planned, FALSE) = planned /\ PlannedIds(needs, toDelete, FALSE) = toDelete
  BY DEF PlannedIds
<1>2. toUpdate \subseteq planned /\ toDelete \subseteq planned /\ planned \in SUBSET Releases
  BY DEF TypeOK
<1>3. PlannedIds(needs, toUpdate, transitive) \in SUBSET planned
  BY <1>2, InputsTyped DEF Detected, PlannedIds
<1>4. toUpdate \subseteq PlannedIds(needs, toUpdate, transitive)
  BY DEF PlannedIds
<1>5. toUpdate = {} => PlannedIds(needs, toUpdate, transitive) = {}
  BY DEF PlannedIds
<1> QED BY <1>1, <1>2, <1>3, <1>4, <1>5 DEF Targets

\* The groups of the running traversal.
LEMMA GroupsNow ==
    ASSUME TypeOK, Detected, InGroups, phase \in Rounds
    PROVE  /\ Len(groups) \in Nat
           /\ \A i \in 1..Len(groups) : groups[i] \subseteq Targets
           /\ \A r \in Targets : \E i \in 1..Len(groups) : r \in groups[i]
           /\ \A i \in 1..Len(groups), j \in 1..Len(groups) : i # j => groups[i] \cap groups[j] = {}
           /\ \A i \in 1..Len(groups), j \in 1..Len(groups) : \A r \in groups[i], n \in groups[j] :
                 n \in Reaches(Releases, needs, r) => IF phase # "update" THEN i < j ELSE j < i
<1> DEFINE rev == phase # "update"
<1>1. rev \in BOOLEAN /\ Targets \in SUBSET Releases
  BY TargetsPlanned
<1>2. groups = Groups(Releases, needs, Targets, rev)
  BY DEF InGroups
<1> HIDE DEF rev
<1>3. /\ IsFiniteSet(Releases) /\ needs \in [Releases -> SUBSET Releases]
      /\ Acyclic(Releases, needs)
  BY InputsTyped
<1>4. LET G == Groups(Releases, needs, Targets, rev) IN
      /\ Len(G) \in Nat
      /\ \A i \in 1..Len(G) : G[i] \subseteq Targets
      /\ \A r \in Targets : \E i \in 1..Len(G) : r \in G[i]
      /\ \A i \in 1..Len(G), j \in 1..Len(G) : i # j => G[i] \cap G[j] = {}
      /\ \A i \in 1..Len(G), j \in 1..Len(G) : \A r \in G[i], n \in G[j] :
            n \in Reaches(Releases, needs, r) => IF rev THEN i < j ELSE j < i
  <2> HIDE DEF Targets
  <2> QED BY <1>1, <1>3, GroupsFacts, ZenonT(60)
<1>5. /\ Len(groups) \in Nat
      /\ \A i \in 1..Len(groups) : groups[i] \subseteq Targets
      /\ \A r \in Targets : \E i \in 1..Len(groups) : r \in groups[i]
      /\ \A i \in 1..Len(groups), j \in 1..Len(groups) : i # j => groups[i] \cap groups[j] = {}
      /\ \A i \in 1..Len(groups), j \in 1..Len(groups) : \A r \in groups[i], n \in groups[j] :
            n \in Reaches(Releases, needs, r) => IF rev THEN i < j ELSE j < i
  BY <1>2, <1>4, Zenon
<1> QED BY <1>5, Zenon DEF rev

\* What a group works on.
LEMMA WorkFacts ==
    ASSUME TypeOK, Control, phase \in Rounds
    PROVE  /\ phase = "preapply" => Work = planned
           /\ phase = "delete" => Work = toDelete
           /\ phase = "update" => toUpdate \subseteq Work /\ Work \cap toDelete = {}
           /\ phase = "update" /\ command = "apply" => Work = toUpdate
<1>1. /\ toDelete \subseteq Releases /\ toUpdate \subseteq Releases /\ toDelete \cap toUpdate = {}
      /\ phase = "update" => command \in {"apply", "sync"}
  BY InputsTyped DEF TypeOK, Control
<1>2. phase = "preapply" => Work = planned
  BY DEF Work
<1>3. phase = "delete" => Work = toDelete
  BY DEF Work
<1>4. phase = "update" /\ command = "apply" => Work = toUpdate
  BY DEF Work
<1>5. phase = "update" /\ command = "sync" => Work = Releases \ toDelete
  BY DEF Work
<1> QED BY <1>1, <1>2, <1>3, <1>4, <1>5

\* A traversal starts with the groups of what it was planned for.
LEMMA TraversalBegins ==
    ASSUME TypeOK, Detected, UNCHANGED <<inputs, toDelete, toUpdate>>,
           \/ Traverse("preapply", planned, FALSE, TRUE)
           \/ BeginDelete
           \/ Traverse("update", toUpdate, transitive, FALSE)
    PROVE  /\ InGroups' /\ Progress'
           /\ g' = 0 /\ left' = {} /\ stuck' = FALSE /\ phase' \in Rounds
<1>1. g' = 0 /\ left' = {} /\ stuck' = FALSE /\ phase' \in Rounds
  BY DEF Traverse, BeginDelete, Rounds
<1>2. groups' = Groups(Releases, needs, Targets', phase' # "update")
  BY TargetsPlanned DEF Traverse, BeginDelete, Targets, inputs
<1>3. Targets' \in SUBSET Releases
  <2>1. Targets' \in {PlannedIds(needs, planned, FALSE), PlannedIds(needs, toDelete, FALSE),
                      PlannedIds(needs, toUpdate, transitive)}
    BY TargetsPlanned DEF Traverse, BeginDelete, Targets, inputs
  <2>2. toDelete \in SUBSET planned
    BY DEF TypeOK
  <2> QED BY <2>1, <2>2, TargetsPlanned
<1>4. Len(groups') \in Nat
  <2> DEFINE rev == phase' # "update"
  <2>1. rev \in BOOLEAN
    OBVIOUS
  <2>2. groups' = Groups(Releases, needs, Targets', rev)
    BY <1>2
  <2> HIDE DEF rev
  <2> QED BY <1>3, <2>1, <2>2, InputsTyped, GroupsFacts
<1>5. InGroups'
  BY <1>1, <1>2, <1>4 DEF InGroups, inputs
<1>6. Progress'
  BY <1>1 DEF Progress
<1> QED BY <1>1, <1>5, <1>6

----------------------------------------------------------------------------
(* Every step preserves the invariant.                                      *)

\* The inputs of a command satisfy the invariant.
LEMMA InitIInv == ASSUME Init PROVE IInv
<1> USE DEF Init
<1>1. TypeOK
  BY ConvergeAssumption DEF TypeOK, Statuses, Phases, Rounds
<1>2. Detected /\ Control /\ InGroups /\ Progress /\ Worked
  BY DEF Detected, Control, InGroups, Progress, Worked, Rounds
<1>3. Fresh /\ Gate /\ NothingUnconfirmed /\ AtTarget /\ Reported /\ GroupOrder
  BY DEF Fresh, Gate, NothingUnconfirmed, AtTarget, Reported, GroupOrder, Touched, Passed
<1> QED BY <1>1, <1>2, <1>3 DEF IInv

\* WithPreparedCharts: the command goes on with detect, or ends with an error.
LEMMA PrepareStep == ASSUME IInv, Prepare PROVE IInv'
<1> USE DEF IInv, Prepare, inputs, found, batch, ended, outcome, Passed
<1>1. TypeOK'
  <2>1. (/\ command \in Commands /\ needs \in NeedsOf /\ planned \in SUBSET Releases
        /\ desired \in SUBSET Releases /\ applied \in SUBSET Releases
        /\ failed \in SUBSET Releases /\ presumed \in SUBSET Releases
        /\ hooked \in SUBSET Releases
        /\ cleaned \in SUBSET Releases /\ start \in [Releases -> Statuses]
        /\ cluster \in [Releases -> Statuses] /\ toDelete \in SUBSET planned
        /\ toUpdate \in SUBSET (planned \cap desired) /\ toDelete \cap toUpdate = {}
        /\ applied \cap failed = {} /\ presumed \cap (applied \cup failed) = {} /\ g \in Nat /\ left \in SUBSET planned
        /\ code \in {0, 1, 2})'
    BY DEF TypeOK
  <2>2. (/\ interactive \in BOOLEAN /\ transitive \in BOOLEAN
        /\ {stuck, confirmed, broken, updated} \subseteq BOOLEAN)'
    BY DEF TypeOK
  <2>3. (phase \in Phases)'
    BY DEF Phases, Rounds
  <2>4. (phase \in Rounds /\ g > 0 => left \subseteq groups[g])'
    BY DEF Rounds
  <2> QED BY <2>1, <2>2, <2>3, <2>4 DEF TypeOK
<1>2. Detected'
  BY DEF Detected
<1>3. Control'
  <2>1. (/\ (phase = "preapply" => command = "apply")
        /\ (phase = "update" => command # "destroy") /\ (phase \in Rounds => confirmed)
        /\ (phase \in Rounds /\ stuck => failed # {}) /\ (phase = "preapply" => ~stuck))'
    BY DEF Rounds
  <2>2. (phase \in {"prepare", "detect", "confirm"} => ~confirmed)'
    BY DEF Control
  <2>3. (phase \notin {"global cleanup", "done"} => ~broken)'
    BY DEF Control, Rounds
  <2> QED BY <2>1, <2>2, <2>3 DEF Control
<1>4. InGroups'
  BY DEF InGroups, Control, Rounds
<1>5. Fresh'
  BY DEF Fresh, Touched
<1>6. Progress'
  BY DEF Progress
<1>7. Gate'
  BY DEF Gate, NothingUnconfirmed, Touched, Fresh
<1>8. AtTarget'
  BY DEF AtTarget, Target
<1>9. Worked'
  BY DEF Worked, Errors, Fresh, Touched
<1>10. Reported'
  <2>1. (phase \in {"global cleanup", "done"} /\ command # "destroy" /\ ~Errors /\ Touched # {} => updated)'
    BY DEF Errors, Touched, Fresh
  <2>2. (phase = "done" => (code = 1 <=> Errors))'
    BY DEF Errors, Touched, Fresh
  <2>3. (phase = "done" => (code = 0 => ~updated))'
    BY DEF Reported
  <2> QED BY <2>1, <2>2, <2>3 DEF Reported
<1>11. GroupOrder'
  BY DEF GroupOrder, Touched, Fresh
<1> QED BY <1>1, <1>2, <1>3, <1>4, <1>5, <1>6, <1>7, <1>8, <1>9, <1>10, <1>11

\* What is to be deleted and updated fits the plan, and what neither covers is converged.
LEMMA DetectStep == ASSUME IInv, Detect PROVE IInv'
<1> USE DEF IInv, Detect, inputs, found, batch, ended, outcome, Passed
<1>1. TypeOK'
  <2>1. (/\ command \in Commands /\ needs \in NeedsOf /\ planned \in SUBSET Releases
        /\ desired \in SUBSET Releases /\ applied \in SUBSET Releases
        /\ failed \in SUBSET Releases /\ presumed \in SUBSET Releases
        /\ hooked \in SUBSET Releases
        /\ cleaned \in SUBSET Releases /\ start \in [Releases -> Statuses]
        /\ cluster \in [Releases -> Statuses] /\ g \in Nat /\ left \in SUBSET planned
        /\ code \in {0, 1, 2})'
    BY DEF TypeOK
  <2>2. (/\ interactive \in BOOLEAN /\ transitive \in BOOLEAN
        /\ {stuck, confirmed, broken, updated} \subseteq BOOLEAN)'
    BY DEF TypeOK
  <2>3. (phase \in Phases)'
    BY DEF Phases, Rounds
  <2>4. (/\ toDelete \in SUBSET planned /\ toUpdate \in SUBSET (planned \cap desired)
        /\ toDelete \cap toUpdate = {} /\ applied \cap failed = {} /\ presumed \cap (applied \cup failed) = {})'
    BY InputsTyped DEF TypeOK, ToDelete, ToUpdate
  <2>5. (phase \in Rounds /\ g > 0 => left \subseteq groups[g])'
    BY DEF Rounds
  <2> QED BY <2>1, <2>2, <2>3, <2>4, <2>5 DEF TypeOK
<1>2. Detected'
  BY InputsTyped DEF Detected, ToDelete, ToUpdate, Installed, Fresh, Touched
<1>3. Control'
  <2>1. (/\ (phase = "preapply" => command = "apply")
        /\ (phase = "update" => command # "destroy") /\ (phase \in Rounds => confirmed)
        /\ (phase \in Rounds /\ stuck => failed # {}) /\ (phase = "preapply" => ~stuck))'
    BY DEF Rounds
  <2>2. (phase \in {"prepare", "detect", "confirm"} => ~confirmed)'
    BY DEF Control
  <2>3. (phase \notin {"global cleanup", "done"} => ~broken)'
    BY DEF Control, Rounds
  <2> QED BY <2>1, <2>2, <2>3 DEF Control
<1>4. InGroups'
  BY DEF InGroups, Control, Rounds
<1>5. Fresh'
  BY DEF Fresh, Touched
<1>6. Progress'
  BY DEF Progress
<1>7. Gate'
  BY DEF Gate, NothingUnconfirmed, Touched, Fresh
<1>8. AtTarget'
  <2>1. applied = {} /\ presumed = {} /\ cluster = start
    BY DEF Fresh, Touched
  <2>2. CASE broken' = TRUE
    BY <2>1, <2>2 DEF AtTarget
  <2>3. CASE toDelete' = ToDelete /\ toUpdate' = ToUpdate
    <3>1. ASSUME NEW r \in planned \ (ToDelete \cup ToUpdate) PROVE cluster[r] = Target(r)
      BY InputsTyped DEF TypeOK, Statuses, Target, ToDelete, ToUpdate, Installed
    <3> QED BY <2>1, <2>3, <3>1 DEF AtTarget, Target
  <2> QED BY <2>2, <2>3
<1>9. Worked'
  BY DEF Worked, Errors, Fresh, Touched
<1>10. Reported'
  <2>1. (phase \in {"global cleanup", "done"} /\ command # "destroy" /\ ~Errors /\ Touched # {} => updated)'
    BY DEF Errors, Touched, Fresh
  <2>2. (phase = "done" => (code = 1 <=> Errors))'
    BY DEF Errors, Touched, Fresh
  <2>3. (phase = "done" => (code = 0 => ~updated))'
    BY DEF Reported
  <2> QED BY <2>1, <2>2, <2>3 DEF Reported
<1>11. GroupOrder'
  BY DEF GroupOrder, Touched, Fresh
<1> QED BY <1>1, <1>2, <1>3, <1>4, <1>5, <1>6, <1>7, <1>8, <1>9, <1>10, <1>11

\* The two outcomes of Confirm.
Answer == /\ phase = "confirm" /\ confirmed' = TRUE
          /\ \/ command = "apply" /\ Traverse("preapply", planned, FALSE, TRUE)
             \/ command # "apply" /\ BeginDelete
          /\ UNCHANGED <<inputs, cluster, toDelete, toUpdate, hooked, outcome, cleaned>>
Decline == /\ phase = "confirm" /\ phase' = "cleanup"
           /\ UNCHANGED <<inputs, cluster, found, batch, hooked, outcome, cleaned>>

\* A declined command goes straight to the cleanup, with nothing touched.
LEMMA DeclineStep == ASSUME IInv, Decline PROVE IInv'
<1> USE DEF IInv, inputs, found, batch, ended, outcome, Passed
<1>a. /\ phase = "confirm" /\ phase' = "cleanup"
      /\ UNCHANGED <<inputs, cluster, found, batch, hooked, outcome, cleaned>>
  BY DEF Decline
<1> USE <1>a
<1>1. TypeOK'
  <2>1. (/\ command \in Commands /\ needs \in NeedsOf /\ planned \in SUBSET Releases
        /\ desired \in SUBSET Releases /\ applied \in SUBSET Releases
        /\ failed \in SUBSET Releases /\ presumed \in SUBSET Releases
        /\ hooked \in SUBSET Releases
        /\ cleaned \in SUBSET Releases /\ start \in [Releases -> Statuses]
        /\ cluster \in [Releases -> Statuses] /\ toDelete \in SUBSET planned
        /\ toUpdate \in SUBSET (planned \cap desired) /\ toDelete \cap toUpdate = {}
        /\ applied \cap failed = {} /\ presumed \cap (applied \cup failed) = {} /\ g \in Nat /\ left \in SUBSET planned
        /\ code \in {0, 1, 2})'
    BY DEF TypeOK
  <2>2. (/\ interactive \in BOOLEAN /\ transitive \in BOOLEAN
        /\ {stuck, confirmed, broken, updated} \subseteq BOOLEAN)'
    BY DEF TypeOK
  <2>3. (phase \in Phases)'
    BY DEF Phases, Rounds
  <2>4. (phase \in Rounds /\ g > 0 => left \subseteq groups[g])'
    BY DEF Rounds
  <2> QED BY <2>1, <2>2, <2>3, <2>4 DEF TypeOK
<1>2. Detected'
  BY DEF Detected
<1>3. Control'
  <2>1. (/\ (phase = "preapply" => command = "apply")
        /\ (phase = "update" => command # "destroy")
        /\ (phase \in {"prepare", "detect", "confirm"} => ~confirmed)
        /\ (phase \in Rounds => confirmed)
        /\ (phase \notin {"global cleanup", "done"} => ~broken)
        /\ (phase \in Rounds /\ stuck => failed # {}) /\ (phase = "preapply" => ~stuck))'
    BY DEF Control, Rounds
  <2> QED BY <2>1 DEF Control
<1>4. InGroups'
  BY DEF InGroups, Rounds
<1>5. Fresh'
  BY DEF Fresh, Touched
<1>6. Progress'
  BY DEF Progress
<1>7. Gate'
  BY DEF Gate, NothingUnconfirmed, Touched, Fresh
<1>8. AtTarget'
  BY DEF AtTarget, Target
<1>9. Worked'
  BY DEF Worked, Control
<1>10. Reported'
  BY DEF Reported
<1>11. GroupOrder'
  BY DEF GroupOrder, Touched, Fresh
<1> QED BY <1>1, <1>2, <1>3, <1>4, <1>5, <1>6, <1>7, <1>8, <1>9, <1>10, <1>11

\* A confirmed command starts its first traversal, with nothing touched.
LEMMA AnswerStep == ASSUME IInv, Answer PROVE IInv'
<1> USE DEF IInv, inputs, found, batch, ended, outcome, Passed
<1>a. /\ phase = "confirm" /\ confirmed' = TRUE
      /\ UNCHANGED <<inputs, cluster, toDelete, toUpdate, hooked, outcome, cleaned>>
  BY DEF Answer
<1>b. Touched = {} /\ cluster = start
  BY <1>a DEF Fresh
<1>c. /\ InGroups' /\ Progress' /\ g' = 0 /\ left' = {} /\ stuck' = FALSE
  BY <1>a, TraversalBegins DEF Answer
<1>d. /\ phase' \in {"preapply", "delete"}
      /\ phase' = "preapply" <=> command = "apply"
  BY DEF Answer, Traverse, BeginDelete
<1>1. TypeOK'
  <2>1. (/\ command \in Commands /\ needs \in NeedsOf /\ planned \in SUBSET Releases
        /\ desired \in SUBSET Releases /\ applied \in SUBSET Releases
        /\ failed \in SUBSET Releases /\ presumed \in SUBSET Releases
        /\ hooked \in SUBSET Releases
        /\ cleaned \in SUBSET Releases /\ start \in [Releases -> Statuses]
        /\ cluster \in [Releases -> Statuses] /\ toDelete \in SUBSET planned
        /\ toUpdate \in SUBSET (planned \cap desired) /\ toDelete \cap toUpdate = {}
        /\ applied \cap failed = {} /\ presumed \cap (applied \cup failed) = {} /\ code \in {0, 1, 2})'
    BY <1>a DEF TypeOK
  <2>2. (interactive \in BOOLEAN /\ transitive \in BOOLEAN)'
    BY <1>a DEF TypeOK
  <2>3. (phase \in Phases)'
    BY <1>d DEF Phases, Rounds
  <2>4. (/\ g \in Nat /\ left \in SUBSET planned
        /\ (phase \in Rounds /\ g > 0 => left \subseteq groups[g]))'
    BY <1>c
  <2>5. ({stuck, confirmed, broken, updated} \subseteq BOOLEAN)'
    BY <1>a, <1>c DEF TypeOK
  <2> QED BY <2>1, <2>2, <2>3, <2>4, <2>5 DEF TypeOK
<1>2. Detected'
  BY <1>a DEF Detected
<1>3. Control'
  <2>1. (phase = "preapply" => command = "apply")'
    BY <1>a, <1>d
  <2>2. (/\ (phase = "update" => command # "destroy")
        /\ (phase \in {"prepare", "detect", "confirm"} => ~confirmed))'
    BY <1>d
  <2>3. (phase \in Rounds => confirmed)'
    BY <1>a
  <2>4. (phase \notin {"global cleanup", "done"} => ~broken)'
    BY <1>a DEF Control
  <2>5. ((phase \in Rounds /\ stuck => failed # {}) /\ (phase = "preapply" => ~stuck))'
    BY <1>c
  <2> QED BY <2>1, <2>2, <2>3, <2>4, <2>5 DEF Control
<1>4. InGroups'
  BY <1>c
<1>5. Fresh'
  BY <1>a, <1>b, <1>c, <1>d DEF Fresh, Touched
<1>6. Progress'
  BY <1>c
<1>7. Gate'
  BY <1>a, <1>b, <1>d DEF Gate, NothingUnconfirmed, Touched
<1>8. AtTarget'
  BY <1>a DEF AtTarget, Target
<1>9. Worked'
  BY <1>d DEF Worked
<1>10. Reported'
  BY <1>d DEF Reported
<1>11. GroupOrder'
  BY <1>a, <1>b DEF GroupOrder, Touched
<1> QED BY <1>1, <1>2, <1>3, <1>4, <1>5, <1>6, <1>7, <1>8, <1>9, <1>10, <1>11

\* Both outcomes of Confirm.
LEMMA ConfirmStep == ASSUME IInv, Confirm PROVE IInv'
<1>1. Answer \/ Decline
  BY DEF Confirm, Answer, Decline, found
<1> QED BY <1>1, AnswerStep, DeclineStep

\* The result of an apply or sync that touched a release without an error says so.
LEMMA CleanupStep == ASSUME IInv, Cleanup PROVE IInv'
<1> USE DEF IInv, Cleanup, inputs, found, batch, ended, outcome, Passed
<1>a. ASSUME command # "destroy", ~Errors, Touched # {} PROVE updated' = TRUE
  <2>1. CASE command = "apply"
    BY <2>1
  <2>2. CASE command = "sync"
    <3>1. confirmed
      BY <1>a DEF Gate, NothingUnconfirmed
    <3>2. toDelete \cup toUpdate # {}
      BY <1>a DEF Fresh
    <3>3. updated' = (confirmed /\ toDelete \cup toUpdate # {} /\ ~Errors)
      BY <2>2
    <3> QED BY <1>a, <3>1, <3>2, <3>3
  <2> QED BY <1>a, <2>1, <2>2, InputsTyped
<1>b. updated' \in BOOLEAN
  <2>1. CASE command = "apply"
    BY <2>1
  <2>2. CASE command = "sync"
    BY <2>2
  <2>3. CASE command = "destroy"
    BY <2>3
  <2> QED BY <2>1, <2>2, <2>3, InputsTyped
<1>1. TypeOK'
  <2>1. (/\ command \in Commands /\ needs \in NeedsOf /\ planned \in SUBSET Releases
        /\ desired \in SUBSET Releases /\ applied \in SUBSET Releases
        /\ failed \in SUBSET Releases /\ presumed \in SUBSET Releases
        /\ hooked \in SUBSET Releases
        /\ cleaned \in SUBSET Releases /\ start \in [Releases -> Statuses]
        /\ cluster \in [Releases -> Statuses] /\ toDelete \in SUBSET planned
        /\ toUpdate \in SUBSET (planned \cap desired) /\ toDelete \cap toUpdate = {}
        /\ applied \cap failed = {} /\ presumed \cap (applied \cup failed) = {} /\ g \in Nat /\ left \in SUBSET planned
        /\ code \in {0, 1, 2})'
    BY DEF TypeOK
  <2>2. (interactive \in BOOLEAN /\ transitive \in BOOLEAN)'
    BY DEF TypeOK
  <2>3. (phase \in Phases)'
    BY DEF Phases, Rounds
  <2>4. (phase \in Rounds /\ g > 0 => left \subseteq groups[g])'
    BY DEF Rounds
  <2>5. ({stuck, confirmed, broken, updated} \subseteq BOOLEAN)'
    BY <1>b DEF TypeOK
  <2> QED BY <2>1, <2>2, <2>3, <2>4, <2>5 DEF TypeOK
<1>2. Detected'
  BY DEF Detected
<1>3. Control'
  <2>1. (/\ (phase = "preapply" => command = "apply")
        /\ (phase = "update" => command # "destroy")
        /\ (phase \in {"prepare", "detect", "confirm"} => ~confirmed)
        /\ (phase \in Rounds => confirmed)
        /\ (phase \notin {"global cleanup", "done"} => ~broken)
        /\ (phase \in Rounds /\ stuck => failed # {}) /\ (phase = "preapply" => ~stuck))'
    BY DEF Control, Rounds
  <2> QED BY <2>1 DEF Control
<1>4. InGroups'
  BY DEF InGroups, Control, Rounds
<1>5. Fresh'
  BY DEF Fresh, Touched
<1>6. Progress'
  BY DEF Progress
<1>7. Gate'
  BY DEF Gate, NothingUnconfirmed, Touched, Fresh
<1>8. AtTarget'
  BY DEF AtTarget, Target
<1>9. Worked'
  BY DEF Worked, Errors, Fresh, Touched
<1>10. Reported'
  <2>1. (phase \in {"global cleanup", "done"} /\ command # "destroy" /\ ~Errors /\ Touched # {} => updated)'
    BY <1>a DEF Errors, Touched
  <2>2. (phase = "done" => (code = 1 <=> Errors))'
    BY DEF Errors, Touched, Fresh
  <2>3. (phase = "done" => (code = 0 => ~updated))'
    BY DEF Reported
  <2> QED BY <2>1, <2>2, <2>3 DEF Reported
<1>11. GroupOrder'
  <2>1. GroupOrder /\ UNCHANGED <<needs, toUpdate, toDelete, ended>>
    OBVIOUS
  <2> HIDE DEF IInv, Cleanup
  <2> QED BY <2>1 DEF GroupOrder, Touched
<1> QED BY <1>1, <1>2, <1>3, <1>4, <1>5, <1>6, <1>7, <1>8, <1>9, <1>10, <1>11

\* The exit code follows from the errors and the result.
LEMMA FinishStep == ASSUME IInv, Finish PROVE IInv'
<1> USE DEF IInv, Finish, inputs, found, batch, ended, outcome, Passed
<1>a. code' = 1 <=> Errors'
  <2>1. CASE failed # {} \/ broken'
    BY <2>1 DEF Errors
  <2>2. CASE ~(failed # {} \/ broken')
    <3>1. code' = 2 \/ code' = 0
      BY <2>2, Zenon
    <3>2. code' # 1
      <4> HIDE DEF Finish, IInv
      <4> QED BY <3>1
    <3> QED BY <2>2, <3>2 DEF Errors
  <2> QED BY <2>1, <2>2
<1>b. code' = 0 => ~updated'
  <2>1. ASSUME updated PROVE code' = 1 \/ code' = 2
    BY <2>1, Zenon
  <2>2. code' = 0 => ~updated
    <3> HIDE DEF Finish, IInv
    <3> QED BY <2>1
  <2> QED BY <2>2
<1>1. TypeOK'
  <2>1. (/\ command \in Commands /\ needs \in NeedsOf /\ planned \in SUBSET Releases
        /\ desired \in SUBSET Releases /\ applied \in SUBSET Releases
        /\ failed \in SUBSET Releases /\ presumed \in SUBSET Releases
        /\ hooked \in SUBSET Releases
        /\ cleaned \in SUBSET Releases /\ start \in [Releases -> Statuses]
        /\ cluster \in [Releases -> Statuses] /\ toDelete \in SUBSET planned
        /\ toUpdate \in SUBSET (planned \cap desired) /\ toDelete \cap toUpdate = {}
        /\ applied \cap failed = {} /\ presumed \cap (applied \cup failed) = {} /\ g \in Nat /\ left \in SUBSET planned
        /\ code \in {0, 1, 2})'
    BY DEF TypeOK
  <2>2. (/\ interactive \in BOOLEAN /\ transitive \in BOOLEAN
        /\ {stuck, confirmed, broken, updated} \subseteq BOOLEAN)'
    BY DEF TypeOK
  <2>3. (phase \in Phases)'
    BY DEF Phases, Rounds
  <2>4. (phase \in Rounds /\ g > 0 => left \subseteq groups[g])'
    BY DEF Rounds
  <2> QED BY <2>1, <2>2, <2>3, <2>4 DEF TypeOK
<1>2. Detected'
  BY DEF Detected
<1>3. Control'
  <2>1. (/\ (phase = "preapply" => command = "apply")
        /\ (phase = "update" => command # "destroy")
        /\ (phase \in {"prepare", "detect", "confirm"} => ~confirmed)
        /\ (phase \in Rounds => confirmed)
        /\ (phase \notin {"global cleanup", "done"} => ~broken)
        /\ (phase \in Rounds /\ stuck => failed # {}) /\ (phase = "preapply" => ~stuck))'
    BY DEF Control, Rounds
  <2> QED BY <2>1 DEF Control
<1>4. InGroups'
  BY DEF InGroups, Control, Rounds
<1>5. Fresh'
  BY DEF Fresh, Touched
<1>6. Progress'
  BY DEF Progress
<1>7. Gate'
  BY DEF Gate, NothingUnconfirmed, Touched, Fresh
<1>8. AtTarget'
  BY DEF AtTarget, Target
<1>9. Worked'
  BY DEF Worked, Errors, Fresh, Touched
<1>10. Reported'
  <2>1. (phase \in {"global cleanup", "done"} /\ command # "destroy" /\ ~Errors /\ Touched # {} => updated)'
    BY DEF Reported, Errors, Touched
  <2>2. (phase = "done" => (code = 1 <=> Errors))'
    BY <1>a
  <2>3. (phase = "done" => (code = 0 => ~updated))'
    BY <1>b
  <2> QED BY <2>1, <2>2, <2>3 DEF Reported
<1>11. GroupOrder'
  <2>1. GroupOrder /\ UNCHANGED <<needs, toUpdate, toDelete, ended>>
    OBVIOUS
  <2> HIDE DEF Finish, IInv
  <2> QED BY <2>1 DEF GroupOrder, Touched
<1> QED BY <1>1, <1>2, <1>3, <1>4, <1>5, <1>6, <1>7, <1>8, <1>9, <1>10, <1>11

\* The next group is fresh, and every group before it has succeeded.
LEMMA NextGroupStep == ASSUME IInv, NextGroup PROVE IInv'
<1> USE DEF IInv, inputs, found, batch, ended, outcome, Passed
<1>a. /\ phase \in Rounds /\ phase' = phase /\ left = {} /\ g < Len(groups)
      /\ g' = g + 1 /\ left' = groups[g + 1] \cap Work
      /\ UNCHANGED <<inputs, cluster, found, groups, stuck, hooked, outcome, cleaned>>
  BY DEF NextGroup
<1>b. stuck = FALSE
  BY DEF NextGroup, TypeOK
<1>c. /\ Len(groups) \in Nat /\ g + 1 \in 1..Len(groups) /\ g \in Nat
      /\ groups[g + 1] \subseteq Targets /\ Targets \subseteq planned
      /\ \A i \in 1..g : groups[g + 1] \cap groups[i] = {}
  <2>1. g \in Nat
    BY DEF TypeOK
  <2>2. Len(groups) \in Nat
    BY <1>a, GroupsNow
  <2>3. g + 1 \in 1..Len(groups)
    BY <1>a, <2>1, <2>2
  <2>4. \A i \in 1..g : i \in 1..Len(groups) /\ i # g + 1
    BY <2>1, <2>2, <2>3
  <2> QED BY <1>a, <2>1, <2>2, <2>3, <2>4, GroupsNow, TargetsPlanned
<1>d. Work' = Work /\ Targets' = Targets
  BY <1>a DEF Work, Targets
<1>1. TypeOK'
  <2>1. (/\ command \in Commands /\ needs \in NeedsOf /\ planned \in SUBSET Releases
        /\ desired \in SUBSET Releases /\ applied \in SUBSET Releases
        /\ failed \in SUBSET Releases /\ presumed \in SUBSET Releases
        /\ hooked \in SUBSET Releases
        /\ cleaned \in SUBSET Releases /\ start \in [Releases -> Statuses]
        /\ cluster \in [Releases -> Statuses] /\ phase \in Phases
        /\ toDelete \in SUBSET planned /\ toUpdate \in SUBSET (planned \cap desired)
        /\ toDelete \cap toUpdate = {} /\ applied \cap failed = {} /\ presumed \cap (applied \cup failed) = {} /\ code \in {0, 1, 2})'
    BY <1>a DEF TypeOK
  <2>2. (/\ interactive \in BOOLEAN /\ transitive \in BOOLEAN
        /\ {stuck, confirmed, broken, updated} \subseteq BOOLEAN)'
    BY <1>a DEF TypeOK
  <2>3. (g \in Nat)'
    BY <1>a, <1>c
  <2>4. (left \in SUBSET planned)'
    BY <1>a, <1>c DEF TypeOK
  <2>5. (phase \in Rounds /\ g > 0 => left \subseteq groups[g])'
    BY <1>a
  <2> QED BY <2>1, <2>2, <2>3, <2>4, <2>5 DEF TypeOK
<1>2. Detected'
  BY <1>a DEF Detected
<1>3. Control'
  <2>1. (/\ (phase = "preapply" => command = "apply")
        /\ (phase = "update" => command # "destroy")
        /\ (phase \in {"prepare", "detect", "confirm"} => ~confirmed)
        /\ (phase \in Rounds => confirmed)
        /\ (phase \notin {"global cleanup", "done"} => ~broken)
        /\ (phase \in Rounds /\ stuck => failed # {}) /\ (phase = "preapply" => ~stuck))'
    BY <1>a DEF Control
  <2> QED BY <2>1 DEF Control
<1>4. InGroups'
  BY <1>a, <1>c, <1>d DEF InGroups
<1>5. Fresh'
  <2>1. phase \in {"delete", "update"} => groups[g + 1] \cap Work \cap Touched = {}
    <3>1. phase = "update" => Work \cap toDelete = {}
      BY <1>a, WorkFacts
    <3> QED BY <1>c, <3>1 DEF Fresh
  <2>2. \A i \in 1..g : i \in 1..g'
    BY <1>a, <1>c
  <2>3. (phase \in {"prepare", "detect", "confirm", "preapply"} => Touched = {} /\ cluster = start)'
    BY <1>a DEF Fresh, Touched
  <2>4. (phase \in {"delete", "update"} => left \cap Touched = {})'
    BY <1>a, <2>1 DEF Touched
  <2>5. (phase \in {"delete", "update"} =>
            \A r \in Touched : \/ phase = "update" /\ r \in toDelete
                               \/ \E i \in 1..g : r \in groups[i])'
    BY <1>a, <2>2 DEF Fresh, Touched
  <2>6. (Touched # {} => toDelete \cup toUpdate # {})'
    BY <1>a DEF Fresh, Touched
  <2> QED BY <2>3, <2>4, <2>5, <2>6 DEF Fresh
<1>6. Progress'
  <2>1. \A i \in 1..g' : i \in 1..g \/ i = g + 1
    BY <1>a, <1>c
  <2>2. \A i \in 1..g' : i < g' => i \in 1..g
    BY <1>a, <1>c
  <2>3. (phase = "preapply" => \A i \in 1..g : groups[i] \subseteq hooked \cup left)'
    <3>1. phase = "preapply" => Work = planned
      BY <1>a, WorkFacts
    <3> QED BY <1>a, <1>c, <2>1, <3>1 DEF Progress
  <2>4. phase \in {"delete", "update"} => \A i \in 1..g : groups[i] \cap Work \subseteq Passed
    BY <1>a, <1>b DEF Progress
  <2>5. (phase \in {"delete", "update"} => \A i \in 1..g : i < g => groups[i] \cap Work \subseteq Passed)'
    BY <1>a, <1>d, <2>2, <2>4
  <2>6. (phase \in {"delete", "update"} => \A i \in 1..g : groups[i] \cap Work \subseteq Passed \cup left)'
    BY <1>a, <1>d, <2>1, <2>4
  <2> QED BY <2>3, <2>5, <2>6 DEF Progress
<1>7. Gate'
  BY <1>a DEF Gate, NothingUnconfirmed, Touched
<1>8. AtTarget'
  BY <1>a DEF AtTarget, Target
<1>9. Worked'
  BY <1>a DEF Worked, Rounds
<1>10. Reported'
  BY <1>a DEF Reported, Rounds
<1>11. GroupOrder'
  BY <1>a DEF GroupOrder, Touched
<1> QED BY <1>1, <1>2, <1>3, <1>4, <1>5, <1>6, <1>7, <1>8, <1>9, <1>10, <1>11

\* A traversal that ends without an error has covered all it was planned for.
LEMMA EndRoundStep == ASSUME IInv, EndRound PROVE IInv'
<1> USE DEF IInv, inputs, found, batch, ended, outcome, Passed
<1>a. /\ phase \in Rounds /\ left = {}
      /\ UNCHANGED <<inputs, cluster, found, hooked, outcome, cleaned>>
  BY DEF EndRound
<1>b. /\ phase = "preapply" => phase' = "delete"
      /\ phase = "delete" => phase' = IF command = "destroy" THEN "cleanup" ELSE "update"
      /\ phase = "update" => phase' = "cleanup"
  <2>1. CASE phase = "preapply"
    BY <2>1 DEF EndRound, BeginDelete, Traverse
  <2>2. CASE phase = "delete"
    BY <2>2 DEF EndRound, Traverse
  <2>3. CASE phase = "update"
    BY <2>3 DEF EndRound
  <2> QED BY <1>a, <2>1, <2>2, <2>3 DEF Rounds
<1>c. ASSUME phase' # "cleanup"
      PROVE  InGroups' /\ Progress' /\ g' = 0 /\ left' = {} /\ stuck' = FALSE
  <2>1. BeginDelete \/ Traverse("update", toUpdate, transitive, FALSE)
    BY <1>c DEF EndRound
  <2> QED BY <1>a, <2>1, TraversalBegins DEF found
<1>d. phase' \in {"delete", "update", "cleanup"}
  BY <1>a, <1>b DEF Rounds
<1>h. phase' = "cleanup" => UNCHANGED batch
  BY DEF EndRound, BeginDelete, Traverse
<1>e. ~stuck => \A r \in Targets : \E i \in 1..g : r \in groups[i]
  BY <1>a, GroupsNow DEF EndRound
<1>f. phase = "preapply" => hooked = planned
  <2> SUFFICES ASSUME phase = "preapply" PROVE hooked = planned
    OBVIOUS
  <2>1. \A i \in 1..g : groups[i] \subseteq hooked
    BY <1>a DEF Progress
  <2>2. ~stuck /\ Targets = planned
    BY DEF Control, Targets
  <2> QED BY <1>e, <2>1, <2>2 DEF Gate
<1>g. /\ phase = "delete" /\ failed = {} => toDelete \subseteq Passed
      /\ phase = "update" /\ failed = {} => toUpdate \subseteq Passed
  <2> SUFFICES ASSUME phase \in {"delete", "update"}, failed = {}
               PROVE  /\ phase = "delete" => toDelete \subseteq Passed
                      /\ phase = "update" => toUpdate \subseteq Passed
    OBVIOUS
  <2>1. ~stuck
    BY <1>a DEF Control
  <2>2. \A i \in 1..g : groups[i] \cap Work \subseteq Passed
    BY <1>a, <2>1 DEF Progress
  <2>3. Targets \cap Work \subseteq Passed
    BY <1>e, <2>1, <2>2
  <2>4. phase = "delete" => Targets = toDelete /\ Work = toDelete
    BY <1>a, WorkFacts DEF Targets
  <2>5. phase = "update" => toUpdate \subseteq Targets \cap Work
    BY <1>a, WorkFacts, TargetsPlanned DEF Targets
  <2> QED BY <2>3, <2>4, <2>5
<1>1. TypeOK'
  <2>1. (/\ command \in Commands /\ needs \in NeedsOf /\ planned \in SUBSET Releases
        /\ desired \in SUBSET Releases /\ applied \in SUBSET Releases
        /\ failed \in SUBSET Releases /\ presumed \in SUBSET Releases
        /\ hooked \in SUBSET Releases
        /\ cleaned \in SUBSET Releases /\ start \in [Releases -> Statuses]
        /\ cluster \in [Releases -> Statuses] /\ toDelete \in SUBSET planned
        /\ toUpdate \in SUBSET (planned \cap desired) /\ toDelete \cap toUpdate = {}
        /\ applied \cap failed = {} /\ presumed \cap (applied \cup failed) = {} /\ code \in {0, 1, 2})'
    BY <1>a DEF TypeOK
  <2>2. (interactive \in BOOLEAN /\ transitive \in BOOLEAN)'
    BY <1>a DEF TypeOK
  <2>3. (phase \in Phases)'
    BY <1>d DEF Phases, Rounds
  <2>4. (g \in Nat)'
      <3>1. phase' = "cleanup" => g' = g
        BY <1>h
      <3>2. g \in Nat
        BY DEF TypeOK
      <3>3. phase' # "cleanup" => g' = 0
        BY <1>c
      <3> QED BY <3>1, <3>2, <3>3
  <2>5. (left \in SUBSET planned)'
    BY <1>a, <1>c, <1>h DEF TypeOK
  <2>6. (phase \in Rounds /\ g > 0 => left \subseteq groups[g])'
    BY <1>c, <1>d DEF Rounds
  <2>7. ({stuck, confirmed, broken, updated} \subseteq BOOLEAN)'
      <3>1. {confirmed, broken, updated}' \subseteq BOOLEAN
        BY <1>a DEF TypeOK
      <3>2. stuck' \in BOOLEAN
        <4>1. CASE phase' = "cleanup"
          BY <1>h, <4>1 DEF TypeOK
        <4> QED BY <1>c, <4>1
      <3> QED BY <3>1, <3>2
  <2> QED BY <2>1, <2>2, <2>3, <2>4, <2>5, <2>6, <2>7 DEF TypeOK
<1>2. Detected'
  BY <1>a DEF Detected
<1>3. Control'
  <2>1. (/\ (phase = "preapply" => command = "apply")
        /\ (phase \in {"prepare", "detect", "confirm"} => ~confirmed))'
    BY <1>d
  <2>2. (phase = "update" => command # "destroy")'
    BY <1>a, <1>b DEF Rounds
  <2>3. (phase \in Rounds => confirmed)'
    BY <1>a, <1>d DEF Control
  <2>4. (phase \notin {"global cleanup", "done"} => ~broken)'
    BY <1>a DEF Control, Rounds
  <2>5. (phase \in Rounds /\ stuck => failed # {})'
    BY <1>c DEF Rounds
  <2>6. (phase = "preapply" => ~stuck)'
    BY <1>c, <1>d
  <2> QED BY <2>1, <2>2, <2>3, <2>4, <2>5, <2>6 DEF Control
<1>4. InGroups'
  BY <1>c DEF InGroups, Rounds
<1>5. Fresh'
  <2>1. phase' = "delete" => phase = "preapply"
    BY <1>a, <1>b DEF Rounds
  <2>2. phase' = "update" => Touched \subseteq toDelete
    <3> SUFFICES ASSUME phase = "delete" PROVE Touched \subseteq toDelete
      BY <1>a, <1>b DEF Rounds
    <3>1. \A i \in 1..g : i \in 1..Len(groups)
      BY <1>a, GroupsNow DEF InGroups, TypeOK
    <3>2. Targets = toDelete
      BY DEF Targets
    <3> QED BY <1>a, <3>1, <3>2, GroupsNow DEF Fresh
  <2>3. phase' # "cleanup" => left' = {}
    BY <1>c
  <2>4. Touched' = Touched /\ (Touched # {} => toDelete' \cup toUpdate' # {})
    BY <1>a DEF Fresh, Touched
  <2> QED BY <1>a, <1>d, <2>1, <2>2, <2>3, <2>4 DEF Fresh
<1>6. Progress'
  BY <1>c, <1>d DEF Progress
<1>7. Gate'
  <2>1. NothingUnconfirmed' /\ (hooked \subseteq planned)'
    BY <1>a DEF Gate, NothingUnconfirmed, Touched
  <2>2. (phase \in {"delete", "update"} /\ command = "apply" => hooked = planned)'
    BY <1>a, <1>b, <1>f DEF Gate, Rounds
  <2> QED BY <2>1, <2>2 DEF Gate
<1>8. AtTarget'
  BY <1>a DEF AtTarget, Target, Rounds
<1>9. Worked'
  <2>1. (phase = "update" /\ failed = {} => toDelete \subseteq Passed)'
    BY <1>a, <1>b, <1>g DEF Rounds
  <2>2. (phase \in {"cleanup", "global cleanup", "done"} /\ confirmed /\ ~Errors =>
            toDelete \cup toUpdate \subseteq Passed)'
    <3>1. phase = "update" /\ failed = {} => toDelete \subseteq Passed
      BY DEF Worked
    <3>2. command = "destroy" => toUpdate = {}
      BY DEF Detected
    <3> QED BY <1>a, <1>b, <1>d, <1>g, <3>1, <3>2 DEF Errors, Rounds
  <2> QED BY <2>1, <2>2 DEF Worked
<1>10. Reported'
  BY <1>d DEF Reported
<1>11. GroupOrder'
  BY <1>a DEF GroupOrder, Touched
<1> QED BY <1>1, <1>2, <1>3, <1>4, <1>5, <1>6, <1>7, <1>8, <1>9, <1>10, <1>11

\* The preapply hook of one release.
LEMMA PreapplyStep == ASSUME IInv, NEW r \in Releases, Preapply(r) PROVE IInv'
<1> USE DEF IInv, inputs, found, batch, ended, outcome, Passed
<1>a. /\ phase = "preapply" /\ r \in left /\ left \subseteq planned
      /\ UNCHANGED <<inputs, cluster, found, groups, g, stuck, ended, updated, code, cleaned>>
  BY DEF Preapply, TypeOK
<1>b. \/ /\ phase' = phase /\ broken' = broken
         /\ hooked' = hooked \cup {r} /\ left' = left \ {r}
      \/ phase' = "global cleanup" /\ broken' = TRUE /\ left' = {} /\ hooked' = hooked
  BY DEF Preapply
<1>c. phase' \in {"preapply", "global cleanup"} /\ left' \subseteq left
  BY <1>a, <1>b
<1>d. hooked' \subseteq hooked \cup {r} /\ (phase' = "preapply" => hooked' \cup left' = hooked \cup left)
  BY <1>a, <1>b
<1>e. Touched = {} /\ cluster = start
  BY <1>a DEF Fresh
<1>1. TypeOK'
  <2>1. (/\ command \in Commands /\ needs \in NeedsOf /\ planned \in SUBSET Releases
        /\ desired \in SUBSET Releases /\ applied \in SUBSET Releases
        /\ failed \in SUBSET Releases /\ presumed \in SUBSET Releases /\ start \in [Releases -> Statuses]
        /\ cluster \in [Releases -> Statuses] /\ toDelete \in SUBSET planned
        /\ toUpdate \in SUBSET (planned \cap desired) /\ toDelete \cap toUpdate = {}
        /\ applied \cap failed = {} /\ presumed \cap (applied \cup failed) = {} /\ g \in Nat /\ code \in {0, 1, 2})'
    BY <1>a DEF TypeOK
  <2>2. (interactive \in BOOLEAN /\ transitive \in BOOLEAN)'
    BY <1>a DEF TypeOK
  <2>3. (hooked \in SUBSET Releases /\ cleaned \in SUBSET Releases)'
    BY <1>a, <1>d DEF TypeOK
  <2>4. (phase \in Phases)'
    BY <1>c DEF Phases, Rounds
  <2>5. (left \in SUBSET planned)'
    BY <1>a, <1>c
  <2>6. (phase \in Rounds /\ g > 0 => left \subseteq groups[g])'
    BY <1>a, <1>c DEF TypeOK, Rounds
  <2>7. ({stuck, confirmed, broken, updated} \subseteq BOOLEAN)'
      <3>1. {stuck, confirmed, updated}' \subseteq BOOLEAN
        BY <1>a DEF TypeOK
      <3>2. broken' \in BOOLEAN
        BY <1>b DEF TypeOK
      <3> QED BY <3>1, <3>2
  <2> QED BY <2>1, <2>2, <2>3, <2>4, <2>5, <2>6, <2>7 DEF TypeOK
<1>2. Detected'
  BY <1>a DEF Detected
<1>3. Control'
  <2>1. ((phase = "preapply" => command = "apply") /\ (phase = "preapply" => ~stuck))'
    BY <1>a, <1>c DEF Control
  <2>2. (/\ (phase = "update" => command # "destroy")
        /\ (phase \in {"prepare", "detect", "confirm"} => ~confirmed))'
    BY <1>c
  <2>3. ((phase \in Rounds => confirmed) /\ (phase \in Rounds /\ stuck => failed # {}))'
    BY <1>a, <1>c DEF Control, Rounds
  <2>4. (phase \notin {"global cleanup", "done"} => ~broken)'
    BY <1>a, <1>b DEF Control
  <2> QED BY <2>1, <2>2, <2>3, <2>4 DEF Control
<1>4. InGroups'
  <2>1. CASE phase' = "preapply"
    <3>1. Targets' = Targets /\ Work' = Work
      BY <1>a, <2>1 DEF Targets, Work
    <3>2. g # 0
      BY <1>a DEF InGroups, Rounds
    <3> QED BY <1>a, <1>c, <2>1, <3>1, <3>2 DEF InGroups, Rounds
  <2> QED BY <1>c, <2>1 DEF InGroups, Rounds
<1>5. Fresh'
  BY <1>a, <1>c, <1>e DEF Fresh, Touched
<1>6. Progress'
  BY <1>a, <1>c, <1>d DEF Progress
<1>7. Gate'
  BY <1>a, <1>c, <1>d, <1>e DEF Gate, NothingUnconfirmed, Touched
<1>8. AtTarget'
  <2>1. applied' = {} /\ presumed' = {}
    BY <1>a, <1>e DEF Touched
  <2>2. phase \notin {"prepare", "detect"} /\ broken = FALSE
    BY <1>a DEF Control, TypeOK
  <2> QED BY <1>a, <2>1, <2>2 DEF AtTarget, Target
<1>9. Worked'
  <2>1. CASE phase' = "preapply"
    BY <2>1 DEF Worked
  <2>2. CASE phase' = "global cleanup"
    <3>1. broken' = TRUE
      BY <1>a, <1>b, <2>2
    <3> QED BY <2>2, <3>1 DEF Worked, Errors
  <2> QED BY <1>c, <2>1, <2>2
<1>10. Reported'
  BY <1>a, <1>c, <1>e DEF Reported, Touched
<1>11. GroupOrder'
  BY <1>a, <1>e DEF GroupOrder, Touched
<1> QED BY <1>1, <1>2, <1>3, <1>4, <1>5, <1>6, <1>7, <1>8, <1>9, <1>10, <1>11

\* A release is uninstalled after what needs it: that is in an earlier group.
LEMMA DeleteStep == ASSUME IInv, NEW r \in Releases, Delete(r) PROVE IInv'
<1> USE DEF IInv, inputs, found, batch, ended, outcome, Passed
<1>a. /\ phase = "delete" /\ r \in left /\ left \in SUBSET planned /\ left' = left \ {r}
      /\ UNCHANGED <<inputs, phase, found, groups, g, hooked, broken, updated, code>>
  BY DEF Delete, Deletion!Succeed, Deletion!Fail, TypeOK
<1>b. \/ applied' = applied \cup {r} /\ UNCHANGED <<presumed, failed, stuck>>
      \/ failed' = failed \cup {r} /\ UNCHANGED <<applied, presumed>> /\ stuck' = TRUE
  BY DEF Delete, Deletion!Succeed, Deletion!Fail
<1>c. /\ cleaned' \in SUBSET Releases
      /\ \E s \in Statuses : cluster' = [cluster EXCEPT ![r] = s]
  <2>1. cluster[r] \in Statuses /\ {"absent", "new"} \subseteq Statuses
    BY DEF TypeOK, Statuses
  <2> QED BY <2>1 DEF Delete, Deletion!Succeed, Deletion!Fail, Deletion!Target, TypeOK
<1>d. /\ g \in Nat /\ g \in 1..Len(groups) /\ r \in groups[g]
      /\ \A i \in 1..g : i \in 1..Len(groups)
  <2>1. g \in Nat /\ g # 0
    BY <1>a DEF TypeOK, InGroups, Rounds
  <2>2. Len(groups) \in Nat /\ g <= Len(groups)
    BY <1>a, GroupsNow DEF InGroups, Rounds
  <2>3. r \in groups[g]
    BY <1>a, <2>1 DEF TypeOK, Rounds
  <2> QED BY <2>1, <2>2, <2>3
<1>e. r \in planned /\ r \in Work /\ r \notin Touched
  BY <1>a DEF InGroups, Fresh, Rounds
<1>f. /\ Touched' = Touched \cup {r} /\ applied \subseteq applied' /\ Passed \subseteq Passed'
      /\ applied' \cap failed' = {} /\ presumed' \cap (applied' \cup failed') = {}
  BY <1>b, <1>e DEF Touched, TypeOK
<1>g. Work' = Work /\ Targets' = Targets
  BY <1>a DEF Work, Targets, PlannedIds
<1>h. /\ toDelete \cap toUpdate = {} /\ Work = toDelete /\ Targets = toDelete
      /\ r \in toDelete /\ r \notin toUpdate
  <2>1. Work = toDelete /\ Targets = toDelete
    BY <1>a, WorkFacts DEF Targets, Rounds
  <2> QED BY <1>e, <2>1 DEF TypeOK
<1>i. Target(r) = "absent"
  BY <1>h, InputsTyped DEF Detected, Target
<1>j. r \in applied' => cluster'[r] = "absent"
  <2>1. CASE Deletion!Succeed(r)
    BY <2>1 DEF Deletion!Succeed, Deletion!Target, TypeOK
  <2>2. CASE Deletion!Fail(r)
    BY <1>e, <2>2 DEF Deletion!Fail, Touched
  <2> QED BY <2>1, <2>2 DEF Delete
<1>1. TypeOK'
  <2>1. (/\ command \in Commands /\ needs \in NeedsOf /\ planned \in SUBSET Releases
        /\ desired \in SUBSET Releases /\ phase \in Phases /\ toDelete \in SUBSET planned
        /\ toUpdate \in SUBSET (planned \cap desired) /\ g \in Nat /\ code \in {0, 1, 2})'
    BY <1>a DEF TypeOK
  <2>2. (interactive \in BOOLEAN /\ transitive \in BOOLEAN)'
    BY <1>a DEF TypeOK
  <2>3. ({applied, presumed, failed} \subseteq SUBSET Releases)'
    BY <1>b DEF TypeOK
  <2>4. (/\ hooked \in SUBSET Releases /\ cleaned \in SUBSET Releases
        /\ start \in [Releases -> Statuses] /\ cluster \in [Releases -> Statuses])'
    BY <1>a, <1>c DEF TypeOK
  <2>5. (toDelete \cap toUpdate = {} /\ applied \cap failed = {} /\ presumed \cap (applied \cup failed) = {})'
    BY <1>a, <1>f DEF TypeOK
  <2>6. (left \in SUBSET planned)'
    BY <1>a
  <2>7. (phase \in Rounds /\ g > 0 => left \subseteq groups[g])'
    BY <1>a DEF TypeOK, Rounds
  <2>8. ({stuck, confirmed, broken, updated} \subseteq BOOLEAN)'
      <3>1. {confirmed, broken, updated}' \subseteq BOOLEAN
        BY <1>a DEF TypeOK
      <3>2. stuck' \in BOOLEAN
        BY <1>b DEF TypeOK
      <3> QED BY <3>1, <3>2
  <2> QED BY <2>1, <2>2, <2>3, <2>4, <2>5, <2>6, <2>7, <2>8 DEF TypeOK
<1>2. Detected'
  BY <1>a, <1>b DEF Detected
<1>3. Control'
  <2>1. (/\ (phase = "preapply" => command = "apply")
        /\ (phase \in {"prepare", "detect", "confirm"} => ~confirmed)
        /\ (phase = "preapply" => ~stuck))'
    BY <1>a
  <2>2. (/\ (phase = "update" => command # "destroy")
        /\ (phase \notin {"global cleanup", "done"} => ~broken))'
    BY <1>a DEF Control
  <2>3. (phase \in Rounds => confirmed)'
    BY <1>a DEF Control, Rounds
  <2>4. (phase \in Rounds /\ stuck => failed # {})'
      <3>1. CASE failed' = failed \cup {r}
        BY <3>1
      <3>2. CASE failed' = failed /\ stuck' = stuck
        BY <1>a, <3>2 DEF Control, Rounds
      <3> QED BY <1>b, <3>1, <3>2
  <2> QED BY <2>1, <2>2, <2>3, <2>4 DEF Control
<1>4. InGroups'
  BY <1>a, <1>d, <1>g DEF InGroups, Rounds
<1>5. Fresh'
  <2>1. (left \cap Touched = {})'
    BY <1>a, <1>f DEF Fresh
  <2>2. (\A x \in Touched : \/ phase = "update" /\ x \in toDelete
                            \/ \E i \in 1..g : x \in groups[i])'
    BY <1>a, <1>d, <1>f DEF Fresh
  <2>3. toDelete' \cup toUpdate' # {}
    BY <1>a, <1>h
  <2> QED BY <1>a, <2>1, <2>2, <2>3 DEF Fresh
<1>6. Progress'
  <2>1. (\A i \in 1..g : i < g => groups[i] \cap Work \subseteq Passed)'
    BY <1>a, <1>f, <1>g DEF Progress
  <2>2. ASSUME ~stuck', NEW i \in 1..g
        PROVE  groups[i] \cap Work \subseteq Passed' \cup left'
    <3>1. ~stuck /\ Passed' = Passed \cup {r}
      BY <1>b, <2>2
    <3>2. groups[i] \cap Work \subseteq Passed \cup left
      BY <1>a, <3>1 DEF Progress
    <3> QED BY <1>a, <3>1, <3>2
  <2> QED BY <1>a, <1>g, <2>1, <2>2 DEF Progress
<1>7. Gate'
  <2>1. \A x \in Releases : cluster'[x] # start'[x] => x \in Touched' \cap planned'
    BY <1>a, <1>c, <1>e, <1>f DEF Gate, NothingUnconfirmed, TypeOK
  <2>2. confirmed' /\ (command' = "apply" => hooked' = planned')
    BY <1>a DEF Gate, Control, Rounds
  <2>3. hooked' \subseteq planned' /\ phase' = phase /\ command' = command
    BY <1>a DEF Gate
  <2> QED BY <2>1, <2>2, <2>3 DEF Gate, NothingUnconfirmed
<1>8. AtTarget'
  <2>1. \A x \in Releases : x # r => cluster'[x] = cluster[x]
    BY <1>c DEF TypeOK
  <2>2. \A x \in applied' : x # r => x \in applied
    BY <1>b
  <2>3. \A x \in applied' : cluster'[x] = Target(x)
    BY <1>i, <1>j, <2>1, <2>2 DEF AtTarget, TypeOK
  <2>4. broken = FALSE
    BY <1>a DEF Control, TypeOK
  <2>5. \A x \in planned \ (toDelete \cup toUpdate \cup failed' \cup presumed') :
          cluster'[x] = Target(x)
    BY <1>a, <1>b, <1>h, <2>1, <2>4 DEF AtTarget, TypeOK
  <2> QED BY <1>a, <2>3, <2>5 DEF AtTarget, Target
<1>9. Worked'
  BY <1>a DEF Worked
<1>10. Reported'
  BY <1>a DEF Reported
<1>11. GroupOrder'
  <2>1. ASSUME NEW x \in Releases, NEW n \in Reaches(Releases, needs, x), {x, n} \subseteq toDelete, n = r
        PROVE  x \in applied
    <3>1. PICK i \in 1..Len(groups) : x \in groups[i]
      BY <1>a, <1>h, <2>1, GroupsNow DEF Rounds
    <3>2. i < g
      BY <1>a, <1>d, <2>1, <3>1, GroupsNow DEF Rounds
    <3>3. i \in 1..g /\ groups[i] \cap Work \subseteq Passed
      BY <1>a, <1>d, <3>1, <3>2 DEF Progress
    <3> QED BY <1>h, <2>1, <3>1, <3>3 DEF Detected
  <2>2. \A x \in Releases : \A n \in Reaches(Releases, needs, x) :
           {x, n} \subseteq toDelete /\ n \in Touched' => x \in applied'
    BY <1>f, <2>1 DEF GroupOrder
  <2>3. \A x \in Releases : \A n \in Reaches(Releases, needs, x) :
           {x, n} \subseteq toUpdate /\ x \in Touched' => n \in Passed'
    BY <1>f, <1>h DEF GroupOrder
  <2> QED BY <1>a, <2>2, <2>3 DEF GroupOrder
<1> QED BY <1>1, <1>2, <1>3, <1>4, <1>5, <1>6, <1>7, <1>8, <1>9, <1>10, <1>11

\* A release is upgraded after what it needs: that is in an earlier group.
LEMMA UpgradeStep == ASSUME IInv, NEW r \in Releases, Upgrade(r) PROVE IInv'
<1> USE DEF IInv, inputs, found, batch, ended, outcome, Passed
<1>a. /\ phase = "update" /\ r \in left /\ left \in SUBSET planned /\ left' = left \ {r}
      /\ UNCHANGED <<inputs, phase, found, groups, g, hooked, broken, updated, code>>
  BY DEF Upgrade, Upgrading!Succeed, Upgrading!Presume, Upgrading!Fail, TypeOK
<1>b. \/ applied' = applied \cup {r} /\ UNCHANGED <<presumed, failed, stuck>>
      \/ presumed' = presumed \cup {r} /\ UNCHANGED <<applied, failed, stuck>>
      \/ failed' = failed \cup {r} /\ UNCHANGED <<applied, presumed>> /\ stuck' = TRUE
  BY DEF Upgrade, Upgrading!Succeed, Upgrading!Presume, Upgrading!Fail
<1>c. /\ cleaned' \in SUBSET Releases
      /\ \E s \in Statuses : cluster' = [cluster EXCEPT ![r] = s]
  <2>1. cluster[r] \in Statuses /\ {"absent", "new"} \subseteq Statuses
    BY DEF TypeOK, Statuses
  <2> QED BY <2>1 DEF Upgrade, Upgrading!Succeed, Upgrading!Presume, Upgrading!Fail, Upgrading!Target,
                      Upgrading!Statuses, Statuses, TypeOK
<1>d. /\ g \in Nat /\ g \in 1..Len(groups) /\ r \in groups[g]
      /\ \A i \in 1..g : i \in 1..Len(groups)
  <2>1. g \in Nat /\ g # 0
    BY <1>a DEF TypeOK, InGroups, Rounds
  <2>2. Len(groups) \in Nat /\ g <= Len(groups)
    BY <1>a, GroupsNow DEF InGroups, Rounds
  <2>3. r \in groups[g]
    BY <1>a, <2>1 DEF TypeOK, Rounds
  <2> QED BY <2>1, <2>2, <2>3
<1>e. r \in planned /\ r \in Work /\ r \notin Touched
  BY <1>a DEF InGroups, Fresh, Rounds
<1>f. /\ Touched' = Touched \cup {r} /\ applied \subseteq applied' /\ Passed \subseteq Passed'
      /\ applied' \cap failed' = {} /\ presumed' \cap (applied' \cup failed') = {}
  BY <1>b, <1>e DEF Touched, TypeOK
<1>g. Work' = Work /\ Targets' = Targets
  BY <1>a DEF Work, Targets, PlannedIds
<1>h. /\ r \notin toDelete /\ toUpdate \subseteq Work /\ Work \cap toDelete = {}
      /\ Targets = PlannedIds(needs, toUpdate, transitive) /\ toUpdate \subseteq Targets
      /\ toUpdate # {}
  <2>1. toUpdate \subseteq Work /\ Work \cap toDelete = {}
    BY <1>a, WorkFacts DEF Rounds
  <2>2. Targets = PlannedIds(needs, toUpdate, transitive)
    BY <1>a DEF Targets
  <2>3. groups[g] \subseteq Targets
    BY <1>a, <1>d, GroupsNow DEF Rounds
  <2> QED BY <1>d, <1>e, <2>1, <2>2, <2>3, TargetsPlanned
<1>i. Target(r) = IF r \in desired THEN "new" ELSE "absent"
  BY <1>a DEF Control, Target
<1>j. r \in applied' => cluster'[r] = Target(r)
  <2>1. CASE Upgrading!Succeed(r)
    BY <1>i, <2>1 DEF Upgrading!Succeed, Upgrading!Target, TypeOK
  <2>2. CASE Upgrading!Presume(r) \/ Upgrading!Fail(r)
    BY <1>e, <2>2 DEF Upgrading!Presume, Upgrading!Fail, Touched
  <2> QED BY <2>1, <2>2 DEF Upgrade
<1>1. TypeOK'
  <2>1. (/\ command \in Commands /\ needs \in NeedsOf /\ planned \in SUBSET Releases
        /\ desired \in SUBSET Releases /\ phase \in Phases /\ toDelete \in SUBSET planned
        /\ toUpdate \in SUBSET (planned \cap desired) /\ g \in Nat /\ code \in {0, 1, 2})'
    BY <1>a DEF TypeOK
  <2>2. (interactive \in BOOLEAN /\ transitive \in BOOLEAN)'
    BY <1>a DEF TypeOK
  <2>3. ({applied, presumed, failed} \subseteq SUBSET Releases)'
    BY <1>b DEF TypeOK
  <2>4. (/\ hooked \in SUBSET Releases /\ cleaned \in SUBSET Releases
        /\ start \in [Releases -> Statuses] /\ cluster \in [Releases -> Statuses])'
    BY <1>a, <1>c DEF TypeOK
  <2>5. (toDelete \cap toUpdate = {} /\ applied \cap failed = {} /\ presumed \cap (applied \cup failed) = {})'
    BY <1>a, <1>f DEF TypeOK
  <2>6. (left \in SUBSET planned)'
    BY <1>a
  <2>7. (phase \in Rounds /\ g > 0 => left \subseteq groups[g])'
    BY <1>a DEF TypeOK, Rounds
  <2>8. ({stuck, confirmed, broken, updated} \subseteq BOOLEAN)'
      <3>1. {confirmed, broken, updated}' \subseteq BOOLEAN
        BY <1>a DEF TypeOK
      <3>2. stuck' \in BOOLEAN
        BY <1>b DEF TypeOK
      <3> QED BY <3>1, <3>2
  <2> QED BY <2>1, <2>2, <2>3, <2>4, <2>5, <2>6, <2>7, <2>8 DEF TypeOK
<1>2. Detected'
  BY <1>a, <1>b, <1>h DEF Detected
<1>3. Control'
  <2>1. (/\ (phase = "preapply" => command = "apply")
        /\ (phase \in {"prepare", "detect", "confirm"} => ~confirmed)
        /\ (phase = "preapply" => ~stuck))'
    BY <1>a
  <2>2. (/\ (phase = "update" => command # "destroy")
        /\ (phase \notin {"global cleanup", "done"} => ~broken))'
    BY <1>a DEF Control
  <2>3. (phase \in Rounds => confirmed)'
    BY <1>a DEF Control, Rounds
  <2>4. (phase \in Rounds /\ stuck => failed # {})'
      <3>1. CASE failed' = failed \cup {r}
        BY <3>1
      <3>2. CASE failed' = failed /\ stuck' = stuck
        BY <1>a, <3>2 DEF Control, Rounds
      <3> QED BY <1>b, <3>1, <3>2
  <2> QED BY <2>1, <2>2, <2>3, <2>4 DEF Control
<1>4. InGroups'
  BY <1>a, <1>d, <1>g DEF InGroups, Rounds
<1>5. Fresh'
  <2>1. (left \cap Touched = {})'
    BY <1>a, <1>f DEF Fresh
  <2>2. (\A x \in Touched : \/ phase = "update" /\ x \in toDelete
                            \/ \E i \in 1..g : x \in groups[i])'
    BY <1>a, <1>d, <1>f DEF Fresh
  <2>3. toDelete' \cup toUpdate' # {}
    BY <1>a, <1>h
  <2> QED BY <1>a, <2>1, <2>2, <2>3 DEF Fresh
<1>6. Progress'
  <2>1. (\A i \in 1..g : i < g => groups[i] \cap Work \subseteq Passed)'
    BY <1>a, <1>f, <1>g DEF Progress
  <2>2. ASSUME ~stuck', NEW i \in 1..g
        PROVE  groups[i] \cap Work \subseteq Passed' \cup left'
    <3>1. ~stuck /\ Passed' = Passed \cup {r}
      BY <1>b, <2>2
    <3>2. groups[i] \cap Work \subseteq Passed \cup left
      BY <1>a, <3>1 DEF Progress
    <3> QED BY <1>a, <3>1, <3>2
  <2> QED BY <1>a, <1>g, <2>1, <2>2 DEF Progress
<1>7. Gate'
  <2>1. \A x \in Releases : cluster'[x] # start'[x] => x \in Touched' \cap planned'
    BY <1>a, <1>c, <1>e, <1>f DEF Gate, NothingUnconfirmed, TypeOK
  <2>2. confirmed' /\ (command' = "apply" => hooked' = planned')
    BY <1>a DEF Gate, Control, Rounds
  <2>3. hooked' \subseteq planned' /\ phase' = phase /\ command' = command
    BY <1>a DEF Gate
  <2> QED BY <2>1, <2>2, <2>3 DEF Gate, NothingUnconfirmed
<1>8. AtTarget'
  <2>1. \A x \in Releases : x # r => cluster'[x] = cluster[x]
    BY <1>c DEF TypeOK
  <2>2. \A x \in applied' : x # r => x \in applied
    BY <1>b
  <2>3. \A x \in applied' : cluster'[x] = Target(x)
    BY <1>j, <2>1, <2>2 DEF AtTarget, TypeOK
  <2>4. broken = FALSE
    BY <1>a DEF Control, TypeOK
  <2>5. \A x \in planned \ (toDelete \cup toUpdate \cup failed' \cup presumed') : cluster'[x] = Target(x)
    <3>1. r \notin failed' \cup presumed' => r \in applied'
      BY <1>b
    <3>2. \A x \in planned \ (toDelete \cup toUpdate \cup failed' \cup presumed') : x # r => cluster[x] = Target(x)
      BY <1>a, <1>b, <2>4 DEF AtTarget
    <3> QED BY <1>j, <2>1, <3>1, <3>2 DEF TypeOK
  <2> QED BY <1>a, <2>3, <2>5 DEF AtTarget, Target
<1>9. Worked'
  <2>1. failed' = {} => failed = {}
    BY <1>b
  <2> QED BY <1>a, <1>f, <2>1 DEF Worked
<1>10. Reported'
  BY <1>a DEF Reported
<1>11. GroupOrder'
  <2>1. ASSUME NEW x \in Releases, NEW n \in Reaches(Releases, needs, x), {x, n} \subseteq toUpdate, x = r
        PROVE  n \in Passed
    <3>1. PICK i \in 1..Len(groups) : n \in groups[i]
      BY <1>a, <1>h, <2>1, GroupsNow DEF Rounds
    <3>2. i < g
      BY <1>a, <1>d, <2>1, <3>1, GroupsNow DEF Rounds
    <3>3. i \in 1..g /\ groups[i] \cap Work \subseteq Passed
      BY <1>a, <1>d, <3>1, <3>2 DEF Progress
    <3> QED BY <1>h, <2>1, <3>1, <3>3
  <2>2. \A x \in Releases : \A n \in Reaches(Releases, needs, x) :
           {x, n} \subseteq toUpdate /\ x \in Touched' => n \in Passed'
    BY <1>f, <2>1 DEF GroupOrder
  <2>3. \A x \in Releases : \A n \in Reaches(Releases, needs, x) :
           {x, n} \subseteq toDelete /\ n \in Touched' => x \in applied'
    BY <1>f, <1>h DEF GroupOrder
  <2> QED BY <1>a, <2>2, <2>3 DEF GroupOrder
<1> QED BY <1>1, <1>2, <1>3, <1>4, <1>5, <1>6, <1>7, <1>8, <1>9, <1>10, <1>11

\* A group whose values are not prepared: nothing is run, the traversal is stuck.
LEMMA AbortGroupStep == ASSUME IInv, AbortGroup PROVE IInv'
<1> USE DEF IInv, inputs, found, batch, ended, outcome, Passed
<1>a. /\ phase = "update" /\ left # {} /\ left \in SUBSET planned /\ left' = {} /\ stuck' = TRUE
      /\ cluster' = cluster /\ applied' = applied /\ presumed' = presumed
      /\ UNCHANGED <<inputs, phase, found, groups, g, hooked, broken, updated, code, cleaned>>
  BY DEF AbortGroup, Upgrading!Abort, TypeOK
<1>b. PICK bad \in SUBSET left : bad # {} /\ failed' = failed \cup bad
  BY DEF AbortGroup, Upgrading!Abort
<1>c. /\ g \in Nat /\ g \in 1..Len(groups) /\ left \subseteq groups[g] /\ left \subseteq Work
      /\ \A i \in 1..g : i \in 1..Len(groups)
  <2>1. g \in Nat /\ g # 0 /\ left \subseteq Work
    BY <1>a DEF TypeOK, InGroups, Rounds
  <2>2. Len(groups) \in Nat /\ g <= Len(groups)
    BY <1>a, GroupsNow DEF InGroups, Rounds
  <2>3. left \subseteq groups[g]
    BY <1>a, <2>1 DEF TypeOK, Rounds
  <2> QED BY <2>1, <2>2, <2>3
<1>d. /\ bad \subseteq planned /\ bad \subseteq Work /\ bad \cap Touched = {}
      /\ bad \subseteq groups[g]
  BY <1>a, <1>b, <1>c DEF Fresh
<1>e. /\ Touched' = Touched \cup bad
      /\ applied' \cap failed' = {} /\ presumed' \cap (applied' \cup failed') = {}
  BY <1>a, <1>b, <1>d DEF Touched, TypeOK
<1>f. Work' = Work /\ Targets' = Targets
  BY <1>a DEF Work, Targets, PlannedIds
<1>g. /\ Work \cap toDelete = {} /\ toUpdate \subseteq Work
      /\ Targets = PlannedIds(needs, toUpdate, transitive) /\ toUpdate \subseteq Targets
      /\ toUpdate # {}
  <2>1. toUpdate \subseteq Work /\ Work \cap toDelete = {}
    BY <1>a, WorkFacts DEF Rounds
  <2>2. Targets = PlannedIds(needs, toUpdate, transitive)
    BY <1>a DEF Targets
  <2>3. groups[g] \subseteq Targets
    BY <1>a, <1>c, GroupsNow DEF Rounds
  <2> QED BY <1>a, <1>c, <2>1, <2>2, <2>3, TargetsPlanned
<1>1. TypeOK'
  <2>1. (/\ command \in Commands /\ needs \in NeedsOf /\ planned \in SUBSET Releases
        /\ desired \in SUBSET Releases /\ phase \in Phases /\ toDelete \in SUBSET planned
        /\ toUpdate \in SUBSET (planned \cap desired) /\ g \in Nat /\ code \in {0, 1, 2})'
    BY <1>a DEF TypeOK
  <2>2. (interactive \in BOOLEAN /\ transitive \in BOOLEAN)'
    BY <1>a DEF TypeOK
  <2>3. ({applied, presumed, failed} \subseteq SUBSET Releases)'
    BY <1>a, <1>b, <1>d DEF TypeOK
  <2>4. (/\ hooked \in SUBSET Releases /\ cleaned \in SUBSET Releases
        /\ start \in [Releases -> Statuses] /\ cluster \in [Releases -> Statuses])'
    BY <1>a DEF TypeOK
  <2>5. (toDelete \cap toUpdate = {} /\ applied \cap failed = {} /\ presumed \cap (applied \cup failed) = {})'
    BY <1>a, <1>e DEF TypeOK
  <2>6. (left \in SUBSET planned /\ (phase \in Rounds /\ g > 0 => left \subseteq groups[g]))'
    BY <1>a
  <2>7. ({stuck, confirmed, broken, updated} \subseteq BOOLEAN)'
    BY <1>a DEF TypeOK
  <2> QED BY <2>1, <2>2, <2>3, <2>4, <2>5, <2>6, <2>7 DEF TypeOK
<1>2. Detected' /\ Control'
  <2>1. Detected'
    BY <1>a DEF Detected
  <2>2. failed' # {}
    BY <1>b
  <2>3. (/\ phase = "preapply" => command = "apply"
         /\ phase \in {"prepare", "detect", "confirm"} => ~confirmed
         /\ phase = "preapply" => ~stuck)'
    BY <1>a
  <2>4. (/\ phase = "update" => command # "destroy"
         /\ phase \in Rounds => confirmed
         /\ phase \notin {"global cleanup", "done"} => ~broken)'
    BY <1>a DEF Control, Rounds
  <2> QED BY <2>1, <2>2, <2>3, <2>4 DEF Control
<1>3. InGroups'
  BY <1>a, <1>c, <1>f DEF InGroups, Rounds
<1>4. Fresh'
  <2>1. (\A x \in Touched : \/ phase = "update" /\ x \in toDelete
                            \/ \E i \in 1..g : x \in groups[i])'
    BY <1>a, <1>c, <1>d, <1>e DEF Fresh
  <2>2. toDelete' \cup toUpdate' # {}
    BY <1>a, <1>g
  <2> QED BY <1>a, <2>1, <2>2 DEF Fresh
<1>5. Progress'
  <2>1. (\A i \in 1..g : i < g => groups[i] \cap Work \subseteq Passed)'
    BY <1>a, <1>f DEF Progress
  <2> QED BY <1>a, <2>1 DEF Progress
<1>6. Gate'
  <2>1. \A x \in Releases : cluster'[x] # start'[x] => x \in Touched' \cap planned'
    BY <1>a, <1>e DEF Gate, NothingUnconfirmed
  <2>2. confirmed' /\ (command' = "apply" => hooked' = planned')
    BY <1>a DEF Gate, Control, Rounds
  <2>3. hooked' \subseteq planned' /\ phase' = phase /\ command' = command
    BY <1>a DEF Gate
  <2> QED BY <2>1, <2>2, <2>3 DEF Gate, NothingUnconfirmed
<1>7. AtTarget'
  BY <1>a, <1>b DEF AtTarget, Target
<1>8. Worked' /\ Reported'
  BY <1>a, <1>b DEF Worked, Reported
<1>9. GroupOrder'
  <2>1. ASSUME NEW x \in Releases, NEW n \in Reaches(Releases, needs, x), {x, n} \subseteq toUpdate,
               x \in bad
        PROVE  n \in Passed
    <3>1. PICK i \in 1..Len(groups) : n \in groups[i]
      BY <1>a, <1>g, <2>1, GroupsNow DEF Rounds
    <3>2. i < g
      BY <1>a, <1>c, <1>d, <2>1, <3>1, GroupsNow DEF Rounds
    <3>3. i \in 1..g /\ groups[i] \cap Work \subseteq Passed
      BY <1>a, <1>c, <3>1, <3>2 DEF Progress
    <3> QED BY <1>g, <2>1, <3>1, <3>3
  <2>2. \A x \in Releases : \A n \in Reaches(Releases, needs, x) :
           {x, n} \subseteq toUpdate /\ x \in Touched' => n \in Passed
    BY <1>e, <2>1 DEF GroupOrder
  <2>3. \A x \in Releases : \A n \in Reaches(Releases, needs, x) :
           {x, n} \subseteq toDelete /\ n \in Touched' => x \in applied
    BY <1>d, <1>e, <1>g DEF GroupOrder
  <2> QED BY <1>a, <2>2, <2>3 DEF GroupOrder
<1> QED BY <1>1, <1>2, <1>3, <1>4, <1>5, <1>6, <1>7, <1>8, <1>9

\* Every step, and every stuttering step, preserves the invariant.
LEMMA Inductive == ASSUME IInv, [Next]_vars PROVE IInv'
<1>1. CASE UNCHANGED vars
  <2> USE <1>1 DEF IInv, vars, inputs, found, batch, ended, outcome, Passed
  <2>1. TypeOK'
    BY DEF TypeOK
  <2>2. Detected' /\ Control'
    BY DEF Detected, Control
  <2>3. InGroups'
    BY DEF InGroups, Targets, Work, PlannedIds
  <2>4. Fresh' /\ Gate'
    BY DEF Fresh, Gate, NothingUnconfirmed, Touched
  <2>5. Progress'
    <3>1. Work' = Work
      BY DEF Work
    <3> QED BY <3>1 DEF Progress
  <2>6. AtTarget' /\ Worked'
    BY DEF AtTarget, Target, Worked, Errors
  <2>7. Reported' /\ GroupOrder'
    BY DEF Reported, Errors, GroupOrder, Touched
  <2> QED BY <2>1, <2>2, <2>3, <2>4, <2>5, <2>6, <2>7
<1>2. CASE Next
  <2>1. CASE \/ Prepare \/ Detect \/ Confirm \/ NextGroup \/ AbortGroup \/ EndRound
           \/ Cleanup \/ Finish
    BY <2>1, PrepareStep, DetectStep, ConfirmStep, NextGroupStep, AbortGroupStep, EndRoundStep,
       CleanupStep, FinishStep
  <2>2. ASSUME NEW r \in Releases, Preapply(r) \/ Delete(r) \/ Upgrade(r)
        PROVE  IInv'
    BY <2>2, PreapplyStep, DeleteStep, UpgradeStep
  <2> QED BY <1>1, <1>2, <2>1, <2>2 DEF Next, Done
<1> QED BY <1>1, <1>2

----------------------------------------------------------------------------
(* The results.                                                             *)

\* The invariant implies what a command that ends without an error has done.
LEMMA IInvConverged == ASSUME IInv PROVE SuccessMeansConverged
<1> SUFFICES ASSUME phase = "done", code # 1, confirmed \/ toDelete \cup toUpdate = {},
                    NEW r \in planned \ presumed
             PROVE  cluster[r] = Target(r)
  BY DEF SuccessMeansConverged
<1>1. ~Errors
  BY DEF IInv, Reported
<1>2. toDelete \cup toUpdate \subseteq applied \cup presumed
  BY <1>1 DEF IInv, Worked, Passed
<1>3. CASE r \in applied
  BY <1>3 DEF IInv, AtTarget
<1>4. CASE r \notin toDelete \cup toUpdate
  BY <1>1, <1>4 DEF IInv, AtTarget, Errors
<1> QED BY <1>2, <1>3, <1>4

\* The exit code of a command that ends is the one its errors and changes ask for.
LEMMA IInvReported == ASSUME IInv PROVE ChangesReported
<1> SUFFICES ASSUME phase = "done"
             PROVE  /\ code = 1 <=> Errors
                    /\ command # "destroy" /\ (Passed # {} \/ cluster # start) => code # 0
  BY DEF ChangesReported
<1>1. code = 1 <=> Errors
  BY DEF IInv, Reported
<1>2. ASSUME command # "destroy", Passed # {} \/ cluster # start, code = 0
      PROVE  FALSE
  <2>1. cluster # start => \E r \in Releases : cluster[r] # start[r]
    BY DEF IInv, TypeOK
  <2>2. Touched # {}
    BY <1>2, <2>1 DEF IInv, Gate, NothingUnconfirmed, Touched, Passed
  <2>3. ~Errors
    <3>1. code # 1
      BY <1>2
    <3> QED BY <1>1, <3>1
  <2>4. updated
    BY <1>2, <2>2, <2>3 DEF IInv, Reported
  <2>5. ~updated
    BY <1>2 DEF IInv, Reported
  <2> QED BY <2>4, <2>5
<1> QED BY <1>1, <1>2

\* The inductive invariant holds in every state of the specification.
LEMMA Invariant == Spec => []IInv
<1>1. Init => IInv
  BY InitIInv
<1>2. IInv /\ [Next]_vars => IInv'
  BY Inductive
<1> QED BY <1>1, <1>2, PTL DEF Spec

\* The state of a command is well formed, whatever the releases and their needs are.
THEOREM TypeCorrect == Spec => []TypeOK
<1>1. IInv => TypeOK
  BY DEF IInv
<1> QED BY <1>1, Invariant, PTL

\* Groups are worked on in the order of the graph: a release is upgraded after, and
\* uninstalled before, everything it needs, for every acyclic graph (withDAG, withBatches).
THEOREM Ordered == Spec => []GroupOrder
<1>1. IInv => GroupOrder
  BY DEF IInv
<1> QED BY <1>1, Invariant, PTL

\* Nothing is touched that is not planned, confirmed and, in an apply, prepared by the
\* preapply hooks of the whole plan (apply, SyncState, delete).
THEOREM Confirmed == Spec => []NothingUnconfirmed
<1>1. IInv => NothingUnconfirmed
  BY DEF IInv, Gate
<1> QED BY <1>1, Invariant, PTL

\* A confirmed command that ends without an error has brought the cluster to the state file.
THEOREM Converged == Spec => []SuccessMeansConverged
<1>1. IInv => SuccessMeansConverged
  BY IInvConverged
<1> QED BY <1>1, Invariant, PTL

\* The exit code tells errors and changes from a command that did nothing (Error.Code).
THEOREM Reports == Spec => []ChangesReported
<1>1. IInv => ChangesReported
  BY IInvReported
<1> QED BY <1>1, Invariant, PTL
----------------------------------------------------------------------------
(* The cleanup hooks.                                                       *)

\* The hook was triggered for whatever was worked on with success, and after the loop over the releases
\* without changes for the whole plan.
GoneThrough ==
    phase \in {"global cleanup", "done"} /\ ~Errors /\ confirmed /\ toDelete \cup toUpdate # {}
Cleaned ==
    command # "destroy" =>
        /\ Passed \subseteq cleaned
        /\ GoneThrough => planned \subseteq cleaned

\* It is kept by every step: detect forgets what was cleaned while nothing is touched, and the
\* ways past the cleanup have an error or nothing confirmed to do.
LEMMA CleanedKept == ASSUME IInv, Cleaned, [Next]_vars PROVE Cleaned'
<1> USE DEF Cleaned, GoneThrough, Touched, Errors, inputs, found, batch, ended, outcome, Passed
<1>1. CASE Prepare
  BY <1>1 DEF Prepare
<1>2. CASE Detect
  <2>1. Touched = {} /\ ~confirmed
    BY <1>2 DEF Detect, IInv, Fresh, Control
  <2> QED BY <1>2, <2>1 DEF Detect
<1>3. CASE Confirm
  BY <1>3 DEF Confirm, BeginDelete, Traverse
<1>4. CASE NextGroup
  BY <1>4 DEF NextGroup, Rounds
<1>5. CASE EndRound
  BY <1>5 DEF EndRound, BeginDelete, Traverse, Rounds
<1>6. CASE Cleanup
  <2>1. ~Errors /\ confirmed => toDelete \cup toUpdate \subseteq Passed
    BY <1>6 DEF Cleanup, IInv, Worked
  <2> QED BY <1>6, <2>1 DEF Cleanup
<1>7. CASE Finish
  BY <1>7 DEF Finish
<1>8. ASSUME NEW r \in Releases, Preapply(r)
      PROVE  Cleaned'
  BY <1>8 DEF Preapply
<1>9. ASSUME NEW r \in Releases, Delete(r)
      PROVE  Cleaned'
  BY <1>9 DEF Delete, Deletion!Succeed, Deletion!Fail
<1>10. ASSUME NEW r \in Releases, Upgrade(r)
       PROVE  Cleaned'
  <2>1. /\ Passed' \subseteq Passed \cup {r} /\ cleaned' = cleaned \cup {r}
        /\ phase' = "update" /\ command' = command
    BY <1>10 DEF Upgrade, Upgrading!Succeed, Upgrading!Presume, Upgrading!Fail
  <2> QED BY <2>1
<1>12. CASE AbortGroup
  BY <1>12 DEF AbortGroup, Upgrading!Abort
<1>11. CASE UNCHANGED vars
  BY <1>11 DEF vars
<1> QED BY <1>1, <1>2, <1>3, <1>4, <1>5, <1>6, <1>7, <1>8, <1>9, <1>10, <1>11,
       <1>12 DEF Next, Done

\* An apply or sync that goes through with something to change triggers the cleanup hook of
\* every planned release, in one of the three places that do (DeleteReleasesForSync,
\* SyncReleases, the loop over the releases without changes).
THEOREM CleanedUp == Spec => []CleanupPaired
<1>1. Init => Cleaned
  BY DEF Init, Cleaned, GoneThrough, Touched, Passed
<1>2. IInv /\ Cleaned /\ [Next]_vars => Cleaned'
  BY CleanedKept
<1>3. Cleaned => CleanupPaired
  BY DEF Cleaned, GoneThrough, CleanupPaired
<1> QED BY <1>1, <1>2, <1>3, Invariant, PTL DEF Spec
=============================================================================
