-------------------------- MODULE NeedsPlan_proofs --------------------------
(***************************************************************************)
(* Proofs about the plan, for any releases and needs: a release comes      *)
(* after everything it needs, directly or not; the plan is what was asked  *)
(* for; the second plan of withNeeds loses nothing; and the flag that      *)
(* enforces needs does so where names are unique.                          *)
(***************************************************************************)
EXTENDS NeedsPlan, FiniteSetTheorems, SequenceTheorems, TLAPS

----------------------------------------------------------------------------
(* The groups of a plan (GroupReleasesByDependency).                        *)

LEMMA LevelsChosen ==
    ASSUME NEW R, NEW nd, Acyclic(R, nd)
    PROVE  Levels(R, nd) \in LevelMaps(R) /\ Levelled(R, nd, Levels(R, nd))
BY DEF Acyclic, Levels

\* Whatever a release reaches is on a lower level.
LEMMA ReachedIsLower ==
    ASSUME NEW R, NEW nd, Acyclic(R, nd), ~Undefined(R, nd), IsFiniteSet(R),
           NEW i \in R, NEW n \in Reaches(R, nd, i)
    PROVE  Levels(R, nd)[n] < Levels(R, nd)[i]
<1> DEFINE lv == Levels(R, nd)
<1>1. lv \in [R -> 0..(Cardinality(R) - 1)] /\ \A r \in R : \A q \in nd[r] : lv[q] < lv[r]
  BY LevelsChosen DEF LevelMaps, Levelled
<1>2. Cardinality(R) \in Nat
  BY FS_CardinalityType
<1> DEFINE S == {s \in R : lv[s] < lv[i]}
<1> HIDE DEF lv
<1>3. \A r \in R : nd[r] \subseteq R /\ lv[r] \in Int
  BY <1>1, <1>2 DEF Undefined
<1>4. nd[i] \subseteq S
  BY <1>1, <1>3
<1>5. ASSUME NEW s \in S
      PROVE  nd[s] \subseteq S
  BY <1>1, <1>3, <1>5
<1>6. S \in SUBSET R
  OBVIOUS
<1>7. n \in S
  BY <1>4, <1>5, <1>6 DEF Reaches
<1> QED BY <1>7 DEF lv

\* The place of every planned release: a group of its own level, after those of lower levels.
Placed(P, gs, lv) ==
    \E m \in Nat : \E place \in [P -> 1..m] :
        /\ gs = [g \in 1..m |-> {r \in P : place[r] = g}]
        /\ \A r, s \in P : lv[r] < lv[s] => place[r] < place[s]

LEMMA GroupsPlaced ==
    ASSUME NEW R, NEW nd, Acyclic(R, nd), IsFiniteSet(R), NEW P \in SUBSET R
    PROVE  Placed(P, Groups(R, nd, P, FALSE), Levels(R, nd))
<1> DEFINE lv == Levels(R, nd)
           used == {lv[r] : r \in P}
           below(r) == {l \in used : l < lv[r]}
           m == Cardinality(used)
           place == [r \in P |-> Cardinality(below(r)) + 1]
<1>1. lv \in [R -> 0..(Cardinality(R) - 1)] /\ Cardinality(R) \in Nat
  BY LevelsChosen, FS_CardinalityType DEF LevelMaps
<1>2. Groups(R, nd, P, FALSE) = [g \in 1..m |-> {r \in P : Cardinality(below(r)) + 1 = g}]
  BY DEF Groups
<1> HIDE DEF lv
<1>3. used \subseteq 0..(Cardinality(R) - 1)
  BY <1>1
<1>4. IsFiniteSet(used) /\ m \in Nat
  <2>1. IsFiniteSet(0..(Cardinality(R) - 1))
    BY <1>1, FS_Interval
  <2>2. IsFiniteSet(used)
    BY <1>3, <2>1, FS_Subset
  <2> HIDE DEF used
  <2> QED BY <2>2, FS_CardinalityType
<1>5. ASSUME NEW r \in P
      PROVE  /\ IsFiniteSet(below(r)) /\ Cardinality(below(r)) \in Nat
             /\ Cardinality(below(r)) < m
  <2>1. below(r) \subseteq used /\ lv[r] \in used /\ lv[r] \notin below(r)
    BY <1>1
  <2>2. IsFiniteSet(below(r)) /\ Cardinality(below(r)) <= m /\ (m = Cardinality(below(r)) => used = below(r))
    BY <1>4, <2>1, FS_Subset
  <2>3. Cardinality(below(r)) \in Nat
    BY <2>2, FS_CardinalityType
  <2> QED BY <1>4, <2>1, <2>2, <2>3
<1>6. place \in [P -> 1..m]
  <2> SUFFICES ASSUME NEW r \in P
               PROVE  Cardinality(below(r)) + 1 \in 1..m
    OBVIOUS
  <2>1. Cardinality(below(r)) \in Nat /\ Cardinality(below(r)) < m
    BY <1>5
  <2> HIDE DEF m, below
  <2> QED BY <1>4, <2>1
<1>7. ASSUME NEW r \in P, NEW s \in P, lv[r] < lv[s]
      PROVE  place[r] < place[s]
  <2>1. below(r) \subseteq below(s) /\ lv[r] \in below(s) /\ lv[r] \notin below(r)
    BY <1>1, <1>7
  <2>2. /\ Cardinality(below(r)) <= Cardinality(below(s))
        /\ Cardinality(below(s)) = Cardinality(below(r)) => below(s) = below(r)
    BY <1>5, <2>1, FS_Subset
  <2>3. Cardinality(below(r)) \in Nat /\ Cardinality(below(s)) \in Nat
    BY <1>5
  <2> HIDE DEF below
  <2> QED BY <2>1, <2>2, <2>3
<1>8. [g \in 1..m |-> {r \in P : Cardinality(below(r)) + 1 = g}] = [g \in 1..m |-> {r \in P : place[r] = g}]
  OBVIOUS
<1> HIDE DEF place, m
<1> QED BY <1>2, <1>4, <1>6, <1>7, <1>8 DEF Placed, lv

----------------------------------------------------------------------------
(* The inductive invariant.                                                 *)

\* Of several definitions with one ID one is left.
OnePerId == \A d, e \in pool : IdOf[d] = IdOf[e] => d = e

\* The planned releases are nodes of a graph without cycles and unknown needs, and they are
\* placed in groups by their levels.
Plannable == ~Undefined(Nodes, Graph) /\ Acyclic(Nodes, Graph)
PlacedIn(P) == P \subseteq Nodes /\ Placed(P, groups, Levels(Nodes, Graph))

Past(s) == ~failed /\ selected # {} /\ stage \in s
Ordered ==
    /\ stage \in {"plan", "split", "check"} => ~failed /\ selected # {}
    /\ stage \in {"split", "check"} => rendering
    /\ stage = "select" => selected = {} /\ ~failed
    /\ Past({"split", "check", "done"}) =>
           /\ Plannable /\ planned \subseteq Nodes /\ IdsIn(selected) \subseteq planned
           /\ \E P \in SUBSET Nodes : PlacedIn(P) /\ (planned \cap DesiredIds \subseteq P)
    /\ Past({"check", "done"}) /\ rendering =>
           /\ shown = Rendered \cup ToUninstall
           /\ planned \cap DesiredIds \subseteq Rendered /\ PlacedIn(Rendered)

IInv == TypeOK /\ Ordered

\* A finite state has finitely many IDs.
LEMMA NodesFinite ==
    ASSUME pool \subseteq State, needs \in NeedsOf
    PROVE  IsFiniteSet(Nodes) /\ Nodes \subseteq Ids
<1>1. pool \subseteq Defs /\ IdOf \in [Defs -> Ids]
  BY NeedsPlanAssumption DEF State
<1>2. IsFiniteSet(pool)
  BY <1>1, NeedsPlanAssumption, FS_Subset
<1> DEFINE f == [d \in pool |-> IdOf[d]]
<1>3. f \in Surjection(pool, Nodes)
  BY DEF Surjection, Nodes, IdsIn
<1>4. IsFiniteSet(Nodes)
  BY <1>2, <1>3, FS_Surjection
<1> QED BY <1>1, <1>4 DEF Nodes, IdsIn

\* The groups that GroupReleasesByDependency returns are sequences of sets of IDs.
LEMMA PlacedTypes ==
    ASSUME NEW P \in SUBSET Ids, NEW gs, NEW lv, Placed(P, gs, lv)
    PROVE  gs \in Seq(SUBSET Ids)
<1>1. PICK m \in Nat : \E place \in [P -> 1..m] : gs = [g \in 1..m |-> {r \in P : place[r] = g}]
  BY DEF Placed
<1>2. gs \in [1..m -> SUBSET Ids]
  BY <1>1
<1> QED BY <1>2, SeqDef

\* Everything that is placed is in the groups.
LEMMA PlacedGrouped ==
    ASSUME NEW P, NEW lv, Placed(P, groups, lv)
    PROVE  Grouped = P
<1>1. PICK m \in Nat : \E place \in [P -> 1..m] : groups = [g \in 1..m |-> {r \in P : place[r] = g}]
  BY DEF Placed
<1> QED BY <1>1 DEF Grouped

\* The plan of some releases of the state.
LEMMA PlanPlaced ==
    ASSUME pool \subseteq State, needs \in NeedsOf, Plannable, NEW P \in SUBSET Nodes,
           groups' = Groups(Nodes, Graph, P, FALSE)
    PROVE  Placed(P, groups', Levels(Nodes, Graph)) /\ groups' \in Seq(SUBSET Ids)
<1>1. IsFiniteSet(Nodes) /\ P \in SUBSET Ids
  BY NodesFinite
<1>2. Placed(P, groups', Levels(Nodes, Graph))
  BY <1>1, GroupsPlaced DEF Plannable
<1> QED BY <1>1, <1>2, PlacedTypes

\* PlanReleases only adds needs that are releases of the state.
LEMMA PlannedAreNodes ==
    ASSUME ~Undefined(Nodes, Graph), NEW only \in SUBSET Nodes, NEW include \in BOOLEAN
    PROVE  PlannedIds(Graph, only, include) \in SUBSET Nodes /\ only \subseteq PlannedIds(Graph, only, include)
BY DEF PlannedIds, Undefined

----------------------------------------------------------------------------
(* The steps.                                                               *)

LEMMA GraphFixed ==
    ASSUME UNCHANGED <<inputs, pool>>
    PROVE  /\ State' = State /\ Nodes' = Nodes /\ Graph' = Graph /\ DesiredIds' = DesiredIds
           /\ Include' = Include /\ Skip' = Skip
           /\ (Plannable' <=> Plannable) /\ (OnePerId' <=> OnePerId) /\ (rendering' <=> rendering)
BY DEF inputs, rendering, State, Nodes, Graph, DesiredIds, Include, Skip, IdsIn, Plannable, Acyclic, Levelled, Undefined, OnePerId

LEMMA RenderedFixed ==
    ASSUME UNCHANGED <<inputs, pool, planned>>
    PROVE  Rendered' = Rendered /\ ToUninstall' = ToUninstall
BY GraphFixed DEF Rendered, ToUninstall, PlannedIds, inputs

LEMMA InitKeeps == Init => IInv
<1> SUFFICES ASSUME Init
             PROVE  IInv
  OBVIOUS
<1>1. groups \in Seq(SUBSET Ids)
  BY SeqDef DEF Init
<1>2. TypeOK
  BY <1>1, NeedsPlanAssumption DEF Init, TypeOK, Options
<1> QED BY <1>2 DEF Init, IInv, Ordered, Past

\* Every selected definition stays, and of the others those that share no ID.
LEMMA SelectKeeps ==
    ASSUME IInv, Select
    PROVE  IInv'
<1>1. Marked \subseteq State
  BY DEF IInv, TypeOK, Marked
<1>2. CASE \E d, e \in Marked : d # e /\ IdOf[d] = IdOf[e]
  <2>1. TypeOK'
    BY <1>2 DEF Select, Fail, IInv, TypeOK, State, inputs
  <2>2. Ordered'
    BY <1>2 DEF Select, Fail, IInv, Ordered, Past
  <2> QED BY <2>1, <2>2 DEF IInv
<1>3. CASE ~\E d, e \in Marked : d # e /\ IdOf[d] = IdOf[e]
  <2>1. pool' \subseteq State /\ selected' = Marked /\ selected' \subseteq pool'
    BY <1>1, <1>3 DEF Select
  <2>2. \A d, e \in pool' : IdOf[d] = IdOf[e] => d = e
    BY <1>3 DEF Select, Twins
  <2>3. State' = State
    BY DEF Select, inputs, State
  <2>4. TypeOK'
    BY <1>3, <2>1, <2>2, <2>3 DEF Select, IInv, TypeOK, inputs
  <2>5. Ordered'
    BY <1>3, <2>1 DEF Select, IInv, Ordered, Past
  <2> QED BY <2>4, <2>5 DEF IInv
<1> QED BY <1>2, <1>3

LEMMA PlanKeeps ==
    ASSUME IInv, Plan
    PROVE  IInv'
<1>1. /\ pool \subseteq State /\ needs \in NeedsOf /\ selected \subseteq pool /\ Include \in BOOLEAN
      /\ ~failed /\ selected # {}
  BY DEF IInv, TypeOK, Include, Plan, Ordered
<1>2. /\ State' = State /\ Nodes' = Nodes /\ Graph' = Graph /\ DesiredIds' = DesiredIds
      /\ (Plannable' <=> Plannable) /\ (rendering' <=> rendering)
  BY GraphFixed DEF Plan
<1>3. CASE PlanFails(Nodes, Graph, IdsIn(selected), Include, Skip)
  <2>1. TypeOK'
    BY <1>2, <1>3 DEF Plan, Fail, IInv, TypeOK, inputs
  <2>2. Ordered'
    BY <1>3 DEF Plan, Fail, Ordered, Past
  <2> QED BY <2>1, <2>2 DEF IInv
<1>4. CASE ~PlanFails(Nodes, Graph, IdsIn(selected), Include, Skip)
  <2>1. Plannable
    BY <1>4 DEF PlanFails, Plannable
  <2>2. IdsIn(selected) \in SUBSET Nodes
    BY <1>1 DEF IdsIn, Nodes
  <2>3. planned' = PlannedIds(Graph, IdsIn(selected), Include)
    BY <1>4 DEF Plan
  <2>4. planned' \in SUBSET Nodes /\ IdsIn(selected) \subseteq planned'
    BY <1>1, <2>1, <2>2, <2>3, PlannedAreNodes DEF Plannable
  <2>5. groups' = Groups(Nodes, Graph, planned', FALSE)
    BY <1>4 DEF Plan
  <2>6. Placed(planned', groups', Levels(Nodes, Graph)) /\ groups' \in Seq(SUBSET Ids)
    BY <1>1, <2>1, <2>4, <2>5, PlanPlaced
  <2>7. planned' \subseteq Ids
    BY <1>1, <2>4, NodesFinite
  <2>8. /\ UNCHANGED <<inputs, selected, pool, shown, failed>>
        /\ stage' = IF rendering THEN "split" ELSE "done"
    BY <1>4 DEF Plan
  <2>9. TypeOK'
    BY <1>2, <2>6, <2>7, <2>8 DEF IInv, TypeOK, inputs
  <2>10. IdsIn(selected)' = IdsIn(selected)
    BY <2>8 DEF IdsIn
  <2>11. \E P \in SUBSET Nodes' : PlacedIn(P)' /\ ((planned \cap DesiredIds)' \subseteq P)
    BY <1>2, <2>4, <2>6 DEF PlacedIn
  <2>12. Ordered'
    BY <1>1, <1>2, <2>1, <2>4, <2>8, <2>10, <2>11 DEF Ordered, Past, inputs
  <2> QED BY <2>9, <2>12 DEF IInv
<1> QED BY <1>3, <1>4

LEMMA SplitKeeps ==
    ASSUME IInv, Split
    PROVE  IInv'
<1> DEFINE render == planned \cap DesiredIds
           fails == PlanFails(Nodes, Graph, render, Include, Skip)
<1>1. /\ pool \subseteq State /\ needs \in NeedsOf /\ Include \in BOOLEAN
      /\ ~failed /\ selected # {} /\ rendering
  BY DEF IInv, TypeOK, Include, Split, Ordered
<1>2. Plannable /\ planned \subseteq Nodes /\ IdsIn(selected) \subseteq planned
  BY <1>1 DEF IInv, Split, Ordered, Past
<1>3. /\ State' = State /\ Nodes' = Nodes /\ Graph' = Graph /\ DesiredIds' = DesiredIds
      /\ (Plannable' <=> Plannable) /\ (rendering' <=> rendering)
  BY GraphFixed DEF Split
<1>4. CASE render # {} /\ fails
  <2>1. TypeOK'
    BY <1>3, <1>4 DEF Split, Fail, IInv, TypeOK, inputs
  <2>2. Ordered'
    BY <1>4 DEF Split, Fail, Ordered, Past
  <2> QED BY <2>1, <2>2 DEF IInv
<1>5. CASE ~(render # {} /\ fails)
  <2> DEFINE P == Rendered
  <2>1. P \in SUBSET Nodes /\ render \subseteq P
    BY <1>1, <1>2, PlannedAreNodes DEF Plannable, Rendered
  <2>2. /\ groups' = Groups(Nodes, Graph, P, FALSE) /\ shown' = P \cup ToUninstall
        /\ stage' = "check" /\ UNCHANGED <<failed, inputs, selected, pool, planned>>
    BY <1>5 DEF Split
  <2>9. P' = P /\ ToUninstall' = ToUninstall /\ ToUninstall \subseteq planned
    BY <2>2, RenderedFixed DEF ToUninstall
  <2> HIDE DEF P
  <2>3. Placed(P, groups', Levels(Nodes, Graph)) /\ groups' \in Seq(SUBSET Ids)
    BY <1>1, <1>2, <2>1, <2>2, PlanPlaced
  <2>4. shown' \subseteq Ids
    BY <1>1, <1>2, <2>1, <2>2, <2>9, NodesFinite
  <2>5. TypeOK'
    BY <1>3, <2>2, <2>3, <2>4 DEF IInv, TypeOK, inputs
  <2>6. IdsIn(selected)' = IdsIn(selected)
    BY <2>2 DEF IdsIn
  <2>7. \E Q \in SUBSET Nodes' : PlacedIn(Q)' /\ ((planned \cap DesiredIds)' \subseteq Q)
    BY <1>3, <2>1, <2>2, <2>3 DEF PlacedIn
  <2>10. /\ shown' = (Rendered \cup ToUninstall)'
         /\ (planned \cap DesiredIds)' \subseteq Rendered' /\ PlacedIn(Rendered)'
    BY <1>3, <2>1, <2>2, <2>3, <2>9 DEF PlacedIn, P
  <2>8. Ordered'
    BY <1>1, <1>2, <1>3, <2>2, <2>6, <2>7, <2>10 DEF Ordered, Past
  <2> QED BY <2>5, <2>8 DEF IInv
<1> QED BY <1>4, <1>5

\* A step that only moves on, or changes nothing, keeps the plan.
LEMMA QuietKeeps ==
    ASSUME IInv, UNCHANGED <<inputs, selected, pool, planned, groups, shown>>,
           \/ UNCHANGED <<stage, failed>>
           \/ stage = "check" /\ stage' = "done" /\ failed' \in {TRUE, failed}
    PROVE  IInv'
<1>1. /\ State' = State /\ Nodes' = Nodes /\ Graph' = Graph /\ DesiredIds' = DesiredIds
      /\ (Plannable' <=> Plannable) /\ IdsIn(selected)' = IdsIn(selected)
      /\ (rendering' <=> rendering) /\ Rendered' = Rendered /\ ToUninstall' = ToUninstall
  BY GraphFixed, RenderedFixed DEF IdsIn
<1>2. TypeOK'
  BY <1>1 DEF IInv, TypeOK, inputs
<1>3. Past({"split", "check", "done"})' => Past({"split", "check", "done"})
  BY DEF Past, IInv, TypeOK
<1>4. Past({"check", "done"})' => Past({"check", "done"})
  BY DEF Past, IInv, TypeOK
<1>5. Past({"split", "check", "done"})' =>
          \E P \in SUBSET Nodes' : PlacedIn(P)' /\ ((planned \cap DesiredIds)' \subseteq P)
  BY <1>1, <1>3 DEF IInv, Ordered, PlacedIn
<1>6. /\ (stage \in {"plan", "split", "check"} => ~failed /\ selected # {})'
      /\ (stage \in {"split", "check"} => rendering)'
      /\ (stage = "select" => selected = {} /\ ~failed)'
  <2>1. CASE UNCHANGED <<stage, failed>>
    BY <1>1, <2>1 DEF IInv, Ordered
  <2>2. CASE stage' = "done"
    BY <2>2
  <2> QED BY <2>1, <2>2
<1>7. Past({"split", "check", "done"})' =>
          Plannable' /\ planned' \subseteq Nodes' /\ IdsIn(selected)' \subseteq planned'
  BY <1>1, <1>3 DEF IInv, Ordered
<1>8. Past({"check", "done"})' /\ rendering' =>
          /\ shown' = (Rendered \cup ToUninstall)'
          /\ (planned \cap DesiredIds)' \subseteq Rendered' /\ PlacedIn(Rendered)'
  BY <1>1, <1>4 DEF IInv, Ordered, PlacedIn
<1>9. Ordered'
  BY <1>5, <1>6, <1>7, <1>8 DEF Ordered
<1> QED BY <1>2, <1>9 DEF IInv

LEMMA NextKeeps == IInv /\ [Next]_vars => IInv'
<1> SUFFICES ASSUME IInv, [Next]_vars
             PROVE  IInv'
  OBVIOUS
<1>1. CASE Select
  BY <1>1, SelectKeeps
<1>2. CASE Plan
  BY <1>2, PlanKeeps
<1>3. CASE Split
  BY <1>3, SplitKeeps
<1>4. CASE Check
  BY <1>4, QuietKeeps DEF Check, Fail
<1>5. CASE UNCHANGED vars
  BY <1>5, QuietKeeps DEF vars
<1> QED BY <1>1, <1>2, <1>3, <1>4, <1>5 DEF Next, Done

LEMMA Invariant == Spec => []IInv
BY InitKeeps, NextKeeps, PTL DEF Spec

----------------------------------------------------------------------------
(* Theorems.                                                                *)

\* Every variable stays in its type: one definition is left of each ID, and the groups are a
\* sequence of sets of IDs of the state.
THEOREM TypeCorrect == Spec => []TypeOK
<1>1. IInv => TypeOK
  BY DEF IInv
<1> QED BY Invariant, <1>1, PTL

LEMMA PlacedInOrder ==
    ASSUME pool \subseteq State, needs \in NeedsOf, Plannable, NEW P \in SUBSET Nodes, PlacedIn(P)
    PROVE  /\ \A g, h \in DOMAIN groups : g # h => groups[g] \cap groups[h] = {}
           /\ \A i \in Grouped : \A n \in Reaches(Nodes, Graph, i) \cap Grouped :
                 InGroup(n) < InGroup(i)
<1> DEFINE lv == Levels(Nodes, Graph)
<1>1. PICK m \in Nat :
          \E place \in [P -> 1..m] :
              /\ groups = [g \in 1..m |-> {r \in P : place[r] = g}]
              /\ \A r, s \in P : lv[r] < lv[s] => place[r] < place[s]
  BY DEF PlacedIn, Placed
<1>2. PICK place \in [P -> 1..m] :
          /\ groups = [g \in 1..m |-> {r \in P : place[r] = g}]
          /\ \A r, s \in P : lv[r] < lv[s] => place[r] < place[s]
  BY <1>1
<1>3. Grouped = P
  BY PlacedGrouped DEF PlacedIn
<1>4. \A g, h \in DOMAIN groups : g # h => groups[g] \cap groups[h] = {}
  BY <1>2
<1>5. ASSUME NEW r \in P
      PROVE  InGroup(r) = place[r]
  <2>1. place[r] \in DOMAIN groups /\ r \in groups[place[r]]
    BY <1>2
  <2>2. \A g \in DOMAIN groups : r \in groups[g] => g = place[r]
    BY <1>2
  <2> QED BY <2>1, <2>2 DEF InGroup
<1>6. ASSUME NEW i \in P, NEW n \in Reaches(Nodes, Graph, i) \cap P
      PROVE  InGroup(n) < InGroup(i)
  <2>1. IsFiniteSet(Nodes)
    BY NodesFinite
  <2>2. lv[n] < lv[i]
    BY <2>1, ReachedIsLower DEF Plannable
  <2> QED BY <1>2, <1>5, <2>2
<1> QED BY <1>3, <1>4, <1>6

\* Whatever releases a state defines and whatever they need, each planned release is in one
\* group, after all the planned releases that it needs, directly or through others
\* (GroupReleasesByDependency): a command that works group by group works in that order.
THEOREM OrderRespected == Spec => []NeedsComeFirst
<1>1. IInv => NeedsComeFirst
  <2> SUFFICES ASSUME IInv, Succeeded
               PROVE  /\ \A g, h \in DOMAIN groups : g # h => groups[g] \cap groups[h] = {}
                      /\ \A i \in Grouped : \A n \in Reaches(Nodes, Graph, i) \cap Grouped :
                            InGroup(n) < InGroup(i)
    BY DEF NeedsComeFirst
  <2>1. Past({"split", "check", "done"})
    BY DEF Succeeded, Past
  <2>2. Plannable /\ pool \subseteq State /\ needs \in NeedsOf
    BY <2>1 DEF IInv, Ordered, TypeOK
  <2>3. PICK P \in SUBSET Nodes : PlacedIn(P)
    BY <2>1 DEF IInv, Ordered
  <2> QED BY <2>2, <2>3, PlacedInOrder
<1> QED BY Invariant, <1>1, PTL

\* Between the two plans of withNeeds nothing is lost, for any releases, selectors and
\* options: every desired release of the first plan is handed to the command; diff is handed
\* the releases to uninstall as well, and template, lint and unittest are not; and nothing
\* else comes in but direct needs of what is rendered, where needs are included.
THEOREM NothingLost == Spec => []NothingHidden
<1>1. IInv => NothingHidden
  <2> SUFFICES ASSUME IInv, Succeeded, rendering
               PROVE  NothingHidden
    BY DEF NothingHidden
  <2> DEFINE render == planned \cap DesiredIds
             more == IF Include THEN UNION {Graph[i] : i \in render} ELSE {}
  <2>1. Past({"split", "check", "done"}) /\ Past({"check", "done"})
    BY DEF Succeeded, Past
  <2>2. IdsIn(selected) \subseteq planned
    BY <2>1 DEF IInv, Ordered
  <2>3. shown = Rendered \cup ToUninstall /\ render \subseteq Rendered /\ PlacedIn(Rendered)
    BY <2>1 DEF IInv, Ordered
  <2>4. Grouped = Rendered
    BY <2>3, PlacedGrouped DEF PlacedIn
  <2>5. Rendered = render \cup more
    BY DEF Rendered, PlannedIds
  <2>6. command = "diff" => ToUninstall = planned \ render
    BY DEF ToUninstall
  <2>7. command = "template" => ToUninstall = {}
    BY DEF ToUninstall
  <2> HIDE DEF render, more
  <2>8. render \subseteq planned
    BY DEF render
  <2>9. /\ render \subseteq shown \cap Grouped
        /\ command = "diff" => planned \subseteq shown /\ shown \subseteq planned \cup more
        /\ command = "template" => shown \subseteq render \cup more
    BY <2>3, <2>4, <2>5, <2>6, <2>7, <2>8
  <2> QED BY <2>2, <2>9 DEF NothingHidden, render, more
<1> QED BY Invariant, <1>1, PTL
----------------------------------------------------------------------------
(* What is planned, and what --enforce-needs-are-installed lets through.    *)

\* The selection and the graph are those that Select made; apply and sync planned them; and
\* the check was made where it was asked for.
Selecting ==
    Past({"plan", "split", "check", "done"}) =>
        /\ selected = Marked
        /\ pool = {d \in State : Twins(d) = {d} \/ d \in Marked}
Planning ==
    Past({"done"}) /\ ~rendering =>
        /\ planned = PlannedIds(Graph, IdsIn(selected), Include)
        /\ ~PlanFails(Nodes, Graph, IdsIn(selected), Include, Skip)
        /\ PlacedIn(planned)
Passes(first) ==
    \A i \in planned \cap DesiredIds : Reaches(Nodes, Walk(first, i), i) \subseteq DesiredIds
Checking ==
    /\ enforce => rendering
    /\ Past({"done"}) /\ enforce =>
          \E first \in Firsts : Passes(first)

Exact == Selecting /\ Planning /\ Checking

\* The inputs decide what is marked.
LEMMA MarkedFixed ==
    ASSUME UNCHANGED inputs
    PROVE  Marked' = Marked /\ State' = State /\ \A d \in State : Twins(d)' = Twins(d)
BY DEF inputs, State, rendering, Marked, Collected, Twins

LEMMA FoundFixed ==
    ASSUME UNCHANGED <<inputs, pool, planned>>
    PROVE  Firsts' = Firsts /\ \A first : Passes(first)' <=> Passes(first)
<1>1. Nodes' = Nodes /\ Graph' = Graph /\ DesiredIds' = DesiredIds
  BY GraphFixed
<1>2. FoundGraph' = FoundGraph
  BY <1>1 DEF FoundGraph, Found
<1>3. ASSUME NEW first, NEW i
      PROVE  Walk(first, i)' = Walk(first, i)
  BY <1>1, <1>2 DEF Walk
<1>4. ASSUME NEW first, NEW i
      PROVE  Reaches(Nodes, Walk(first, i), i)' = Reaches(Nodes, Walk(first, i), i)
  BY <1>1, <1>3 DEF Reaches
<1> QED BY <1>1, <1>4 DEF Firsts, Names, Passes

\* A step that leaves the plan alone, to a stage that asks no more than the one before.
LEMMA QuietExact ==
    ASSUME IInv, Exact, UNCHANGED <<inputs, selected, pool, planned, groups>>,
           Past({"plan", "split", "check", "done"})' => Past({"plan", "split", "check", "done"}),
           Past({"done"})' /\ ~rendering => Past({"done"}),
           Past({"done"})' /\ enforce => Past({"done"}) \/ \E first \in Firsts : Passes(first)
    PROVE  Exact'
<1>1. /\ State' = State /\ Nodes' = Nodes /\ Graph' = Graph /\ DesiredIds' = DesiredIds
      /\ Include' = Include /\ Skip' = Skip /\ IdsIn(selected)' = IdsIn(selected)
      /\ Firsts' = Firsts /\ \A first : Passes(first)' <=> Passes(first)
  BY GraphFixed, FoundFixed DEF IdsIn
<1>2. Selecting'
  BY <1>1, MarkedFixed DEF Exact, Selecting
<1>3. (rendering' <=> rendering) /\ enforce' = enforce
  BY DEF inputs, rendering
<1>4. Planning'
  BY <1>1, <1>3 DEF Exact, Planning, PlacedIn
<1>5. Checking'
  BY <1>1, <1>3 DEF Exact, Checking
<1> QED BY <1>2, <1>4, <1>5 DEF Exact

LEMMA SelectExact ==
    ASSUME IInv, Exact, Select
    PROVE  Exact'
<1>1. Marked' = Marked /\ State' = State /\ \A d \in State : Twins(d)' = Twins(d)
  BY MarkedFixed DEF Select
<1>2. Past({"plan", "split", "check", "done"})' =>
          /\ selected' = Marked
          /\ pool' = {d \in State : Twins(d) = {d} \/ d \in Marked}
  BY DEF Select, Fail, Past
<1>3. ~Past({"done"})' /\ (enforce => rendering)'
  BY DEF Select, Fail, Past, inputs, rendering, Exact, Checking
<1>4. Selecting'
  BY <1>1, <1>2 DEF Selecting
<1> QED BY <1>3, <1>4 DEF Exact, Planning, Checking

LEMMA PlanExactly ==
    ASSUME IInv, Exact, Plan
    PROVE  Exact'
<1>1. CASE PlanFails(Nodes, Graph, IdsIn(selected), Include, Skip)
  <2>1. ~Past({"plan", "split", "check", "done"})' /\ ~Past({"done"})'
    BY <1>1 DEF Plan, Fail, Past
  <2>2. (enforce => rendering)'
    BY DEF Plan, inputs, rendering, Exact, Checking
  <2> QED BY <2>1, <2>2 DEF Exact, Selecting, Planning, Checking
<1>2. CASE ~PlanFails(Nodes, Graph, IdsIn(selected), Include, Skip)
  <2>1. /\ UNCHANGED <<inputs, selected, pool, failed>> /\ (rendering' <=> rendering)
        /\ planned' = PlannedIds(Graph, IdsIn(selected), Include)
        /\ groups' = Groups(Nodes, Graph, planned', FALSE)
        /\ stage' = IF rendering THEN "split" ELSE "done"
    BY <1>2 DEF Plan, inputs, rendering
  <2>2. /\ State' = State /\ Nodes' = Nodes /\ Graph' = Graph /\ DesiredIds' = DesiredIds
        /\ Include' = Include /\ Skip' = Skip /\ IdsIn(selected)' = IdsIn(selected)
    BY <2>1, GraphFixed DEF IdsIn
  <2>3. Past({"plan", "split", "check", "done"})
    BY DEF Plan, Past, IInv, Ordered
  <2>4. Selecting'
    BY <2>1, <2>2, <2>3, MarkedFixed DEF Exact, Selecting
  <2>5. /\ pool \subseteq State /\ needs \in NeedsOf /\ IdsIn(selected) \in SUBSET Nodes
        /\ Include \in BOOLEAN /\ Plannable
    BY <1>2 DEF IInv, TypeOK, IdsIn, Nodes, Include, PlanFails, Plannable
  <2>6. planned' \in SUBSET Nodes
    BY <2>1, <2>5, PlannedAreNodes DEF Plannable
  <2>7. PlacedIn(planned)'
    BY <2>1, <2>2, <2>5, <2>6, PlanPlaced DEF PlacedIn
  <2>8. Planning'
    BY <1>2, <2>1, <2>2, <2>7 DEF Planning
  <2>9. Checking'
    BY <2>1 DEF Checking, Past, Exact, inputs
  <2> QED BY <2>4, <2>8, <2>9 DEF Exact
<1> QED BY <1>1, <1>2

\* Splitting is for commands that render, which are done after the check.
LEMMA SplitExact ==
    ASSUME IInv, Exact, Split
    PROVE  Exact'
<1>1. rendering /\ Past({"plan", "split", "check", "done"})
  BY DEF Split, IInv, Ordered, Past
<1>2. /\ UNCHANGED <<inputs, selected, pool, planned>>
      /\ (rendering' <=> rendering) /\ enforce' = enforce /\ ~Past({"done"})'
  BY DEF Split, inputs, rendering, Fail, Past
<1>3. IdsIn(selected)' = IdsIn(selected) /\ State' = State
  BY <1>2, MarkedFixed DEF IdsIn
<1>4. Selecting'
  BY <1>1, <1>2, <1>3, MarkedFixed DEF Exact, Selecting
<1> QED BY <1>2, <1>4 DEF Exact, Planning, Checking

\* A command that is not stopped here has no planned release that the walk over names finds
\* to need one that is not installed.
LEMMA CheckExact ==
    ASSUME IInv, Exact, Check
    PROVE  Exact'
<1>1. /\ UNCHANGED <<inputs, selected, pool, planned, groups>> /\ rendering
      /\ Past({"plan", "split", "check", "done"})
  BY DEF Check, IInv, Ordered, Past
<1>2. ASSUME Past({"done"})', enforce
      PROVE  \E first \in Firsts : Passes(first)
  <2>1. PICK first \in Firsts :
            ~\E i \in planned \cap DesiredIds : Reaches(Nodes, Walk(first, i), i) \ DesiredIds # {}
    BY <1>2 DEF Check, Fail, Past
  <2>2. Passes(first)
    BY <2>1 DEF Passes
  <2> QED BY <2>2
<1> QED BY <1>1, <1>2, QuietExact

LEMMA NextExact == IInv /\ Exact /\ [Next]_vars => Exact'
<1> SUFFICES ASSUME IInv, Exact, [Next]_vars
             PROVE  Exact'
  OBVIOUS
<1>1. CASE Select
  BY <1>1, SelectExact
<1>2. CASE Plan
  BY <1>2, PlanExactly
<1>3. CASE Split
  BY <1>3, SplitExact
<1>4. CASE Check
  BY <1>4, CheckExact
<1>5. CASE UNCHANGED vars
  <2>1. UNCHANGED <<inputs, selected, pool, planned, groups, stage, failed>>
    BY <1>5 DEF vars
  <2>2. \A s : Past(s)' => Past(s)
    BY <2>1 DEF Past
  <2> QED BY <2>1, <2>2, QuietExact
<1> QED BY <1>1, <1>2, <1>3, <1>4, <1>5 DEF Next, Done

LEMMA ExactInvariant == Spec => [](IInv /\ Exact)
<1>1. Init => Exact
  BY DEF Init, Exact, Selecting, Planning, Checking, Past
<1> QED BY <1>1, NextExact, Invariant, PTL DEF Spec
----------------------------------------------------------------------------
(* What a release needs, in the graph and by name.                          *)

\* The needs of a node are a closed set of nodes, and the least one.
LEMMA ReachesClosed ==
    ASSUME NEW R, NEW nd, ~Undefined(R, nd), NEW r \in R
    PROVE  /\ Reaches(R, nd, r) \subseteq R /\ nd[r] \subseteq Reaches(R, nd, r)
           /\ \A s \in Reaches(R, nd, r) : nd[s] \subseteq Reaches(R, nd, r)
<1>1. \A s \in R : nd[s] \subseteq R
  BY DEF Undefined
<1> QED BY <1>1 DEF Reaches

LEMMA ReachesWithin ==
    ASSUME NEW R, NEW nd, NEW r, NEW S \in SUBSET R, nd[r] \subseteq S, \A s \in S : nd[s] \subseteq S
    PROVE  Reaches(R, nd, r) \subseteq S
BY DEF Reaches

\* One definition is left of an ID, so its needs are those of the node.
LEMMA GraphOf ==
    ASSUME TypeOK, NEW d \in pool
    PROVE  IdOf[d] \in Nodes /\ Graph[IdOf[d]] = needs[d]
<1>1. IdOf[d] \in Nodes /\ {e \in pool : IdOf[e] = IdOf[d]} = {d}
  BY DEF Nodes, IdsIn, TypeOK
<1> QED BY <1>1 DEF Graph

LEMMA StateIds ==
    ASSUME TypeOK
    PROVE  \A d \in State : IdOf[d] \in Ids /\ needs[d] \subseteq Ids
BY NeedsPlanAssumption DEF TypeOK, State

\* What collectNeedsWithTransitives collects is closed, by name.
LEMMA CollectedClosed ==
    ASSUME TypeOK, NEW start \in SUBSET State
    PROVE  /\ Collected(start) \subseteq Ids
           /\ \A d \in start : needs[d] \subseteq Collected(start)
           /\ \A s \in Collected(start) : \A d \in State :
                 NameOf[IdOf[d]] = NameOf[s] => needs[d] \subseteq Collected(start)
<1>1. Collected(start) \subseteq Ids
  BY DEF Collected
<1>2. ASSUME NEW d \in start
      PROVE  needs[d] \subseteq Collected(start)
  BY StateIds DEF Collected
<1>3. ASSUME NEW s \in Collected(start), NEW d \in State, NameOf[IdOf[d]] = NameOf[s]
      PROVE  needs[d] \subseteq Collected(start)
  <2> SUFFICES ASSUME NEW i \in needs[d], NEW S \in SUBSET Ids,
                      \A e \in start : needs[e] \subseteq S,
                      \A t \in S : \A e \in State : NameOf[IdOf[e]] = NameOf[t] => needs[e] \subseteq S
               PROVE  i \in S
    BY StateIds DEF Collected
  <2>1. s \in S
    BY DEF Collected
  <2> QED BY <1>3, <2>1
<1> QED BY <1>1, <1>2, <1>3

LEMMA CollectedWithin ==
    ASSUME NEW start, NEW S \in SUBSET Ids, \A d \in start : needs[d] \subseteq S,
           \A s \in S : \A d \in State : NameOf[IdOf[d]] = NameOf[s] => needs[d] \subseteq S
    PROVE  Collected(start) \subseteq S
BY DEF Collected

\* Where every release has a name of its own, nothing is collected but what is reached from
\* the matching releases.
LEMMA CollectedReached ==
    ASSUME TypeOK, OwnNames, ~Undefined(Nodes, Graph), option = "transitive", ~rendering,
           selected = Marked, Marked \subseteq pool,
           pool = {d \in State : Twins(d) = {d} \/ d \in Marked}
    PROVE  Collected(match) \subseteq UNION {Reaches(Nodes, Graph, i) : i \in IdsIn(match)}
<1> DEFINE All == UNION {Reaches(Nodes, Graph, i) : i \in IdsIn(match)}
           S == All \cap Collected(match)
<1>1. Marked = match \cup {d \in State : IdOf[d] \in Collected(match)} /\ match \in SUBSET State
  BY DEF Marked, TypeOK
<1>2. /\ Collected(match) \subseteq Ids
      /\ \A d \in match : needs[d] \subseteq Collected(match)
      /\ \A s \in Collected(match) : \A d \in State :
            NameOf[IdOf[d]] = NameOf[s] => needs[d] \subseteq Collected(match)
  BY <1>1, CollectedClosed
<1>3. \A i \in Nodes : /\ Graph[i] \subseteq Reaches(Nodes, Graph, i)
                       /\ \A s \in Reaches(Nodes, Graph, i) : Graph[s] \subseteq Reaches(Nodes, Graph, i)
  BY ReachesClosed
<1>4. \A d \in Marked : IdOf[d] \in Nodes /\ Graph[IdOf[d]] = needs[d]
  BY GraphOf
<1>5. \A d \in match : IdOf[d] \in IdsIn(match) /\ IdOf[d] \in Nodes /\ needs[d] \subseteq All
  BY <1>1, <1>3, <1>4 DEF IdsIn
<1>6. \A i \in IdsIn(match) : i \in Nodes
  BY <1>5 DEF IdsIn
<1>7. ASSUME NEW s \in S, NEW d \in State, NameOf[IdOf[d]] = NameOf[s]
      PROVE  needs[d] \subseteq S
  <2>1. s \in Nodes
    BY <1>6, ReachesClosed
  <2>2. PICK e \in pool : IdOf[e] = s
    BY <2>1 DEF Nodes, IdsIn
  <2>3. IdOf[d] = s
    BY <1>7, <2>2 DEF OwnNames, TypeOK
  <2>4. d \in Marked
    BY <1>1, <2>3
  <2>5. needs[d] = Graph[s]
    BY <1>4, <2>3, <2>4
  <2>6. Graph[s] \subseteq All
    BY <1>3, <1>6
  <2> QED BY <1>2, <1>7, <2>5, <2>6
<1>8. \A d \in match : needs[d] \subseteq S
  BY <1>2, <1>5
<1>9. S \in SUBSET Ids
  BY <1>2
<1> HIDE DEF S
<1>10. Collected(match) \subseteq S
  BY <1>7, <1>8, <1>9, CollectedWithin
<1> QED BY <1>10 DEF S

\* With --include-transitive-needs everything that is reached from a matching release is
\* collected, and selected.
LEMMA ReachedCollected ==
    ASSUME TypeOK, ~Undefined(Nodes, Graph), option = "transitive", ~rendering,
           selected = Marked, Marked \subseteq pool, NEW i \in IdsIn(match)
    PROVE  Reaches(Nodes, Graph, i) \subseteq IdsIn(selected)
<1> DEFINE S == Collected(match) \cap Nodes
<1>1. Marked = match \cup {d \in State : IdOf[d] \in Collected(match)} /\ match \in SUBSET State
  BY DEF Marked, TypeOK
<1>2. PICK d \in match : IdOf[d] = i
  BY DEF IdsIn
<1>3. d \in pool /\ i \in Nodes /\ Graph[i] = needs[d]
  BY <1>1, <1>2, GraphOf
<1>4. \A n \in Nodes : Graph[n] \subseteq Nodes
  BY DEF Undefined
<1>5. Graph[i] \subseteq S
  BY <1>1, <1>2, <1>3, <1>4, CollectedClosed
<1>6. ASSUME NEW s \in S
      PROVE  Graph[s] \subseteq S
  <2>1. PICK e \in pool : IdOf[e] = s
    BY DEF Nodes, IdsIn
  <2>2. e \in State /\ Graph[s] = needs[e]
    BY <2>1, GraphOf DEF TypeOK
  <2> QED BY <1>1, <1>4, <2>1, <2>2, CollectedClosed
<1>7. S \in SUBSET Nodes
  OBVIOUS
<1>8. ASSUME NEW n \in S
      PROVE  n \in IdsIn(selected)
  <2>1. PICK e \in pool : IdOf[e] = n
    BY DEF Nodes, IdsIn
  <2>2. e \in selected
    BY <1>1, <2>1 DEF TypeOK
  <2> QED BY <2>1, <2>2 DEF IdsIn
<1> HIDE DEF S
<1>9. Reaches(Nodes, Graph, i) \subseteq S
  BY <1>5, <1>6, <1>7, ReachesWithin
<1> QED BY <1>8, <1>9

----------------------------------------------------------------------------
(* Theorems.                                                                *)

\* What a plan that succeeded contains, whatever the names are.
PlanComplete ==
    Succeeded /\ ~rendering =>
        /\ planned = Grouped
        /\ IdsIn(match) \subseteq planned
        /\ option = "include" => UNION {Graph[i] : i \in IdsIn(match)} \subseteq planned
        /\ option = "transitive" =>
              UNION {Reaches(Nodes, Graph, i) : i \in IdsIn(match)} \subseteq planned
        /\ option = "none" => \A i \in planned : Graph[i] \subseteq planned
        /\ option = "skip" => planned = IdsIn(selected)

\* What apply and sync planned, from the invariant.
LEMMA PlannedNow ==
    ASSUME IInv, Exact, Succeeded, ~rendering
    PROVE  /\ planned = PlannedIds(Graph, IdsIn(selected), Include)
           /\ ~PlanFails(Nodes, Graph, IdsIn(selected), Include, Skip)
           /\ PlacedIn(planned) /\ TypeOK
           /\ selected = Marked /\ Marked \subseteq pool /\ match \subseteq Marked
           /\ pool = {d \in State : Twins(d) = {d} \/ d \in Marked}
           /\ \A i \in IdsIn(selected) : i \in Nodes
<1>1. Past({"done"}) /\ Past({"plan", "split", "check", "done"})
  BY DEF Succeeded, Past
<1>2. match \subseteq Marked
  BY DEF Marked
<1>3. TypeOK /\ selected = Marked /\ selected \subseteq pool
  BY <1>1 DEF IInv, TypeOK, Exact, Selecting
<1> QED BY <1>1, <1>2, <1>3 DEF Exact, Selecting, Planning, Nodes, IdsIn

LEMMA Complete ==
    ASSUME IInv, Exact
    PROVE  PlanComplete
<1> SUFFICES ASSUME Succeeded, ~rendering
             PROVE  /\ planned = Grouped
                    /\ IdsIn(match) \subseteq planned
                    /\ option = "include" => UNION {Graph[i] : i \in IdsIn(match)} \subseteq planned
                    /\ option = "transitive" =>
                          UNION {Reaches(Nodes, Graph, i) : i \in IdsIn(match)} \subseteq planned
                    /\ option = "none" => \A i \in planned : Graph[i] \subseteq planned
                    /\ option = "skip" => planned = IdsIn(selected)
  BY DEF PlanComplete
<1>1. planned = Grouped
  BY PlannedNow, PlacedGrouped DEF PlacedIn
<1>2. IdsIn(selected) \subseteq planned /\ IdsIn(match) \subseteq IdsIn(selected)
  BY PlannedNow DEF PlannedIds, IdsIn
<1>3. option = "include" => UNION {Graph[i] : i \in IdsIn(match)} \subseteq planned
  BY <1>2, PlannedNow DEF PlannedIds, Include
<1>4. option = "transitive" =>
          UNION {Reaches(Nodes, Graph, i) : i \in IdsIn(match)} \subseteq planned
  BY <1>2, PlannedNow, ReachedCollected DEF PlanFails
<1>5. option = "none" => \A i \in planned : Graph[i] \subseteq planned
  BY PlannedNow DEF PlanFails, Unhandled, PlannedIds, Include, Skip
<1>6. option = "skip" => planned = IdsIn(selected)
  BY PlannedNow DEF PlannedIds, Include
<1> QED BY <1>1, <1>2, <1>3, <1>4, <1>5, <1>6

\* Nothing else is planned, with unique names or where needs are not collected by name.
LEMMA NothingElse ==
    ASSUME IInv, Exact, Succeeded, ~rendering, option # "transitive" \/ OwnNames
    PROVE  planned \subseteq UNION {Reaches(Nodes, Graph, i) \cup {i} : i \in IdsIn(match)}
<1> DEFINE All == UNION {Reaches(Nodes, Graph, i) \cup {i} : i \in IdsIn(match)}
<1>1. /\ ~Undefined(Nodes, Graph) /\ selected = Marked /\ Marked \subseteq pool /\ TypeOK
      /\ IdsIn(match) \subseteq IdsIn(selected) /\ IdsIn(selected) \subseteq Nodes
  BY PlannedNow DEF PlanFails, IdsIn
<1>2. \A n \in All : n \in Nodes /\ Graph[n] \subseteq All
  BY <1>1, ReachesClosed
<1>3. IdsIn(match) \subseteq All
  OBVIOUS
<1>4. IdsIn(selected) \subseteq All
  <2>1. CASE option = "transitive"
    <3>1. Collected(match) \subseteq UNION {Reaches(Nodes, Graph, i) : i \in IdsIn(match)}
      BY <1>1, <2>1, PlannedNow, CollectedReached
    <3>2. Collected(match) \subseteq All
      BY <3>1
    <3>3. IdsIn(Marked) \subseteq IdsIn(match) \cup Collected(match)
      BY DEF Marked, IdsIn
    <3> QED BY <1>1, <1>3, <3>2, <3>3
  <2>2. CASE option # "transitive"
    <3>1. Marked = match
      BY <2>2 DEF Marked
    <3> QED BY <1>1, <1>3, <3>1
  <2> QED BY <2>1, <2>2
<1> HIDE DEF All
<1>5. planned \subseteq All
  BY <1>2, <1>4, PlannedNow DEF PlannedIds
<1> QED BY <1>5 DEF All

\* The plan of apply and sync is what was asked for, whatever releases and needs a state
\* defines (getSelectedReleases, PlanReleases): the matching releases, with --include-needs
\* what they need, with --include-transitive-needs all that is reached from them, and without
\* an option no release whose needs it leaves out.  And it has nothing else, unless transitive
\* needs are collected, by name, among releases that share one.
THEOREM PlannedExactly == Spec => []PlanExact
<1>1. IInv /\ Exact => PlanExact
  <2> SUFFICES ASSUME IInv, Exact
               PROVE  PlanExact
    OBVIOUS
  <2>1. PlanComplete
    BY Complete
  <2>2. Succeeded /\ ~rendering /\ (option # "transitive" \/ OwnNames) =>
            planned \subseteq UNION {Reaches(Nodes, Graph, i) \cup {i} : i \in IdsIn(match)}
    BY NothingElse
  <2> QED BY <2>1, <2>2 DEF PlanExact, PlanComplete
<1> QED BY ExactInvariant, <1>1, PTL

\* A walk from a release finds its own plain needs, and with unique names all that is reached
\* through plain needs.
LEMMA WalkFinds ==
    ASSUME TypeOK, ~Undefined(Nodes, Graph), NEW first \in Firsts, NEW i \in Nodes
    PROVE  /\ PlainGraph[i] \subseteq Reaches(Nodes, Walk(first, i), i)
           /\ OwnNames => Reaches(Nodes, PlainGraph, i) \subseteq Reaches(Nodes, Walk(first, i), i)
<1> DEFINE W == Walk(first, i)
<1>1. \A j \in Nodes : PlainGraph[j] \subseteq Nodes /\ PlainGraph[j] \subseteq FoundGraph[j]
  BY DEF Undefined, PlainGraph, FoundGraph, Found
<1>2. \A j \in Nodes : FoundGraph[j] \subseteq Nodes
  BY DEF FoundGraph, Found
<1>3. W[i] = FoundGraph[i]
  BY DEF Walk
<1>4. ~Undefined(Nodes, W)
  BY <1>2 DEF Walk, Undefined
<1>5. ASSUME OwnNames, NEW j \in Nodes
      PROVE  W[j] = FoundGraph[j]
  <2>1. \A k \in Nodes : NameOf[k] = NameOf[j] => k = j
    BY <1>5 DEF OwnNames, Nodes, IdsIn, TypeOK
  <2>2. first[NameOf[j]] \in Nodes /\ NameOf[first[NameOf[j]]] = NameOf[j]
    BY DEF Firsts, Names
  <2>3. first[NameOf[j]] = j /\ (j = i \/ NameOf[j] # NameOf[i])
    BY <2>1, <2>2
  <2> QED BY <2>3 DEF Walk
<1> DEFINE S == Reaches(Nodes, W, i)
<1> HIDE DEF W
<1>6. S \in SUBSET Nodes /\ W[i] \subseteq S /\ \A s \in S : W[s] \subseteq S
  BY <1>4, ReachesClosed
<1> HIDE DEF S
<1>7. PlainGraph[i] \subseteq S
  BY <1>1, <1>3, <1>6
<1>8. ASSUME OwnNames
      PROVE  Reaches(Nodes, PlainGraph, i) \subseteq S
  <2>1. \A s \in S : PlainGraph[s] \subseteq S
    BY <1>1, <1>5, <1>6, <1>8
  <2> QED BY <1>6, <1>7, <2>1, ReachesWithin
<1> QED BY <1>7, <1>8 DEF S, W

\* --enforce-needs-are-installed, for any releases and needs: a command that goes on renders
\* no release with a plain need that is not installed, nor, where names are unique, one that
\* reaches such a need through plain ones (HasTransitiveDependencyWithInstalledFalse visits
\* each name once, and finds no need that has a namespace or a kube context).
THEOREM Enforced == Spec => []NeedsEnforced
<1>1. IInv /\ Exact => NeedsEnforced
  <2> SUFFICES ASSUME IInv, Exact, Succeeded, enforce, NEW i \in planned \cap DesiredIds
               PROVE  /\ PlainGraph[i] \subseteq DesiredIds
                      /\ OwnNames => Reaches(Nodes, PlainGraph, i) \subseteq DesiredIds
    BY DEF NeedsEnforced
  <2>1. Past({"done"}) /\ Past({"split", "check", "done"})
    BY DEF Succeeded, Past
  <2>2. PICK first \in Firsts : Passes(first)
    BY <2>1 DEF Exact, Checking
  <2>3. Reaches(Nodes, Walk(first, i), i) \subseteq DesiredIds
    BY <2>2 DEF Passes
  <2>4. TypeOK /\ ~Undefined(Nodes, Graph) /\ i \in Nodes
    BY <2>1 DEF IInv, Ordered, Plannable
  <2> QED BY <2>3, <2>4, WalkFinds
<1> QED BY ExactInvariant, <1>1, PTL
=============================================================================
