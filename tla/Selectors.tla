----------------------------- MODULE Selectors -----------------------------
(***************************************************************************)
(* Which releases of a state file a command is for                         *)
(* (pkg/state/release_filters.go, markExcludedReleases): those that one of *)
(* its selectors matches and whose condition holds.  A selector is         *)
(* [positive, negative], sets of pairs of a label and a value; a release   *)
(* is [name, labels, condition] and a condition [form, field], where field *)
(* is an environment value that values maps to "on", "off" or "scalar".    *)
(***************************************************************************)
LOCAL INSTANCE TLC

\* GetReleasesWithLabels: a release's own labels before those of the file, and its name.
LabelsOf(common, release) == [name |-> release.name] @@ release.labels @@ common

Match(selector, labels) ==
    /\ \A l \in selector.positive : l[1] \in DOMAIN labels /\ labels[l[1]] = l[2]
    /\ \A l \in selector.negative : l[1] \in DOMAIN labels => labels[l[1]] # l[2]

\* ConditionEnabled: "true", "false" or a field of the environment values that has to exist.
ConditionFails(condition, values) ==
    \/ condition.form = "malformed"
    \/ /\ condition.form = "field"
       /\ condition.field \notin DOMAIN values \/ values[condition.field] = "scalar"
ConditionEnabled(condition, values) ==
    \/ condition.form \in {"none", "true"}
    \/ /\ condition.form = "field" /\ condition.field \in DOMAIN values
       /\ values[condition.field] = "on"

Matching(selectors, common, releases) ==
    {r \in releases : \E s \in selectors : Match(s, LabelsOf(common, r))}

\* markExcludedReleases: without selectors every release is for the command.
Selected(selectors, common, releases, values) ==
    {r \in (IF selectors = {} THEN releases ELSE Matching(selectors, common, releases)) :
        ConditionEnabled(r.condition, values)}

\* A bug: selectors that ask for different labels conflict.
CompatibleIfEqual(a, b) == a.positive = b.positive

\* SelectorsAreCompatible: only labels that are asked for are compared.
Compatible(a, b) == \A k \in a.positive, l \in b.positive : k[1] = l[1] => k[2] = l[2]
SelectorsAreCompatible(as, bs) ==
    as = {} \/ bs = {} \/ \E a \in as, b \in bs : Compatible(a, b)
=============================================================================
