----------------------------- MODULE ValueMaps -----------------------------
(***************************************************************************)
(* Values: maps of maps, and how maputil and Environment merge them.  A map*)
(* is the function from the paths of its leaves, sequences of keys, to the *)
(* leaves: [list, v], where v is <<x>> for a value, <<>> for null, and the *)
(* elements of a list, any of which may be Hole (null) as well.            *)
(***************************************************************************)
EXTENDS Naturals, Sequences, SequencesExt

NoValues == <<>>
Null == [list |-> FALSE, v |-> <<>>]
Hole == {}
One(x) == [list |-> FALSE, v |-> <<x>>]
Several(xs) == [list |-> TRUE, v |-> xs]

Related(p, q) == IsPrefix(p, q) \/ IsPrefix(q, p)

\* mergeSlices: a list without holes replaces the other, unless it is of the
\* command line ("merge"); others replace element by element
MergeSlices(base, override, strategy) ==
  IF strategy = "sparse" /\ Hole \notin {override[i] : i \in DOMAIN override} THEN override
  ELSE [i \in DOMAIN base \cup DOMAIN override |->
          IF i \in DOMAIN override /\ override[i] # Hole THEN override[i]
          ELSE IF i \in DOMAIN base THEN base[i] ELSE Hole]

\* MergeMaps: b goes before a, but null does not replace anything
MergeMaps(a, b, strategy) ==
  LET over == {q \in DOMAIN b : b[q] = Null => ~\E p \in DOMAIN a : IsPrefix(q, p)}
      kept == {p \in DOMAIN a : \A q \in over : p = q \/ ~Related(p, q)}
  IN  [p \in kept \cup over |->
         IF p \notin over THEN a[p]
         ELSE IF p \in kept /\ a[p].list /\ b[p].list
         THEN Several(MergeSlices(a[p].v, b[p].v, strategy)) ELSE b[p]]

\* mergo.Merge with override: lists are replaced as a whole
Overridden(a, b) ==
  [p \in {q \in DOMAIN a : ~\E o \in DOMAIN b : Related(q, o)} \cup DOMAIN b |->
     IF p \in DOMAIN b THEN b[p] ELSE a[p]]

\* maputil.Set, for `--state-values-set path[i]=x`: i is 0 without an index
SetValue(m, path, i, x) ==
  LET old == IF path \in DOMAIN m THEN m[path].v ELSE <<>>
      new == IF i = 0 THEN One(x)
             ELSE Several([k \in 1..(IF i > Len(old) THEN i ELSE Len(old)) |->
                             IF k = i THEN x ELSE IF k \in DOMAIN old THEN old[k] ELSE Hole])
  IN  [p \in DOMAIN m \cup {path} |-> IF p = path THEN new ELSE m[p]]
SetValues(assignments) ==
  FoldLeft(LAMBDA m, a : SetValue(m, a[1], a[2], a[3]), NoValues, assignments)

\* Environment: values of the top level, of the environment, of the command line
NewEnvironment == [defaults |-> NoValues, values |-> NoValues, cli |-> NoValues]
MergeEnvironment(e, other) ==
  [defaults |-> MergeMaps(e.defaults, other.defaults, "sparse"),
   values |-> MergeMaps(e.values, other.values, "sparse"),
   cli |-> MergeMaps(e.cli, other.cli, "merge")]
\* A bug: what the top level says goes before the environment.
DefaultsLast(e) ==
  MergeMaps(MergeMaps(e.values, e.defaults, "sparse"), e.cli, "merge")
GetMergedValues(e) ==
  MergeMaps(MergeMaps(e.defaults, e.values, "sparse"), e.cli, "merge")
=============================================================================
