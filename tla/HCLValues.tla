----------------------------- MODULE HCLValues -----------------------------
(***************************************************************************)
(* Values in HCL files.  All files of an environment are evaluated         *)
(* together: a value may be defined in several of them and may refer to    *)
(* values of any of them, and to the locals of its own file.  A file is    *)
(* [locals, values]; both are functions from names to definitions, a       *)
(* definition is [tag, refs, local]: what it is, the names it refers to,   *)
(* and whether it uses a local named "l".  The result of an evaluation is  *)
(* the set of the tags it is made of.                                      *)
(***************************************************************************)
EXTENDS Naturals, Sequences, FiniteSets, FiniteSetsExt

\* readHCLs: every definition of a name, in the order of the files
Names(files) == UNION {DOMAIN files[i].values : i \in DOMAIN files}
DefinedIn(files, n) == {i \in DOMAIN files : n \in DOMAIN files[i].values}

\* createDAGGraph: a name depends on what any of its definitions refers to
Dependencies(files) ==
  [n \in Names(files) |-> UNION {files[i].values[n].refs : i \in DefinedIn(files, n)}]

\* dag.Plan: a name comes in the first group after all it depends on
Planned(deps) ==
  LET upTo[k \in 0..Cardinality(DOMAIN deps)] ==
        IF k = 0 THEN {} ELSE {n \in DOMAIN deps : deps[n] \subseteq upTo[k - 1]}
  IN  upTo
\* undefined names and cycles are errors
Plannable(deps) == Planned(deps)[Cardinality(DOMAIN deps)] = DOMAIN deps

LocalRefs(file) == [n \in DOMAIN file.locals |-> file.locals[n].refs]
\* decodeGraph of the locals of a file
Locals(file) ==
  LET names == DOMAIN file.locals
      at[k \in 0..Cardinality(names)] ==
        IF k = 0 THEN [n \in {} |-> {}]
        ELSE [n \in Planned(LocalRefs(file))[k] |->
                {file.locals[n].tag} \cup UNION {at[k - 1][m] : m \in file.locals[n].refs}]
  IN  at[Cardinality(names)]
LocalsPlannable(file) == Plannable(LocalRefs(file))

\* one definition, in file i, with the values planned before it
Evaluate(files, i, d, values) ==
  {d.tag} \cup UNION {values[m] : m \in d.refs} \cup (IF d.local THEN Locals(files[i])["l"] ELSE {})

\* decodeGraph of the values: the last definition wins (maps would be merged),
\* but all of them are evaluated
Decoded(files) ==
  LET names == Names(files)
      last(n) == Max(DefinedIn(files, n))
      at[k \in 0..Cardinality(names)] ==
        IF k = 0 THEN [n \in {} |-> {}]
        ELSE [n \in Planned(Dependencies(files))[k] |->
                Evaluate(files, last(n), files[last(n)].values[n], at[k - 1])]
  IN  at[Cardinality(names)]

HCLRender(files) ==
  IF /\ \A i \in DOMAIN files : LocalsPlannable(files[i])
     /\ Plannable(Dependencies(files))
     /\ \A i \in DOMAIN files : \A n \in DOMAIN files[i].values :
          files[i].values[n].local => "l" \in DOMAIN files[i].locals
  THEN [ok |-> TRUE, values |-> Decoded(files)]
  ELSE [ok |-> FALSE, values |-> [n \in {} |-> {}]]

\* What a value stands for: the definitions its last definition leads to, by
\* names among the last definitions of all, by locals within a file.
Meaning(hs, n) ==
  LET last(m) == Max(DefinedIn(hs, m))
      def(x) == IF x[1] = 0 THEN hs[last(x[2])].values[x[2]] ELSE hs[x[1]].locals[x[2]]
      next(x) == {<<x[1], m>> : m \in def(x).refs}
                 \cup (IF def(x).local THEN {<<last(x[2]), "l">>} ELSE {})
      size == Cardinality(Names(hs)) + Cardinality(UNION {DOMAIN hs[i].locals : i \in DOMAIN hs})
      leadsTo[k \in 0..size] ==
        IF k = 0 THEN {<<0, n>>} ELSE leadsTo[k - 1] \cup UNION {next(x) : x \in leadsTo[k - 1]}
  IN  {def(x).tag : x \in leadsTo[size]}
=============================================================================
